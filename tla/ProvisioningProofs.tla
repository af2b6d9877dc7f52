-------------------------- MODULE ProvisioningProofs --------------------------
(***************************************************************************)
(* What provisioning promises, for any number of provisioners, paths,      *)
(* contents and manifests.                                                 *)
(*                                                                         *)
(* That a file of the script's making is approved is not inductive: what   *)
(* the power leaves of it depends on whether its bytes were on the disk    *)
(* when it was linked, and that on the order of Stage, Verify and Link.    *)
(***************************************************************************)
EXTENDS Provisioning, TLAPS

(* A staged file is synced before it is verified, and verified before it   *)
(* is linked.                                                              *)
StagedApproved ==
  \A p \in Provisioner :
    /\ At(p, "verify") => run[p].onDisk
    /\ At(p, "link") => run[p].onDisk /\ Verified(run[p].staged, run[p].expected)

ScriptFilesOnDisk ==
  \A d \in Path : (panel[d] # Absent /\ panel[d].by = "script") => panel[d].onDisk

IInv == Contents /\ TypeOK /\ StagedApproved /\ ScriptFilesOnDisk /\ ScriptFilesApproved

-----------------------------------------------------------------------------
(* The states a provisioner can be in do not overlap.                      *)
LEMMA RunStates ==
  ASSUME IInv, NEW p \in Provisioner,
         run[p].pc \notin {"none", "installed", "refused"}
  PROVE  /\ run[p] \in Run
         /\ run[p].expected \in Manifest
         /\ Target(p) \in Path
         /\ run[p].expected = [path |-> Target(p), sha256 |-> run[p].expected.sha256]
<1>1. run[p] \in Run
  BY DEF IInv, TypeOK, Ended, NoRun
<1>2. run[p].expected \in Manifest
  BY <1>1 DEF Run
<1>. QED
  BY <1>1, <1>2 DEF IInv, Contents, Target

(* A step that moves one provisioner and no file keeps the invariant, if   *)
(* what it moves to is typed and keeps its promise on staged files.        *)
LEMMA OneMoves ==
  ASSUME IInv, NEW p \in Provisioner, NEW r,
         r \in Run \cup Ended \cup {NoRun},
         run' = [run EXCEPT ![p] = r],
         UNCHANGED <<manifest, source, panel>>,
         r.pc = "verify" => r.onDisk,
         r.pc = "link" => r.onDisk /\ Verified(r.staged, r.expected)
  PROVE  IInv'
<1>1. TypeOK'
  BY DEF IInv, TypeOK
<1>2. StagedApproved'
  BY DEF IInv, TypeOK, StagedApproved, At, Verified
<1>3. ScriptFilesOnDisk' /\ ScriptFilesApproved'
  BY DEF IInv, ScriptFilesOnDisk, ScriptFilesApproved
<1>. QED
  BY <1>1, <1>2, <1>3 DEF IInv

(* Nor does the end of a run disturb it.                                   *)
LEMMA RunEnds ==
  ASSUME IInv, NEW p \in Provisioner, NEW outcome \in {"installed", "refused"},
         run[p] \in Run, End(p, outcome), UNCHANGED <<manifest, source, panel>>
  PROVE  IInv'
<1>. DEFINE r == [pc |-> outcome, expected |-> run[p].expected]
<1>1. r \in Ended
  BY DEF Run, Ended
<1>. QED
  BY <1>1, OneMoves DEF End

LEMMA InitIInv == ASSUME Contents PROVE Init => IInv
BY DEF Init, IInv, TypeOK, StagedApproved, ScriptFilesOnDisk, ScriptFilesApproved, At, NoRun

LEMMA StepIInv ==
  ASSUME IInv, NEW p \in Provisioner, ProvisionerStep(p)
  PROVE  IInv'
<1>1. ASSUME NEW destination \in Path \cup {Elsewhere}, Start(p, destination)
      PROVE  IInv'
  <2>. DEFINE accepted ==
         [pc |-> "exists", expected |-> manifest, staged |-> NoFile, onDisk |-> FALSE]
       refused == [pc |-> "refused", expected |-> manifest]
  <2>1. accepted \in Run /\ refused \in Ended
    BY DEF IInv, TypeOK, Run, Ended
  <2>2. \/ run' = [run EXCEPT ![p] = accepted]
        \/ run' = [run EXCEPT ![p] = refused]
    BY <1>1 DEF Start
  <2>. QED
    BY <1>1, <2>1, <2>2, OneMoves DEF Start
<1>2. ASSUME Exists(p) \/ Compare(p) \/ Reverify(p) \/ Confirm(p) \/ Errs(p)
      PROVE  IInv'
  <2>1. run[p] \in Run
    BY <1>2, RunStates DEF IInv, Exists, Compare, Reverify, Confirm, Errs, At
  <2>2. CASE \E pc \in {"stage", "compare", "reverify"} : Goto(p, pc) /\ UNCHANGED <<manifest, source, panel>>
    <3>1. PICK pc \in {"stage", "compare", "reverify"} : Goto(p, pc)
      BY <2>2
    <3>. DEFINE r == [run[p] EXCEPT !.pc = pc]
    <3>2. r \in Run /\ r.pc = pc
      BY <2>1 DEF Run
    <3>. QED
      BY <2>2, <3>1, <3>2, OneMoves DEF Goto
  <2>3. CASE \E outcome \in {"installed", "refused"} :
               End(p, outcome) /\ UNCHANGED <<manifest, source, panel>>
    BY <2>1, <2>3, RunEnds
  <2>. QED
    BY <1>2, <2>2, <2>3 DEF Exists, Compare, Reverify, Confirm, Errs
<1>3. ASSUME Stage(p)
      PROVE  IInv'
  <2>1. PICK bytes \in Copied :
          run' = [run EXCEPT ![p] =
                    [@ EXCEPT !.pc = "verify", !.staged = bytes, !.onDisk = TRUE]]
    BY <1>3 DEF Stage
  <2>2. bytes \in Bytes
    BY DEF Copied, IInv, Contents, TypeOK
  <2>3. run[p] \in Run
    BY <1>3, RunStates DEF IInv, Stage, At
  <2>. DEFINE r == [run[p] EXCEPT !.pc = "verify", !.staged = bytes, !.onDisk = TRUE]
  <2>4. r \in Run /\ r.pc = "verify" /\ r.onDisk
    BY <2>2, <2>3 DEF Run
  <2>5. run' = [run EXCEPT ![p] = r]
    BY <2>1
  <2>. QED
    BY <1>3, <2>4, <2>5, OneMoves DEF Stage
<1>4. ASSUME Verify(p)
      PROVE  IInv'
  <2>1. run[p] \in Run /\ run[p].onDisk
    BY <1>4, RunStates DEF IInv, StagedApproved, Verify, At
  <2>2. CASE Verified(run[p].staged, run[p].expected) /\ Goto(p, "link")
    <3>. DEFINE r == [run[p] EXCEPT !.pc = "link"]
    <3>1. /\ r \in Run /\ r.pc = "link" /\ r.onDisk
          /\ r.staged = run[p].staged /\ r.expected = run[p].expected
      BY <2>1 DEF Run
    <3>. QED
      BY <1>4, <2>2, <3>1, OneMoves DEF Goto, Verify
  <2>. QED
    BY <1>4, <2>1, <2>2, RunEnds DEF Verify
<1>5. ASSUME Link(p)
      PROVE  IInv'
  <2>1. /\ run[p] \in Run /\ run[p].expected \in Manifest /\ Target(p) \in Path
        /\ run[p].expected = [path |-> Target(p), sha256 |-> run[p].expected.sha256]
        /\ run[p].onDisk /\ Verified(run[p].staged, run[p].expected)
    BY <1>5, RunStates DEF IInv, StagedApproved, Link, At
  <2>2. CASE panel[Target(p)] = Absent
    <3>. DEFINE file == [bytes |-> run[p].staged, onDisk |-> run[p].onDisk, named |-> FALSE,
                         by |-> "script"]
         r == [run[p] EXCEPT !.pc = "sync"]
    <3>1. /\ panel' = [panel EXCEPT ![Target(p)] = file]
          /\ run' = [run EXCEPT ![p] = r]
          /\ UNCHANGED <<manifest, source>>
      BY <1>5, <2>2 DEF Link, Goto
    <3>2. r \in Run /\ r.pc = "sync"
      BY <2>1 DEF Run
    <3>3. file \in File
      BY <2>1 DEF IInv, Contents, File, Verified, Run
    <3>4. TypeOK'
      BY <3>1, <3>2, <3>3 DEF IInv, TypeOK
    <3>5. StagedApproved'
      BY <3>1, <3>2 DEF IInv, TypeOK, StagedApproved, At, Verified
    <3>6. ScriptFilesOnDisk'
      BY <2>1, <3>1 DEF IInv, TypeOK, ScriptFilesOnDisk
    <3>7. [path |-> Target(p), sha256 |-> file.bytes] \in Manifest /\ file.bytes \in ReplayReady
      BY <2>1 DEF Verified
    <3>8. ScriptFilesApproved'
      <4>. SUFFICES ASSUME NEW d \in Path, panel'[d] # Absent, panel'[d].by = "script"
                    PROVE  /\ [path |-> d, sha256 |-> panel'[d].bytes] \in Manifest
                           /\ panel'[d].bytes \in ReplayReady
        BY DEF ScriptFilesApproved
      <4>1. CASE d = Target(p)
        BY <3>1, <3>7, <4>1 DEF IInv, TypeOK
      <4>2. CASE d # Target(p)
        <5>1. panel'[d] = panel[d]
          BY <3>1, <4>2 DEF IInv, TypeOK
        <5>. QED
          BY <5>1 DEF IInv, ScriptFilesApproved
      <4>. QED
        BY <4>1, <4>2
    <3>. QED
      BY <3>4, <3>5, <3>6, <3>8 DEF IInv
  <2>3. CASE panel[Target(p)] # Absent
    BY <1>5, <2>1, <2>3, RunEnds DEF Link
  <2>. QED
    BY <2>2, <2>3
<1>6. ASSUME SyncDirectory(p)
      PROVE  IInv'
  <2>1. run[p] \in Run /\ Target(p) \in Path
    BY <1>6, RunStates DEF IInv, SyncDirectory, At
  <2>. DEFINE r == [run[p] EXCEPT !.pc = "confirm"]
              file == [panel[Target(p)] EXCEPT !.named = TRUE]
  <2>2. r \in Run /\ r.pc = "confirm" /\ run' = [run EXCEPT ![p] = r]
    BY <1>6, <2>1 DEF Run, SyncDirectory, Goto
  <2>3. CASE panel[Target(p)] = Absent
    <3>1. panel' = panel
      BY <1>6, <2>1, <2>3 DEF SyncDirectory, IInv, TypeOK
    <3>. QED
      BY <1>6, <2>2, <3>1, OneMoves DEF SyncDirectory
  <2>4. CASE panel[Target(p)] # Absent
    <3>1. panel' = [panel EXCEPT ![Target(p)] = file]
      BY <1>6, <2>4 DEF SyncDirectory
    <3>2. panel[Target(p)] \in File
      BY <2>1, <2>4 DEF IInv, TypeOK
    <3>3. /\ file \in File /\ file.bytes = panel[Target(p)].bytes
          /\ file.by = panel[Target(p)].by /\ file.onDisk = panel[Target(p)].onDisk
      BY <3>2 DEF File
    <3>4. TypeOK'
      BY <1>6, <2>1, <2>2, <3>1, <3>3 DEF IInv, TypeOK, SyncDirectory
    <3>5. StagedApproved'
      BY <2>2 DEF IInv, TypeOK, StagedApproved, At, Verified
    <3>6. ScriptFilesOnDisk' /\ ScriptFilesApproved'
      <4>. SUFFICES ASSUME NEW d \in Path, panel'[d] # Absent, panel'[d].by = "script"
                    PROVE  /\ panel'[d].onDisk
                           /\ [path |-> d, sha256 |-> panel'[d].bytes] \in Manifest
                           /\ panel'[d].bytes \in ReplayReady
        BY DEF ScriptFilesOnDisk, ScriptFilesApproved
      <4>1. panel[d] # Absent /\ panel'[d].by = panel[d].by /\ panel'[d].bytes = panel[d].bytes
              /\ panel'[d].onDisk = panel[d].onDisk
        BY <2>4, <3>1, <3>3 DEF IInv, TypeOK
      <4>. QED
        BY <4>1 DEF IInv, ScriptFilesOnDisk, ScriptFilesApproved
    <3>. QED
      BY <3>4, <3>5, <3>6 DEF IInv
  <2>. QED
    BY <2>3, <2>4
<1>7. ASSUME Killed(p)
      PROVE  IInv'
  BY <1>7, OneMoves DEF Killed, NoRun
<1>. QED
  BY <1>1, <1>2, <1>3, <1>4, <1>5, <1>6, <1>7 DEF ProvisionerStep

(* What survives of a file that was on the disk has the bytes it had.      *)
LEMMA PowerIInv == ASSUME IInv, PowerFailure PROVE IInv'
<1>1. ASSUME NEW d \in Path
      PROVE  /\ panel'[d] \in File \cup {Absent}
             /\ panel'[d] # Absent =>
                  /\ panel[d] # Absent
                  /\ panel'[d].onDisk /\ panel'[d].by = panel[d].by
                  /\ panel[d].onDisk => panel'[d].bytes = panel[d].bytes
  <2>1. panel'[d] \in Survivors(panel[d])
    BY DEF PowerFailure
  <2>2. CASE panel[d] = Absent
    BY <2>1, <2>2 DEF Survivors
  <2>3. CASE panel[d] # Absent /\ panel'[d] # Absent
    <3>1. panel[d] \in File
      BY <2>3 DEF IInv, TypeOK
    <3>2. PICK b \in IF panel[d].onDisk THEN {panel[d].bytes} ELSE {panel[d].bytes, Mangled} :
            panel'[d] = [panel[d] EXCEPT !.bytes = b, !.onDisk = TRUE, !.named = TRUE]
      BY <2>1, <2>3 DEF Survivors
    <3>3. b \in Bytes /\ (panel[d].onDisk => b = panel[d].bytes)
      BY <3>1, <3>2 DEF IInv, Contents, File
    <3>4. panel'[d] = [bytes |-> b, onDisk |-> TRUE, named |-> TRUE, by |-> panel[d].by]
      BY <3>1, <3>2 DEF File
    <3>. QED
      BY <2>3, <3>1, <3>3, <3>4 DEF File
  <2>. QED
    BY <2>2, <2>3
<1>2. /\ run' = [p \in Provisioner |-> NoRun]
      /\ UNCHANGED <<manifest, source>>
      /\ \E S : panel' \in [Path -> S]
  BY DEF PowerFailure
<1>3. TypeOK'
  BY <1>1, <1>2 DEF IInv, TypeOK
<1>4. StagedApproved'
  BY <1>2 DEF StagedApproved, At, NoRun
<1>5. ScriptFilesOnDisk' /\ ScriptFilesApproved'
  BY <1>1 DEF IInv, ScriptFilesOnDisk, ScriptFilesApproved
<1>. QED
  BY <1>3, <1>4, <1>5 DEF IInv

LEMMA OperatorIInv == ASSUME IInv, NEW d \in Path, Operator(d) PROVE IInv'
<1>1. PICK file \in {Absent} \cup [bytes : Bytes, onDisk : {TRUE}, named : {TRUE}, by : {"operator"}] :
        panel' = [panel EXCEPT ![d] = file]
  BY DEF Operator
<1>2. file \in File \cup {Absent} /\ (file # Absent => file.by = "operator")
  BY <1>1 DEF File
<1>3. TypeOK'
  BY <1>1, <1>2 DEF IInv, TypeOK, Operator
<1>4. StagedApproved'
  BY DEF IInv, StagedApproved, At, Operator
<1>5. ScriptFilesOnDisk' /\ ScriptFilesApproved'
  <2>. SUFFICES ASSUME NEW e \in Path, panel'[e] # Absent, panel'[e].by = "script"
                PROVE  panel'[e] = panel[e]
    BY DEF IInv, ScriptFilesOnDisk, ScriptFilesApproved
  <2>. QED
    BY <1>1, <1>2 DEF IInv, TypeOK
<1>. QED
  BY <1>3, <1>4, <1>5 DEF IInv

LEMMA NextIInv == ASSUME IInv, [Next]_vars PROVE IInv'
<1>1. ASSUME Transfer \/ NextManifest \/ UNCHANGED vars
      PROVE  IInv'
  <2>1. TypeOK'
    BY <1>1 DEF IInv, TypeOK, Transfer, NextManifest, vars
  <2>2. UNCHANGED <<panel, run>>
    BY <1>1 DEF Transfer, NextManifest, vars
  <2>. QED
    BY <2>1, <2>2 DEF IInv, StagedApproved, At, ScriptFilesOnDisk, ScriptFilesApproved
<1>. QED
  BY <1>1, StepIInv, PowerIInv, OperatorIInv DEF Next

(* Whatever happens to files, sources and machines, each provisioner's     *)
(* state is one of the script's, and each staged file that is linked is    *)
(* the approved panel, on the disk (provision_panel, from mkstemp to link).*)
THEOREM StagedIsApproved ==
  ASSUME Contents PROVE Spec => [](TypeOK /\ StagedApproved)
<1>1. IInv => TypeOK /\ StagedApproved
  BY DEF IInv
<1>. QED
  BY <1>1, InitIInv, NextIInv, PTL DEF Spec

-----------------------------------------------------------------------------
(* One provisioner's step.                                                 *)
LEMMA StepInstalls ==
  ASSUME IInv, NEW q \in Provisioner, ProvisionerStep(q)
  PROVE  /\ \A p \in Provisioner \ {q} : run'[p] = run[p]
         /\ \A d \in Path : panel[d] # Absent => panel'[d].bytes = panel[d].bytes
         /\ (run'[q] # run[q] /\ run'[q].pc = "installed") =>
              Verified(panel[Target(q)].bytes, run[q].expected)
<1>1. \A p \in Provisioner \ {q} : run'[p] = run[p]
  BY DEF IInv, TypeOK, ProvisionerStep, Start, Exists, Compare, Reverify, Stage, Verify, Link,
         SyncDirectory, Confirm, Errs, Killed, Goto, End
<1>2. \A d \in Path : panel[d] # Absent => panel'[d].bytes = panel[d].bytes
  <2>1. CASE Link(q)
    BY <2>1 DEF Link, IInv, TypeOK
  <2>2. CASE SyncDirectory(q)
    <3>. SUFFICES ASSUME NEW d \in Path, panel[d] # Absent
                  PROVE  panel'[d].bytes = panel[d].bytes
      OBVIOUS
    <3>1. panel[d] \in File
      BY DEF IInv, TypeOK
    <3>2. panel'[d] = panel[d] \/ panel'[d] = [panel[d] EXCEPT !.named = TRUE]
      BY <2>2 DEF SyncDirectory, IInv, TypeOK
    <3>. QED
      BY <3>1, <3>2 DEF File
  <2>3. CASE UNCHANGED panel
    BY <2>3
  <2>. QED
    BY <2>1, <2>2, <2>3
    DEF ProvisionerStep, Start, Exists, Compare, Reverify, Stage, Verify, Confirm, Errs, Killed
<1>3. ASSUME run'[q] # run[q], run'[q].pc = "installed"
      PROVE  Verified(panel[Target(q)].bytes, run[q].expected)
  <2>1. CASE Reverify(q) \/ Confirm(q)
    BY <1>3, <2>1 DEF Reverify, Confirm, End, IInv, TypeOK
  <2>2. CASE \E destination \in Path \cup {Elsewhere} : Start(q, destination)
    BY <1>3, <2>2 DEF Start, IInv, TypeOK
  <2>3. CASE Compare(q) \/ Errs(q) \/ Killed(q)
    <3>1. \/ run'[q] = [pc |-> "refused", expected |-> run[q].expected]
          \/ run'[q] = NoRun
          \/ run'[q] = [run[q] EXCEPT !.pc = "reverify"]
      BY <2>3 DEF Compare, Errs, Killed, Goto, End, IInv, TypeOK
    <3>2. run'[q] = [run[q] EXCEPT !.pc = "reverify"] => run'[q].pc # "installed"
      <4>1. CASE Compare(q)
        BY <4>1, RunStates DEF Compare, At, IInv, Run
      <4>2. CASE Errs(q)
        BY <4>2 DEF Errs, Run
      <4>3. CASE Killed(q)
        BY <4>3 DEF Killed, NoRun, IInv, TypeOK
      <4>. QED
        BY <2>3, <4>1, <4>2, <4>3
    <3>. QED
      BY <1>3, <3>1, <3>2 DEF NoRun
  <2>4. CASE Exists(q) \/ Stage(q) \/ Verify(q) \/ Link(q) \/ SyncDirectory(q)
    <3>1. run[q] \in Run
      BY <2>4, RunStates DEF Exists, Stage, Verify, Link, SyncDirectory, At, IInv
    <3>2. CASE Stage(q)
      <4>1. PICK bytes \in Copied :
              run'[q] = [run[q] EXCEPT !.pc = "verify", !.staged = bytes, !.onDisk = TRUE]
        BY <3>2 DEF Stage, IInv, TypeOK
      <4>. QED
        BY <1>3, <3>1, <4>1 DEF Run
    <3>3. CASE ~Stage(q)
      <4>1. \/ \E pc \in {"stage", "compare", "link", "sync", "confirm"} :
                  run'[q] = [run[q] EXCEPT !.pc = pc]
            \/ run'[q] = [pc |-> "refused", expected |-> run[q].expected]
        BY <2>4, <3>3 DEF Exists, Verify, Link, SyncDirectory, Goto, End, IInv, TypeOK
      <4>. QED
        BY <1>3, <3>1, <4>1 DEF Run
    <3>. QED
      BY <3>2, <3>3
  <2>. QED
    BY <2>1, <2>2, <2>3, <2>4 DEF ProvisionerStep
<1>. QED
  BY <1>1, <1>2, <1>3

(* Only approved, replay-ready bytes are ever installed, and they outlive  *)
(* a power failure; nothing that is there is changed; and success is       *)
(* reported only of a path that holds what its manifest approves           *)
(* (provision_panel: "Install exact approved bytes atomically; refuse any  *)
(* different existing file").                                              *)
THEOREM ProvisioningInstalls == ASSUME Contents PROVE Spec => InstalledIsApproved
<1>. DEFINE Promise ==
       /\ ScriptFilesApproved'
       /\ \A p \in Provisioner :
            (run'[p] # run[p] /\ run'[p] # NoRun) =>
              /\ \A d \in Path : panel[d] # Absent => panel'[d].bytes = panel[d].bytes
              /\ run'[p].pc = "installed" =>
                   Verified(panel[Target(p)].bytes, run[p].expected)
<1>1. ASSUME IInv, [Next]_vars PROVE [Promise]_vars
  <2>1. ScriptFilesApproved'
    BY <1>1, NextIInv DEF IInv
  <2>2. CASE \E q \in Provisioner : ProvisionerStep(q)
    BY <1>1, <2>1, <2>2, StepInstalls
  <2>3. CASE UNCHANGED run \/ PowerFailure
    BY <2>1, <2>3 DEF PowerFailure
  <2>. QED
    BY <1>1, <2>2, <2>3 DEF Next, Transfer, NextManifest, Operator, vars
<1>. QED
  BY <1>1, InitIInv, NextIInv, PTL DEF Spec, InstalledIsApproved
=============================================================================
