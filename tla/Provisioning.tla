----------------------------- MODULE Provisioning -----------------------------
(***************************************************************************)
(* scripts/provision_historical_panels.py: operators install the approved  *)
(* panel of a generation at the path its manifest names.  Replay reads     *)
(* whatever file is at that path, so what is there must be exactly what    *)
(* was approved: while the transferred source file changes under the       *)
(* reader, provisioners run beside each other and beside other writers of  *)
(* the path, a write fails half-way, and the machine loses power.          *)
(*                                                                         *)
(* A file is its bytes and whether they have reached the disk.  A staged   *)
(* file has a name of its own, so only its provisioner reads it; what a    *)
(* dead one leaves behind is litter nobody opens.                          *)
(***************************************************************************)
CONSTANTS
  Provisioner,   \* runs of the script
  Path,          \* the persistent paths, one per generation and asset
  Elsewhere,     \* a destination no manifest names
  Bytes,         \* the contents of files
  Mangled,       \* what a torn copy or a lost page leaves: bytes of no panel
  ReplayReady,   \* contents that inspect_panel_readiness accepts in full
  Manifest,      \* the entries [path, sha256] that the repository holds over time
  NoFile

(* What the constants have to be.  The theorems assume it; a module that   *)
(* instantiates this one assumes it of its own constants.                  *)
Contents ==
  /\ Mangled \in Bytes \ ReplayReady
  /\ ReplayReady \subseteq Bytes
  /\ Manifest \subseteq [path : Path, sha256 : Bytes]
  /\ Elsewhere \notin Path

VARIABLES
  manifest,   \* the checked-in manifest entry
  source,     \* the transferred file
  panel,      \* what is at each persistent path
  run         \* where each provisioner is

vars == <<manifest, source, panel, run>>

(* The ghost "by" of a file at a persistent path tells who put it there.   *)
File == [bytes : Bytes, onDisk : BOOLEAN, named : BOOLEAN, by : {"script", "operator"}]

Absent == [bytes |-> NoFile]

NoRun == [pc |-> "none"]

Run == [pc : {"exists", "compare", "reverify", "stage", "verify", "link", "sync", "confirm"},
        expected : Manifest, staged : Bytes \cup {NoFile}, onDisk : BOOLEAN]

Ended == [pc : {"installed", "refused"}, expected : Manifest]

Init ==
  /\ manifest \in Manifest
  /\ source \in Bytes \cup {NoFile}
  /\ panel = [d \in Path |-> Absent]
  /\ run = [p \in Provisioner |-> NoRun]

-----------------------------------------------------------------------------
(* verify_panel: the digest is the manifest's, and the production loader   *)
(* accepts the identity, the rows and the window of what has that digest.  *)
Verified(bytes, expected) ==
  /\ bytes = expected.sha256
  /\ bytes \in ReplayReady

Target(p) == run[p].expected.path

Goto(p, pc) == run' = [run EXCEPT ![p].pc = pc]

End(p, outcome) ==
  run' = [run EXCEPT ![p] = [pc |-> outcome, expected |-> run[p].expected]]

At(p, pc) == run[p].pc = pc

(* main: load the manifest, verify the source and the requested path.      *)
Start(p, destination) ==
  /\ run[p] = NoRun \/ run[p] \in Ended
  /\ run' = [run EXCEPT ![p] =
       IF Verified(source, manifest) /\ destination = manifest.path
         THEN [pc |-> "exists", expected |-> manifest, staged |-> NoFile, onDisk |-> FALSE]
         ELSE [pc |-> "refused", expected |-> manifest]]
  /\ UNCHANGED <<manifest, source, panel>>

Exists(p) ==
  /\ At(p, "exists")
  /\ Goto(p, IF panel[Target(p)] = Absent THEN "stage" ELSE "compare")
  /\ UNCHANGED <<manifest, source, panel>>

(* The file is already there: its digest is compared ...                   *)
Compare(p) ==
  /\ At(p, "compare")
  /\ IF panel[Target(p)].bytes = run[p].expected.sha256
       THEN Goto(p, "reverify")
       ELSE End(p, "refused")
  /\ UNCHANGED <<manifest, source, panel>>

(* ... and the whole file is verified, in a second reading.                *)
Reverify(p) ==
  /\ At(p, "reverify")
  /\ End(p, IF Verified(panel[Target(p)].bytes, run[p].expected)
              THEN "installed" ELSE "refused")
  /\ UNCHANGED <<manifest, source, panel>>

(* The source may have changed since it was verified, or change meanwhile. *)
Copied == IF source = NoFile THEN {} ELSE {source, Mangled}

(* Mutant: the staged file is not flushed and synced.                      *)
StageUnsynced(p) ==
  /\ At(p, "stage")
  /\ \E bytes \in Copied :
       run' = [run EXCEPT ![p] = [@ EXCEPT !.pc = "verify", !.staged = bytes]]
  /\ UNCHANGED <<manifest, source, panel>>

(* Copy into a temporary file beside the destination, flush and fsync.     *)
Stage(p) ==
  /\ At(p, "stage")
  /\ \E bytes \in Copied :
       run' = [run EXCEPT ![p] =
         [@ EXCEPT !.pc = "verify", !.staged = bytes, !.onDisk = TRUE]]
  /\ UNCHANGED <<manifest, source, panel>>

Verify(p) ==
  /\ At(p, "verify")
  /\ IF Verified(run[p].staged, run[p].expected) THEN Goto(p, "link") ELSE End(p, "refused")
  /\ UNCHANGED <<manifest, source, panel>>

(* os.link creates the name or fails; it never replaces a file.            *)
Link(p) ==
  /\ At(p, "link")
  /\ IF panel[Target(p)] = Absent
       THEN /\ panel' = [panel EXCEPT ![Target(p)] =
                 [bytes |-> run[p].staged, onDisk |-> run[p].onDisk, named |-> FALSE,
                  by |-> "script"]]
            /\ Goto(p, "sync")
       ELSE End(p, "refused") /\ UNCHANGED panel
  /\ UNCHANGED <<manifest, source>>

(* fsync of the directory: the name, whichever file has it now, survives.  *)
SyncDirectory(p) ==
  /\ At(p, "sync")
  /\ Goto(p, "confirm")
  /\ panel' = [panel EXCEPT ![Target(p)] = IF @ = Absent THEN @ ELSE [@ EXCEPT !.named = TRUE]]
  /\ UNCHANGED <<manifest, source>>

Confirm(p) ==
  /\ At(p, "confirm")
  /\ End(p, IF Verified(panel[Target(p)].bytes, run[p].expected)
              THEN "installed" ELSE "refused")
  /\ UNCHANGED <<manifest, source, panel>>

(* An OSError anywhere: the staged file is removed, the error reported.    *)
Errs(p) ==
  /\ run[p] \in Run
  /\ End(p, "refused")
  /\ UNCHANGED <<manifest, source, panel>>

(* The process is killed.                                                  *)
Killed(p) ==
  /\ run[p] \in Run
  /\ run' = [run EXCEPT ![p] = NoRun]
  /\ UNCHANGED <<manifest, source, panel>>

-----------------------------------------------------------------------------
(* The surroundings.                                                       *)

(* The machine loses power: unsynced bytes and unsynced names are lost or  *)
(* not, each as it happens.                                                *)
Survivors(file) ==
  IF file = Absent THEN {Absent}
  ELSE (IF file.named THEN {} ELSE {Absent})
         \cup {[file EXCEPT !.bytes = b, !.onDisk = TRUE, !.named = TRUE] :
                 b \in IF file.onDisk THEN {file.bytes} ELSE {file.bytes, Mangled}}

PowerFailure ==
  /\ run' = [p \in Provisioner |-> NoRun]
  /\ panel' \in [Path -> UNION {Survivors(panel[d]) : d \in Path}]
  /\ \A d \in Path : panel'[d] \in Survivors(panel[d])
  /\ UNCHANGED <<manifest, source>>

(* The transferred file is replaced, truncated or removed.                 *)
Transfer ==
  /\ source' \in Bytes \cup {NoFile}
  /\ source' # source
  /\ UNCHANGED <<manifest, panel, run>>

(* A release brings another manifest.                                      *)
NextManifest ==
  /\ manifest' \in Manifest
  /\ manifest' # manifest
  /\ UNCHANGED <<source, panel, run>>

(* Somebody else writes to a persistent path or removes its file: by hand, *)
(* or with the panel builder pointed there, which replaces the file.       *)
Operator(d) ==
  /\ panel' \in {[panel EXCEPT ![d] = file] :
       file \in {Absent} \cup [bytes : Bytes, onDisk : {TRUE}, named : {TRUE}, by : {"operator"}]}
  /\ UNCHANGED <<manifest, source, run>>

ProvisionerStep(p) ==
  \/ \E destination \in Path \cup {Elsewhere} : Start(p, destination)
  \/ Exists(p) \/ Compare(p) \/ Reverify(p)
  \/ Stage(p) \/ Verify(p) \/ Link(p) \/ SyncDirectory(p) \/ Confirm(p)
  \/ Errs(p) \/ Killed(p)

Next ==
  \/ \E p \in Provisioner : ProvisionerStep(p)
  \/ PowerFailure \/ Transfer \/ NextManifest
  \/ \E d \in Path : Operator(d)

Spec == Init /\ [][Next]_vars

-----------------------------------------------------------------------------
(* Properties                                                              *)

TypeOK ==
  /\ manifest \in Manifest
  /\ source \in Bytes \cup {NoFile}
  /\ panel \in [Path -> File \cup {Absent}]
  /\ run \in [Provisioner -> Run \cup Ended \cup {NoRun}]

(* A file the script put in place is one whose bytes a manifest of that    *)
(* very path approved and the loader accepts, also after a crash.          *)
ScriptFilesApproved ==
  \A d \in Path :
    (panel[d] # Absent /\ panel[d].by = "script") =>
      /\ [path |-> d, sha256 |-> panel[d].bytes] \in Manifest
      /\ panel[d].bytes \in ReplayReady

(* "Install exact approved bytes atomically; refuse any different existing *)
(* file" (provision_panel): every file of the script's making is approved  *)
(* and replay-ready, even after the power failed; no provisioner's step    *)
(* changes a file that is there; and one reports success only when the     *)
(* path held, at that moment, exactly the bytes its manifest approves.     *)
InstalledIsApproved ==
  [][/\ ScriptFilesApproved'
     /\ \A p \in Provisioner :
          (run'[p] # run[p] /\ run'[p] # NoRun) =>
            /\ \A d \in Path : panel[d] # Absent => panel'[d].bytes = panel[d].bytes
            /\ run'[p].pc = "installed" =>
                 Verified(panel[Target(p)].bytes, run[p].expected)]_vars
=============================================================================
