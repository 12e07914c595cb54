------------------------------ MODULE Updater ------------------------------
(***************************************************************************)
(* The halves of one installation and the updates they stage for each      *)
(* other: the desktop window, the node service and the command line share  *)
(* one updates folder with one manifest, and each replaces the binaries it *)
(* can reach (crates/allmystuff-updater/src/lib.rs).                       *)
(*                                                                         *)
(* A release is its number, and so is the binary it holds: two binaries    *)
(* have one hash if and only if they are of one release.  Left out are     *)
(* what decides that a check is made (interval, launch claim, preference,  *)
(* the policy on upgrades) and installs that a package manager owns.       *)
(***************************************************************************)
EXTENDS Naturals, FiniteSets

CONSTANTS Halves,       \* the binaries of the suite; each half's process is named like it
          Window,       \* the desktop window, a half that nobody asks for its version
          Cli,          \* the command line; the other halves are services
          Reaches,      \* the choices of what each half can reach
          MaxReleases,  \* bound: releases the feed comes to offer
          MaxWrecks     \* bound: crashes in the middle of a write, and foreign installers

ASSUME UpdaterAssumption ==
    /\ Reaches \subseteq [Halves -> SUBSET Halves]
    /\ \A reaching \in Reaches : \A r \in Halves : r \in reaching[r]
    /\ MaxReleases \in Nat \ {0} /\ MaxWrecks \in Nat

VARIABLES latest,     \* the release the feed offers
          installed,  \* [Halves -> release]: the binary on disk
          marker,     \* [Halves -> release or 0]: the release its version marker is bound to
          image,      \* [Halves -> release]: what its process was started from
          manifest,   \* pending.json: [version, artifacts]
          errand,     \* [Halves -> errand]: what its process does about updates
          reach,      \* [Halves -> SUBSET Halves]: the binaries it finds
          torn,       \* history: binaries replaced without their marker, and not again since
          wrecks

updaterVars == <<latest, installed, marker, image, manifest, errand, reach, torn, wrecks>>

Release == 1 .. MaxReleases

NoManifest == [version |-> 0, artifacts |-> {}]

Rests == [at |-> "rest", version |-> 0, want |-> {}, now |-> FALSE]

\* The pending manifest is about to be applied.
Applies == [Rests EXCEPT !.at = "apply"]

Downloads(version, want, now) ==
    [at |-> "download", version |-> version, want |-> want, now |-> now]

UpdaterTypeOK ==
    /\ latest \in Release
    /\ installed \in [Halves -> Release] /\ image \in [Halves -> Release]
    /\ marker \in [Halves -> Release \cup {0}]
    /\ manifest \in [version : Release, artifacts : (SUBSET Halves) \ {{}}] \cup {NoManifest}
    /\ errand \in [Halves -> [at : {"rest", "apply", "download"}, version : Release \cup {0},
                              want : SUBSET Halves, now : BOOLEAN]]
    /\ \A r \in Halves :
         IF errand[r].at = "download"
         THEN errand[r].version # 0 /\ errand[r].want # {} /\ errand[r].want \subseteq reach[r]
         ELSE errand[r] \in {Rests, Applies}
    /\ reach \in Reaches /\ torn \subseteq Halves /\ wrecks \in 0 .. MaxWrecks

\* A fresh install, of the newest release or not: no half has a marker yet.
UpdaterInit ==
    /\ latest \in Release
    /\ installed = [h \in Halves |-> 1] /\ image = installed
    /\ marker = [h \in Halves |-> 0]
    /\ manifest = NoManifest
    /\ errand = [h \in Halves |-> Rests]
    /\ reach \in Reaches
    /\ torn = {} /\ wrecks = 0

-----------------------------------------------------------------------------
(* What a half believes of the binaries.                                                 *)

\* reported_artifact_version: its own is its process's, the window is not asked.
Reported(r, h) == IF h = r THEN image[r] ELSE IF h = Window THEN 0 ELSE installed[h]

\* mutant: what the binary says counts more than the marker.
EffectiveVersion_Reported(r, h) == IF Reported(r, h) # 0 THEN Reported(r, h)
                            ELSE IF marker[h] = installed[h] THEN marker[h] ELSE 0

\* reconcile_artifact_version: the marker while its hash is the binary's; 0 is unknown.
EffectiveVersion(r, h) == IF marker[h] = installed[h] THEN marker[h] ELSE Reported(r, h)

NeedsApply(r, h, version) == version > EffectiveVersion(r, h)

WantedArtifacts(r, version) == {h \in reach[r] : NeedsApply(r, h, version)}

\* artifact_required_here: the command line everywhere, and the window's whole folder.
RequiredHere(r, h) == h = Cli \/ r = Window

-----------------------------------------------------------------------------
(* A check, and the download that follows it.                                            *)

\* check_now, or update_now if it is to be applied `now', finds something to fetch.  A
\* service applies whatever it fetched.
Check(r, now) ==
    /\ errand[r] = Rests /\ WantedArtifacts(r, latest) # {}
    /\ errand' = [errand EXCEPT ![r] =
                 Downloads(latest, WantedArtifacts(r, latest), now \/ r \notin {Window, Cli})]
    /\ UNCHANGED <<latest, installed, marker, image, manifest, reach, torn, wrecks>>

\* stage_release: the manifest is written anew with the artifacts `got'; no other may be
\* missing than those this half can do without.
StageRelease(r, got) ==
    /\ errand[r].at = "download" /\ got \subseteq errand[r].want /\ got # {}
    /\ \A h \in errand[r].want \ got : ~RequiredHere(r, h)
    /\ manifest' = [version |-> errand[r].version, artifacts |-> got]
    /\ errand' = [errand EXCEPT ![r] = IF @.now THEN Applies ELSE Rests]
    /\ UNCHANGED <<latest, installed, marker, image, reach, torn, wrecks>>

\* The download fails, a checksum or a signature does not match.
StagingFails(r) ==
    /\ errand[r].at = "download"
    /\ errand' = [errand EXCEPT ![r] = Rests]
    /\ UNCHANGED <<latest, installed, marker, image, manifest, reach, torn, wrecks>>

\* apply_now: the user's relaunch, or a node that lost the launch check to another half.
ApplyNow(r) ==
    /\ errand[r] = Rests /\ manifest # NoManifest
    /\ errand' = [errand EXCEPT ![r] = Applies]
    /\ UNCHANGED <<latest, installed, marker, image, manifest, reach, torn, wrecks>>

-----------------------------------------------------------------------------
(* apply_pending, one critical section of the lock on pending.json.                      *)

\* The artifacts of the manifest that r finds behind, and those it cannot reach: no target,
\* no version, so never passed over.
Behind(r) == {h \in manifest.artifacts \cap reach[r] : NeedsApply(r, h, manifest.version)}
Beyond(r) == manifest.artifacts \ reach[r]

\* `old' for all but `done', which are of the manifest's release.
Brought(old, done) == [h \in Halves |-> IF h \in done THEN manifest.version ELSE old[h]]

\* `done' are replaced and their markers written.
Replaced(done) ==
    /\ installed' = Brought(installed, done)
    /\ marker' = Brought(marker, done)
    /\ torn' = torn \ done

\* write_pending_artifacts.
Manifest(rest) == IF rest = {} THEN NoManifest ELSE [manifest EXCEPT !.artifacts = rest]

\* All is applied but what failed and may; the rest waits for the half that can reach it.
Apply(r, failed) ==
    /\ errand[r] = Applies
    /\ failed \subseteq Behind(r) /\ \A h \in failed : ~RequiredHere(r, h)
    /\ Replaced(Behind(r) \ failed)
    /\ manifest' = Manifest(Beyond(r) \cup failed)
    /\ errand' = [errand EXCEPT ![r] = Rests]
    /\ UNCHANGED <<latest, image, reach, wrecks>>

\* A required artifact cannot be replaced: others that are required may be, the manifest
\* stays.
ApplyFails(r, done) ==
    /\ errand[r] = Applies /\ done \subseteq Behind(r)
    /\ \A h \in done : RequiredHere(r, h)
    /\ \E h \in Behind(r) \ done : RequiredHere(r, h)
    /\ Replaced(done)
    /\ errand' = [errand EXCEPT ![r] = Rests]
    /\ UNCHANGED <<latest, image, manifest, reach, wrecks>>

\* A process starts: it runs the binary there is, and first of all applies the manifest.
Launch(r) ==
    /\ image' = [image EXCEPT ![r] = installed[r]]
    /\ errand' = [errand EXCEPT ![r] = Applies]
    /\ UNCHANGED <<latest, installed, marker, manifest, reach, torn, wrecks>>

-----------------------------------------------------------------------------
(* The environment.                                                                      *)

NewRelease ==
    /\ latest < MaxReleases /\ latest' = latest + 1
    /\ UNCHANGED <<installed, marker, image, manifest, errand, reach, torn, wrecks>>

Wreck == wrecks < MaxWrecks /\ wrecks' = wrecks + 1

\* The process ends between the renaming of `h' and the writing of its marker.
EndsBeforeMarker(r, done, h) ==
    /\ Wreck /\ errand[r] = Applies
    /\ h \in Behind(r) /\ done \subseteq Behind(r) \ {h}
    /\ installed' = Brought(installed, done \cup {h})
    /\ marker' = Brought(marker, done)
    /\ torn' = (torn \ done) \cup {h}
    /\ errand' = [errand EXCEPT ![r] = Rests]
    /\ UNCHANGED <<latest, image, manifest, reach>>

\* It ends with `done' replaced and the manifest not yet written anew.
EndsBeforeManifest(r, done) ==
    /\ Wreck /\ errand[r] = Applies
    /\ done \subseteq Behind(r) /\ done # {}
    /\ Replaced(done)
    /\ errand' = [errand EXCEPT ![r] = Rests]
    /\ UNCHANGED <<latest, image, manifest, reach>>

\* It ends in the writing of the manifest, which nobody can read after that.
EndsInManifest(r) ==
    /\ Wreck /\ errand[r].at = "download"
    /\ manifest' = NoManifest
    /\ errand' = [errand EXCEPT ![r] = Rests]
    /\ UNCHANGED <<latest, installed, marker, image, reach, torn>>

\* An installer or the user puts another release there.
Reinstall(h, version) ==
    /\ Wreck /\ version \in 1 .. latest /\ version # installed[h]
    /\ installed' = [installed EXCEPT ![h] = version]
    /\ torn' = torn \cup {h}
    /\ UNCHANGED <<latest, marker, image, manifest, errand, reach>>

-----------------------------------------------------------------------------
UpdaterNext ==
    \/ \E r \in Halves :
         \/ \E now \in BOOLEAN : Check(r, now)
         \/ \E got \in SUBSET Halves : StageRelease(r, got)
         \/ StagingFails(r) \/ ApplyNow(r) \/ Launch(r) \/ EndsInManifest(r)
         \/ \E some \in SUBSET Halves :
              \/ Apply(r, some) \/ ApplyFails(r, some)
              \/ EndsBeforeManifest(r, some)
              \/ \E h \in Halves : EndsBeforeMarker(r, some, h)
    \/ NewRelease
    \/ \E h \in Halves, version \in Release : Reinstall(h, version)

UpdaterSpec == UpdaterInit /\ [][UpdaterNext]_updaterVars

-----------------------------------------------------------------------------
(* Properties. *)

\* No binary whose last replacement got its marker is ever replaced by an older one: not by a
\* slow download that stages its old release over a newer one, not by a process that runs an
\* older image than the disk holds ("a stale marker can never roll a binary back").
NeverRollsBack ==
    [][\A h \in Halves : h \notin torn \cup torn' => installed'[h] >= installed[h]]_updaterVars
=============================================================================
