------------------------------ MODULE Recovery ------------------------------
(***************************************************************************)
(* A pausable session on one worker and what survives the worker: the      *)
(* snapshot files, the writable disk, the paused-sessions manifest         *)
(* (session/manifest.go) and the durable checkpoint (Checkpoint.tla).      *)
(*                                                                         *)
(* Pause, Resume and hydration (session/manager.go) run under the session  *)
(* lock, so at most one of them is in progress: op.  Destroy takes no lock *)
(* and runs beside it: reap.  The worker may crash between any two steps   *)
(* and files may be gone when it comes back; the guest writes its disk     *)
(* whenever its VM runs.                                                   *)
(*                                                                         *)
(* A VM restored from memory n goes on with the disk it knew at snapshot n *)
(* (its caches and file system state): vm.view.  It is intact when that is *)
(* what the disk holds.                                                    *)
(***************************************************************************)
EXTENDS Checkpoint

CONSTANTS
    NoDisk,         \* a writable disk file that does not exist
    NoRecord        \* the manifest does not list the session

ASSUME RecoveryConstants ==
    NoManifest \notin [vmstate : 0..MaxPauses, memory : 0..MaxPauses, disk : Disks \cup {NoDisk}]

\* writable-<vm id>, and writable-<session id> where hydration puts it.
DiskPaths == {"vm", "hydrated"}

VARIABLES
    durable,        \* checkpoints are configured on this worker
    up,             \* the worker process runs
    sess,           \* the session: in the store, its state, its paths, CheckpointRef
    vm,             \* its microVM: the snapshot it was restored from, the disk it knows
    files,          \* files.snap, files.mem: the snapshot they hold, 0 when missing
    disks,          \* disks[p]: the contents of the writable disk at p, or NoDisk
    record,         \* the session's entry in paused-sessions.json
    op,             \* where the holder of the session lock is
    reap,           \* where Destroy is
    count,          \* snapshots taken so far
    diskAt,         \* diskAt[n]: the disk when snapshot n was taken
    lastPause,      \* the snapshot of the last pause that went through
    dirty,          \* disks a guest ran on after the snapshot they belong to
    stale           \* the manifest missed the last transition of the session

session == <<sess, vm, op>>
local   == <<files, disks, record>>
ghost   == <<count, diskAt, lastPause, dirty, stale>>
vars    == <<objects, save, durable, up, session, local, reap, ghost>>

NoSess == [stored |-> FALSE, state |-> "none", paths |-> FALSE, disk |-> "none", ref |-> 0]
NoVM   == [run |-> "none", snap |-> 0, mem |-> 0, view |-> NoDisk, path |-> "none", clean |-> TRUE]

TypeOK ==
    /\ CheckpointTypeOK
    /\ durable \in BOOLEAN /\ up \in BOOLEAN /\ stale \in BOOLEAN
    /\ sess \in [stored : BOOLEAN, state : {"none", "active", "paused"}, paths : BOOLEAN,
                 disk : DiskPaths \cup {"none"}, ref : 0..MaxPauses]
    /\ vm \in [run : {"none", "running", "frozen"}, snap : 0..MaxPauses, mem : 0..MaxPauses,
               view : Disks \cup {NoDisk}, path : DiskPaths \cup {"none"}, clean : BOOLEAN]
    /\ files \in [snap : 0..MaxPauses, mem : 0..MaxPauses]
    /\ disks \in [DiskPaths -> Disks \cup {NoDisk}]
    /\ record \in {NoRecord} \cup [disk : DiskPaths, ref : 0..MaxPauses]
    /\ op \in {"idle", "save", "teardown", "p_persist", "hydrate", "h_snap", "h_mem", "h_disk",
               "h_commit", "load", "setup", "consume", "r_persist"}
    /\ reap \in {"idle", "files", "persist", "done"}
    /\ count \in 0..MaxPauses /\ lastPause \in 0..MaxPauses
    /\ diskAt \in [Pauses -> Disks \cup {NoDisk}]
    /\ dirty \subseteq DiskPaths

GoldenDisk == [i \in Indices |-> 0]

\* A session just created: its VM runs on a clone of the template's disk.
Init ==
    /\ CheckpointInit
    /\ durable \in BOOLEAN
    /\ up = TRUE
    /\ vm = [run |-> "running", snap |-> 0, mem |-> 0, view |-> GoldenDisk, path |-> "vm", clean |-> TRUE]
    /\ disks = [p \in DiskPaths |-> IF p = "vm" THEN GoldenDisk ELSE NoDisk]
    /\ sess = [stored |-> TRUE, state |-> "active", paths |-> FALSE, disk |-> "vm", ref |-> 0]
    /\ files = [snap |-> 0, mem |-> 0]
    /\ record = NoRecord
    /\ op = "idle" /\ reap = "idle"
    /\ count = 0 /\ lastPause = 0
    /\ diskAt = [n \in Pauses |-> NoDisk]
    /\ dirty = {} /\ stale = FALSE

-----------------------------------------------------------------------------
\* persistManifest after a transition: the manifest is replaced by the sessions
\* that are in the store and paused; an error is logged and leaves the old one.
Listed(s) == IF s.stored /\ s.state = "paused" THEN [disk |-> s.disk, ref |-> s.ref] ELSE NoRecord

PersistManifest(s) ==
    \/ record' = Listed(s) /\ stale' = FALSE
    \/ UNCHANGED record /\ stale' = TRUE

\* fileExists of the three paths of a session or of a manifest entry.
HasFiles(paths, disk) ==
    /\ paths /\ files.snap # 0 /\ files.mem # 0
    /\ disk \in DiskPaths /\ disks[disk] # NoDisk

GuestWrite ==
    /\ vm.run = "running"
    /\ \E i \in Indices, c \in Contents \cup {0} :
          /\ disks[vm.path] # NoDisk
          /\ disks' = [disks EXCEPT ![vm.path][i] = c]
          /\ vm' = [vm EXCEPT !.view[i] = c]
    /\ UNCHANGED <<objects, save, durable, up, sess, files, record, op, reap, ghost>>

-----------------------------------------------------------------------------
\* Mutant: the vCPUs are not stopped for the snapshot.
PauseSnapshotRunning ==
    /\ up /\ op = "idle" /\ sess.stored /\ sess.state = "active"
    /\ vm.run # "none"
    /\ count < MaxPauses
    /\ count' = count + 1
    /\ diskAt' = [diskAt EXCEPT ![count + 1] = disks[vm.path]]
    /\ files' = [snap |-> count + 1, mem |-> count + 1]
    /\ sess' = [sess EXCEPT !.disk = vm.path]
    /\ dirty' = dirty \ {vm.path}
    /\ IF durable THEN op' = "save" /\ save' = [IdleSave EXCEPT !.pc = "vmstate", !.g = count + 1]
                  ELSE op' = "teardown" /\ UNCHANGED save
    /\ UNCHANGED <<objects, durable, up, vm, disks, record, reap, lastPause, stale>>

\* Pause.  vmManager.Snapshot stops the VM and writes its state and memory.
PauseSnapshot ==
    /\ up /\ op = "idle" /\ sess.stored /\ sess.state = "active"
    /\ vm.run # "none"
    /\ count < MaxPauses
    /\ count' = count + 1
    /\ diskAt' = [diskAt EXCEPT ![count + 1] = disks[vm.path]]
    /\ files' = [snap |-> count + 1, mem |-> count + 1]
    /\ sess' = [sess EXCEPT !.disk = vm.path]
    /\ vm' = [vm EXCEPT !.run = "frozen"]
    /\ dirty' = dirty \ {vm.path}
    /\ IF durable THEN op' = "save" /\ save' = [IdleSave EXCEPT !.pc = "vmstate", !.g = count + 1]
                  ELSE op' = "teardown" /\ UNCHANGED save
    /\ UNCHANGED <<objects, durable, up, disks, record, reap, lastPause, stale>>

\* The disk file is read while the VM is frozen.
PauseSave ==
    /\ op = "save"
    /\ disks[sess.disk] # NoDisk
    /\ SaveStep(files.snap, files.mem, disks[sess.disk])
    /\ UNCHANGED <<durable, up, session, local, reap, ghost>>

\* Save fails when a file it reads has been deleted by Destroy.
PauseSaveGone ==
    /\ op = "save" /\ save.pc \notin {"saved", "failed"}
    /\ disks[sess.disk] = NoDisk
    /\ Then("failed")
    /\ UNCHANGED <<objects, durable, up, session, local, reap, ghost>>

\* Mutant: the new generation is not recorded in the session.
PauseSavedKeepsRef ==
    /\ op = "save" /\ save.pc = "saved"
    /\ save' = IdleSave
    /\ op' = "teardown"
    /\ UNCHANGED <<objects, durable, up, sess, vm, local, reap, ghost>>

PauseSaved ==
    /\ op = "save" /\ save.pc = "saved"
    /\ sess' = [sess EXCEPT !.ref = save.g]
    /\ save' = IdleSave
    /\ op' = "teardown"
    /\ UNCHANGED <<objects, durable, up, vm, local, reap, ghost>>

\* rollbackFailedCheckpoint: the VM goes on and the snapshot files go, unless
\* ResumeLive or the reconnection fails, which leaves them.
Rollback ==
    /\ op = "save" /\ save.pc = "failed"
    /\ save' = IdleSave
    /\ op' = "idle"
    /\ \/ vm.run = "frozen" /\ vm' = [vm EXCEPT !.run = "running"]
          /\ files' \in {[snap |-> 0, mem |-> 0], files}
       \/ UNCHANGED <<vm, files>>
    /\ UNCHANGED <<objects, durable, up, sess, disks, record, reap, ghost>>

PauseTeardown ==
    /\ op = "teardown"
    /\ vm' = NoVM
    /\ sess' = [sess EXCEPT !.state = "paused", !.paths = TRUE]
    /\ lastPause' = count
    /\ op' = "p_persist"
    /\ UNCHANGED <<objects, save, durable, up, local, reap, count, diskAt, dirty, stale>>

PausePersist ==
    /\ op = "p_persist"
    /\ PersistManifest(sess)
    /\ op' = "idle"
    /\ UNCHANGED <<objects, save, durable, up, sess, vm, files, disks, reap, count, diskAt, lastPause, dirty>>

\* Snapshot fails: the VM may be left frozen; what it wrote is not referenced.
PauseSnapshotFails ==
    /\ up /\ op = "idle" /\ sess.stored /\ sess.state = "active"
    /\ vm.run # "none"
    /\ vm' \in {vm, [vm EXCEPT !.run = "frozen"]}
    /\ files' \in {files, [snap |-> 0, mem |-> 0]}
    /\ sess' = [sess EXCEPT !.disk = vm.path]
    /\ UNCHANGED <<objects, save, durable, up, disks, record, op, reap, ghost>>

-----------------------------------------------------------------------------
\* Resume.  Local artifacts are preferred; hydration brings back missing ones.
ResumeStart ==
    /\ up /\ op = "idle" /\ sess.stored /\ sess.state = "paused"
    /\ op' = IF HasFiles(sess.paths, sess.disk) THEN "load" ELSE "hydrate"
    /\ UNCHANGED <<objects, save, durable, up, sess, vm, local, reap, ghost>>

\* restoreArtifacts verifies all three in temporary files; an error, or no
\* reader, changes nothing.
HydrateFetch ==
    /\ op = "hydrate"
    /\ op' \in IF durable /\ Verified(ManifestKey(sess.ref)) THEN {"h_snap", "idle"} ELSE {"idle"}
    /\ UNCHANGED <<objects, save, durable, up, sess, vm, local, reap, ghost>>

\* The three renames; one that fails removes all three destinations.
HydrateRename ==
    /\ LET m == manifests[ManifestKey(sess.ref)]
       IN  \/ /\ op = "h_snap"
              /\ files' = [files EXCEPT !.snap = m.vmstate]
              /\ op' = "h_mem"
              /\ UNCHANGED <<disks, dirty>>
           \/ /\ op = "h_mem"
              /\ files' = [files EXCEPT !.mem = m.memory]
              /\ op' = "h_disk"
              /\ UNCHANGED <<disks, dirty>>
           \/ /\ op = "h_disk"
              /\ disks' = [disks EXCEPT !["hydrated"] = m.disk]
              /\ dirty' = dirty \ {"hydrated"}
              /\ op' = "h_commit"
              /\ UNCHANGED files
    /\ UNCHANGED <<objects, save, durable, up, sess, vm, record, reap, count, diskAt, lastPause, stale>>

HydrateFails ==
    /\ op \in {"h_snap", "h_mem", "h_disk", "h_commit"}
    /\ files' = [snap |-> 0, mem |-> 0]
    /\ disks' = [disks EXCEPT !["hydrated"] = NoDisk]
    /\ op' = "idle"
    /\ UNCHANGED <<objects, save, durable, up, sess, vm, record, reap, ghost>>

HydrateCommit ==
    /\ op = "h_commit"
    /\ sess' = [sess EXCEPT !.paths = TRUE, !.disk = "hydrated", !.ref = ManifestKey(sess.ref)]
    /\ \/ record' = Listed(sess') /\ UNCHANGED stale
       \/ UNCHANGED record /\ stale' = TRUE
    /\ op' = "load"
    /\ UNCHANGED <<objects, save, durable, up, vm, files, disks, reap, count, diskAt, lastPause, dirty>>

\* ResumeFromSnapshot: from here on the guest runs on its own disk, in place.
Load ==
    /\ op = "load"
    /\ \/ /\ HasFiles(sess.paths, sess.disk)
          /\ vm' = [run |-> "running", snap |-> files.snap, mem |-> files.mem,
                    view |-> diskAt[files.mem], path |-> sess.disk, clean |-> sess.disk \notin dirty /\ ~stale]
          /\ dirty' = dirty \cup {sess.disk}
          /\ op' = "setup"
       \/ op' = "idle" /\ UNCHANGED <<vm, dirty>>
    /\ UNCHANGED <<objects, save, durable, up, sess, local, reap, count, diskAt, lastPause, stale>>

\* Network policy, connection, runtime reset and environment; when one of them
\* fails the VM is torn down, its disk and the snapshot files stay.
ResumeSetup ==
    /\ op = "setup"
    /\ \/ op' = "idle" /\ vm' = NoVM /\ UNCHANGED <<sess, files>>
       \/ /\ op' = "consume"
          /\ sess' = [sess EXCEPT !.state = "active"]
          /\ files' = [files EXCEPT !.snap = 0]
          /\ UNCHANGED vm
    /\ UNCHANGED <<objects, save, durable, up, disks, record, reap, ghost>>

ResumeConsume ==
    /\ op = "consume"
    /\ files' = [files EXCEPT !.mem = 0]
    /\ sess' = [sess EXCEPT !.paths = FALSE]
    /\ op' = "r_persist"
    /\ UNCHANGED <<objects, save, durable, up, vm, disks, record, reap, ghost>>

ResumePersist ==
    /\ op = "r_persist"
    /\ PersistManifest(sess)
    /\ op' = "idle"
    /\ UNCHANGED <<objects, save, durable, up, sess, vm, files, disks, reap, count, diskAt, lastPause, dirty>>

-----------------------------------------------------------------------------
\* Destroy, which does not wait for the session lock.  For an active session it
\* does not rewrite the manifest: a Resume that has not got there yet will.
DestroyStart ==
    /\ up /\ reap = "idle" /\ sess.stored
    /\ sess' = [sess EXCEPT !.stored = FALSE]
    /\ IF sess.state = "paused"
       THEN reap' = "files" /\ UNCHANGED <<vm, disks, stale>>
       ELSE /\ reap' = "done"
            /\ vm' = NoVM
            /\ disks' = IF vm.run = "none" THEN disks ELSE [disks EXCEPT ![vm.path] = NoDisk]
            /\ stale' = (stale \/ record # NoRecord)
    /\ UNCHANGED <<objects, save, durable, up, files, record, op, count, diskAt, lastPause, dirty>>

\* Mutant: the manifest is not rewritten when a paused session is destroyed.
DestroyFilesOnly ==
    /\ reap = "files"
    /\ disks' = IF sess.disk = "none" THEN disks ELSE [disks EXCEPT ![sess.disk] = NoDisk]
    /\ files' = [snap |-> 0, mem |-> 0]
    /\ reap' = "done"
    /\ UNCHANGED <<objects, save, durable, up, session, record, ghost>>

\* cleanupPausedFiles.
DestroyFiles ==
    /\ reap = "files"
    /\ disks' = IF sess.disk = "none" THEN disks ELSE [disks EXCEPT ![sess.disk] = NoDisk]
    /\ files' = [snap |-> 0, mem |-> 0]
    /\ reap' = "persist"
    /\ UNCHANGED <<objects, save, durable, up, session, record, ghost>>

DestroyPersist ==
    /\ reap = "persist"
    /\ PersistManifest(sess)
    /\ reap' = "done"
    /\ UNCHANGED <<objects, save, durable, up, session, files, disks, count, diskAt, lastPause, dirty>>

-----------------------------------------------------------------------------
\* The process dies with its VMs; in a Save or a Restore the temporary files
\* and the rest of the uploads are lost.
Crash ==
    /\ up
    /\ up' = FALSE
    /\ sess' = NoSess /\ vm' = NoVM /\ op' = "idle" /\ save' = IdleSave
    /\ reap' = IF reap = "done" THEN "done" ELSE "idle"
    /\ UNCHANGED <<objects, durable, local, ghost>>

\* The host lost local files (a replaced or wiped disk).
LoseFile ==
    /\ ~up
    /\ \/ files' \in {[files EXCEPT !.snap = 0], [files EXCEPT !.mem = 0]} /\ UNCHANGED disks
       \/ \E p \in DiskPaths : disks' = [disks EXCEPT ![p] = NoDisk] /\ UNCHANGED files
    /\ UNCHANGED <<objects, save, durable, up, session, record, reap, ghost>>

\* readManifest: an entry whose files are gone survives through its reference.
Recovered(rec) ==
    IF rec # NoRecord /\ (HasFiles(TRUE, rec.disk) \/ rec.ref # 0)
    THEN [stored |-> TRUE, state |-> "paused", paths |-> TRUE, disk |-> rec.disk, ref |-> rec.ref]
    ELSE NoSess

\* NewManager: recoverPaused, then cleanupOrphanedDisks, which keeps the files
\* of the recovered sessions.  A manifest that cannot be read recovers nothing
\* and the cleanup still runs.
Restart ==
    /\ ~up
    /\ up' = TRUE
    /\ \E readable \in BOOLEAN :
          LET s == IF readable THEN Recovered(record) ELSE NoSess
          IN  /\ sess' = s
              /\ disks' = [p \in DiskPaths |-> IF s.stored /\ p = s.disk THEN disks[p] ELSE NoDisk]
              /\ files' = IF s.stored THEN files ELSE [snap |-> 0, mem |-> 0]
              /\ IF s.stored THEN record' \in {Listed(s), record} ELSE UNCHANGED record
              /\ reap' = IF s.stored THEN "idle" ELSE reap
    /\ UNCHANGED <<objects, save, durable, vm, op, ghost>>

Next ==
    \/ GuestWrite
    \/ PauseSnapshot \/ PauseSnapshotFails \/ PauseSave \/ PauseSaveGone \/ PauseSaved
    \/ Rollback \/ PauseTeardown \/ PausePersist
    \/ ResumeStart \/ HydrateFetch \/ HydrateRename \/ HydrateFails \/ HydrateCommit
    \/ Load \/ ResumeSetup \/ ResumeConsume \/ ResumePersist
    \/ DestroyStart \/ DestroyFiles \/ DestroyPersist
    \/ Crash \/ LoseFile \/ Restart

Spec == Init /\ [][Next]_vars

-----------------------------------------------------------------------------
\* The image of the latest freeze, and the one the objects of g amount to.
FrozenImage == IF count = 0 THEN NoManifest
               ELSE [vmstate |-> count, memory |-> count, disk |-> diskAt[count]]

StoredImage(g) ==
    IF manifests[g] = NoManifest THEN NoManifest
    ELSE [vmstate |-> vmstate[g], memory |-> memory[g],
          disk |-> [i \in Indices |-> IF manifests[g].disk[i] \in chunks \cup {0}
                                      THEN manifests[g].disk[i] ELSE NoDisk]]

Durable == INSTANCE CheckpointStore WITH
               Generations <- Pauses, None <- NoManifest, image <- FrozenImage,
               committed <- [g \in Pauses |-> StoredImage(g)], current <- latest

\* Save commits whole generations: whatever fails, crashes or is applied after
\* an error, a generation with a manifest holds the image the VM was frozen
\* with, for good, and latest.json names such a generation and never an older one.
CheckpointsAreAtomic == Durable!Spec

\* A paused session comes back as it was paused: the files Resume would load are
\* those of its last completed pause and, with a checkpoint store, so is the
\* generation it would hydrate from without them, which is whole.  (Not the files
\* when a guest ran on the disk since, in a Resume that did not complete; nor
\* anything when the manifest missed a transition.)
PausedLoadsLastPause ==
    sess.stored /\ sess.state = "paused" /\ op = "idle" /\ ~stale =>
        /\ HasFiles(sess.paths, sess.disk) \/ durable
        /\ HasFiles(sess.paths, sess.disk) /\ sess.disk \notin dirty =>
              /\ files = [snap |-> lastPause, mem |-> lastPause]
              /\ disks[sess.disk] = diskAt[lastPause]
        /\ durable =>
              /\ sess.ref = lastPause
              /\ Verified(sess.ref)
              /\ manifests[sess.ref].disk = diskAt[lastPause]

\* A VM that Resume restored, from local files or from a checkpoint, finds the
\* disk its memory was saved with: never the state of one pause and the memory
\* or disk of another.
RestoredGuestIsIntact ==
    vm.run # "none" /\ vm.clean /\ sess.stored =>
        vm.snap = vm.mem /\ vm.view = disks[vm.path]

\* A session whose Destroy has returned does not come back with a restart: it
\* is neither in the store nor in the manifest a later process reads.
DestroyedStaysDestroyed ==
    reap = "done" /\ ~stale => ~sess.stored /\ record = NoRecord
=============================================================================
