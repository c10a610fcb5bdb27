--------------------------- MODULE RecoveryProofs ---------------------------
(***************************************************************************)
(* Durable checkpoints are atomic, for any number of pauses and any disk:  *)
(* Recovery implements CheckpointStore.                                    *)
(*                                                                         *)
(* The inductive invariant has three parts: what is in the object store    *)
(* (StoreOK), how far the Save in progress has come (SavingOK), and why    *)
(* the files that Save reads are those of the latest freeze while it runs  *)
(* (LocalOK).                                                              *)
(***************************************************************************)
EXTENDS Recovery, TLAPS

Stored == chunks \cup {0}
Uploading == {"vmstate", "memory", "list", "disk"}
Hydrating == {"h_snap", "h_mem", "h_disk", "h_commit"}

\* No generation is of the future, and every listed chunk is there.
StoreOK ==
    /\ CheckpointTypeOK
    /\ count \in 0..MaxPauses /\ diskAt \in [Pauses -> Disks \cup {NoDisk}]
    /\ latest <= count
    /\ \A g \in Pauses : manifests[g] # NoManifest =>
           g <= count /\ \A i \in Indices : manifests[g].disk[i] \in Stored

\* The generation being written has no manifest until everything it lists is
\* there, and is not the active one until it has a manifest.
SavingOK ==
    save.pc # "idle" =>
        /\ save.g = count /\ count \in Pauses
        /\ save.pc \in Uploading => manifests[count] = NoManifest /\ latest < count
        /\ save.pc = "pointer" => manifests[count] # NoManifest /\ latest < count
        /\ save.pc \in {"memory", "list", "disk"} => vmstate[count] = count
        /\ save.pc \in {"list", "disk"} => memory[count] = count
        /\ save.pc = "disk" => \A i \in Indices :
               /\ save.previous[i] \in Stored
               /\ i \notin save.todo => save.disk[i] = diskAt[count][i] /\ save.disk[i] \in Stored

SessType == [stored : BOOLEAN, state : {"none", "active", "paused"}, paths : BOOLEAN,
             disk : DiskPaths \cup {"none"}, ref : 0..MaxPauses]

SaveType == [pc : {"idle", "vmstate", "memory", "list", "disk", "manifest", "pointer", "saved", "failed"},
             g : 0..MaxPauses, disk : Disks, todo : SUBSET Indices, previous : Disks]

LocalTypes ==
    /\ sess \in SessType
    /\ files \in [snap : 0..MaxPauses, mem : 0..MaxPauses]
    /\ disks \in [DiskPaths -> Disks \cup {NoDisk}]
    /\ record \in {NoRecord} \cup [disk : DiskPaths, ref : 0..MaxPauses]
    /\ {"run", "path"} \subseteq DOMAIN vm

\* The snapshot files and the disk that Save reads are those of the freeze:
\* the VM does not run, and Destroy either leaves them alone or deletes the disk.
SavedFiles ==
    /\ sess.state = "active" /\ vm.run # "running" /\ reap # "files"
    /\ files = [snap |-> count, mem |-> count]
    /\ disks[sess.disk] = diskAt[count] \/ disks[sess.disk] = NoDisk

LocalOK ==
    /\ LocalTypes
    /\ vm.run # "none" => vm.path \in DiskPaths
    /\ sess.state # "none" => sess.disk \in DiskPaths
    /\ op # "idle" => up /\ sess.state # "none"
    /\ reap = "files" => ~sess.stored
    /\ (op = "save") <=> (save.pc # "idle")
    /\ op = "save" => SavedFiles
    /\ op \in Hydrating => ManifestKey(sess.ref) \in Pauses /\ manifests[ManifestKey(sess.ref)] # NoManifest

RInv == StoreOK /\ SavingOK /\ LocalOK

\* The store and the Save in progress, seen by a step that leaves them alone.
LEMMA StoreStutter ==
    ASSUME StoreOK, SavingOK, UNCHANGED <<objects, save, count, diskAt>>
    PROVE  StoreOK' /\ SavingOK'
BY DEF StoreOK, SavingOK, CheckpointTypeOK, objects, Stored

\* No snapshot (0) is a legal value of the files.
LEMMA ZeroFiles == 0 \in 0..MaxPauses /\ [snap |-> 0, mem |-> 0] \in [snap : 0..MaxPauses, mem : 0..MaxPauses]
<1>1. 0 \in 0..MaxPauses
  BY CheckpointConstants
<1>2. QED
  BY <1>1

\* Pauses are the numbers of 0..MaxPauses but 0.
LEMMA PauseNumbers == \A n : /\ n \in Pauses <=> n \in 0..MaxPauses /\ n # 0
                             /\ n \in Pauses => n <= n
BY CheckpointConstants DEF Pauses

\* Disks with the same chunks are the same.
LEMMA SameDisk == ASSUME NEW d \in Disks, NEW e \in Disks, \A j \in Indices : d[j] = e[j] PROVE d = e
BY DEF Disks

\* What persistManifest lists is a legal entry.
LEMMA ListedRecord ==
    ASSUME NEW s \in SessType, s.state # "none" => s.disk \in DiskPaths
    PROVE  Listed(s) \in {NoRecord} \cup [disk : DiskPaths, ref : 0..MaxPauses]
<1>1. CASE s.stored /\ s.state = "paused"
  <2>1. s.disk \in DiskPaths /\ s.ref \in 0..MaxPauses
    BY <1>1 DEF SessType
  <2>2. QED
    BY <1>1, <2>1 DEF Listed
<1>2. CASE ~(s.stored /\ s.state = "paused")
  BY <1>2 DEF Listed
<1>3. QED
  BY <1>1, <1>2

\* No Save in progress is a legal value of save.
LEMMA IdleSaveType == IdleSave.pc = "idle" /\ IdleSave \in SaveType
BY ZeroFiles DEF IdleSave, SaveType, Disks

\* What a step changes when it neither saves nor takes a snapshot.
Elsewhere == UNCHANGED <<objects, count, diskAt>>

\* A session just created satisfies the invariant.
LEMMA InitRInv == Init => RInv
<1> SUFFICES ASSUME Init PROVE RInv
  OBVIOUS
<1> USE CheckpointConstants DEF Init, CheckpointInit, Pauses, Disks, DiskPaths
<1>1. IdleSave.pc = "idle" /\ IdleSave \in SaveType
  BY IdleSaveType
<1>2. StoreOK /\ SavingOK
  BY <1>1 DEF StoreOK, SavingOK, CheckpointTypeOK, SaveType
<1>3. LocalOK
  BY <1>1 DEF LocalOK, LocalTypes, SessType, SavedFiles, GoldenDisk, Hydrating
<1>4. QED
  BY <1>2, <1>3 DEF RInv

\* The guest, and the part of Pause that follows or replaces Save.
LEMMA PauseLocal ==
    ASSUME RInv, GuestWrite \/ PauseSnapshotFails \/ PauseTeardown \/ PausePersist
    PROVE  RInv' /\ Elsewhere
<1> USE DEF RInv, LocalOK, LocalTypes, SessType, SavedFiles, Hydrating
<1>1. UNCHANGED <<objects, save, count, diskAt>>
  BY DEF GuestWrite, PauseSnapshotFails, PauseTeardown, PausePersist, ghost
<1>2. StoreOK' /\ SavingOK'
  BY <1>1, StoreStutter
<1>3. CASE GuestWrite
  <2>1. PICK i \in Indices, c \in Contents \cup {0} :
           /\ disks[vm.path] # NoDisk
           /\ disks' = [disks EXCEPT ![vm.path][i] = c]
           /\ vm' = [vm EXCEPT !.view[i] = c]
    BY <1>3 DEF GuestWrite
  <2>2. vm.run = "running" /\ op # "save" /\ vm.path \in DiskPaths
        /\ UNCHANGED <<sess, files, record, op, reap, up>>
    BY <1>3 DEF GuestWrite
  <2>3. disks[vm.path] \in Disks
    BY <2>1, <2>2
  <2>4. disks' \in [DiskPaths -> Disks \cup {NoDisk}]
    BY <2>1, <2>2, <2>3 DEF Disks
  <2>5. DOMAIN vm' = DOMAIN vm /\ vm'.run = vm.run /\ vm'.path = vm.path
    BY <2>1
  <2>6. LocalOK'
    BY <1>1, <2>2, <2>4, <2>5 DEF ManifestKey, objects
  <2>7. QED
    BY <1>1, <1>2, <2>6 DEF Elsewhere
<1>4. CASE PauseSnapshotFails
  <2>1. LocalOK'
    BY <1>1, <1>4, CheckpointConstants DEF PauseSnapshotFails, ManifestKey, objects
  <2>2. QED
    BY <1>1, <1>2, <2>1 DEF Elsewhere
<1>5. CASE PauseTeardown
  <2>1. LocalOK'
    BY <1>1, <1>5 DEF PauseTeardown, NoVM, ManifestKey, objects, local
  <2>2. QED
    BY <1>1, <1>2, <2>1 DEF Elsewhere
<1>6. CASE PausePersist
  <2>1. op = "p_persist" /\ op' = "idle" /\ UNCHANGED <<up, sess, vm, files, disks, reap>>
        /\ (record' = record \/ record' = Listed(sess))
    BY <1>6 DEF PausePersist, PersistManifest
  <2>2. record' \in {NoRecord} \cup [disk : DiskPaths, ref : 0..MaxPauses]
    BY <2>1, ListedRecord
  <2>3. LocalOK'
    BY <1>1, <2>1, <2>2
  <2>4. QED
    BY <1>1, <1>2, <2>3 DEF Elsewhere
<1>7. QED
  BY <1>3, <1>4, <1>5, <1>6

\* Resume and hydration.
LEMMA ResumeLocal ==
    ASSUME RInv,
           \/ ResumeStart \/ HydrateFetch \/ HydrateRename \/ HydrateFails \/ HydrateCommit
           \/ Load \/ ResumeSetup \/ ResumeConsume \/ ResumePersist
    PROVE  RInv' /\ Elsewhere
<1> USE ZeroFiles DEF RInv, LocalOK, LocalTypes, SessType, SavedFiles, Hydrating
<1>1. UNCHANGED <<objects, save, count, diskAt>>
  BY DEF ResumeStart, HydrateFetch, HydrateRename, HydrateFails, HydrateCommit,
         Load, ResumeSetup, ResumeConsume, ResumePersist, ghost
<1>2. StoreOK' /\ SavingOK'
  BY <1>1, StoreStutter
<1>0. UNCHANGED <<manifests, latest>>
  BY <1>1 DEF objects
<1>3. latest \in 0..MaxPauses /\ ManifestKey(sess.ref) \in 0..MaxPauses
  BY DEF StoreOK, CheckpointTypeOK, ManifestKey
<1>4. CASE ResumeStart
  BY <1>0, <1>1, <1>2, <1>4 DEF ResumeStart, local, Elsewhere
<1>5. CASE HydrateFetch
  <2>1. op' \in Hydrating => ManifestKey(sess.ref) \in Pauses /\ manifests[ManifestKey(sess.ref)] # NoManifest
    <3>1. op' \in Hydrating => Verified(ManifestKey(sess.ref))
      BY <1>5 DEF HydrateFetch
    <3>2. QED
      BY <1>3, <3>1, PauseNumbers DEF Verified
  <2>2. op' \in {"h_snap", "idle"} /\ op = "hydrate" /\ UNCHANGED <<up, sess, vm, local, reap>>
    BY <1>5 DEF HydrateFetch
  <2>3. LocalOK'
    BY <1>0, <1>1, <2>1, <2>2 DEF local, ManifestKey
  <2>4. QED
    BY <1>1, <1>2, <2>3 DEF Elsewhere
<1>6. CASE HydrateRename
  <2> DEFINE m == manifests[ManifestKey(sess.ref)]
  <2>1. op \in {"h_snap", "h_mem", "h_disk"} /\ op' \in {"h_mem", "h_disk", "h_commit"}
        /\ UNCHANGED <<up, sess, vm, record, reap>>
    BY <1>6 DEF HydrateRename
  <2>2. m \in [vmstate : Pauses, memory : Pauses, disk : Disks]
    BY <2>1 DEF StoreOK, CheckpointTypeOK
  <2>3. m.vmstate \in 0..MaxPauses /\ m.memory \in 0..MaxPauses /\ m.disk \in Disks
    BY <2>2, PauseNumbers
  <2>4. \/ files' = [files EXCEPT !.snap = m.vmstate] /\ UNCHANGED disks
        \/ files' = [files EXCEPT !.mem = m.memory] /\ UNCHANGED disks
        \/ UNCHANGED files /\ disks' = [disks EXCEPT !["hydrated"] = m.disk]
    BY <1>6 DEF HydrateRename
  <2> HIDE DEF m
  <2>5. files' \in [snap : 0..MaxPauses, mem : 0..MaxPauses] /\ disks' \in [DiskPaths -> Disks \cup {NoDisk}]
    BY <2>3, <2>4
  <2>6. LocalOK'
    BY <1>0, <1>1, <2>1, <2>5 DEF ManifestKey
  <2>7. QED
    BY <1>1, <1>2, <2>6 DEF Elsewhere
<1>7. CASE HydrateFails
  <2>1. op \in Hydrating /\ op' = "idle" /\ UNCHANGED <<save, up, sess, vm, record, reap>>
    BY <1>7 DEF HydrateFails
  <2>2. files' \in [snap : 0..MaxPauses, mem : 0..MaxPauses] /\ disks' \in [DiskPaths -> Disks \cup {NoDisk}]
    BY <1>7 DEF HydrateFails
  <2>3. LocalOK'
    BY <2>1, <2>2
  <2>4. QED
    BY <1>1, <1>2, <2>3 DEF Elsewhere
<1>8. CASE HydrateCommit
  <2>1. op = "h_commit" /\ op' = "load" /\ UNCHANGED <<save, up, vm, files, disks, reap>>
        /\ sess' = [sess EXCEPT !.paths = TRUE, !.disk = "hydrated", !.ref = ManifestKey(sess.ref)]
    BY <1>8 DEF HydrateCommit
  <2>2. sess' \in SessType
        /\ sess'.disk \in DiskPaths /\ sess'.state = sess.state /\ sess'.stored = sess.stored
    BY <1>3, <2>1 DEF DiskPaths
  <2>3. record' = record \/ record' = Listed(sess')
    BY <1>8 DEF HydrateCommit
  <2>4. record' \in {NoRecord} \cup [disk : DiskPaths, ref : 0..MaxPauses]
    <3>1. Listed(sess') \in {NoRecord} \cup [disk : DiskPaths, ref : 0..MaxPauses]
      BY <2>2, ListedRecord
    <3>2. QED
      BY <2>3, <3>1
  <2>5. LocalOK'
    BY <2>1, <2>2, <2>4
  <2>6. QED
    BY <1>1, <1>2, <2>5 DEF Elsewhere
<1>9. CASE Load
  <2>1. op = "load" /\ op' \in {"setup", "idle"} /\ UNCHANGED <<up, sess, files, disks, record, reap>>
    BY <1>9 DEF Load, local
  <2>2. {"run", "path"} \subseteq DOMAIN vm' /\ (vm'.run # "none" => vm'.path \in DiskPaths)
    <3>1. CASE UNCHANGED vm
      BY <3>1
    <3>2. CASE HasFiles(sess.paths, sess.disk) /\ ~UNCHANGED vm
      <4>1. vm' = [run |-> "running", snap |-> files.snap, mem |-> files.mem, view |-> diskAt[files.mem],
                   path |-> sess.disk, clean |-> sess.disk \notin dirty /\ ~stale]
        BY <1>9, <3>2 DEF Load
      <4>2. QED
        BY <3>2, <4>1 DEF HasFiles
    <3>3. QED
      BY <1>9, <3>1, <3>2 DEF Load
  <2>3. LocalOK'
    BY <1>1, <2>1, <2>2
  <2>4. QED
    BY <1>1, <1>2, <2>3 DEF Elsewhere
<1>10. CASE ResumeSetup
  <2>1. LocalOK'
    BY <1>0, <1>1, <1>10 DEF ResumeSetup, NoVM
  <2>2. QED
    BY <1>1, <1>2, <2>1 DEF Elsewhere
<1>11. CASE ResumeConsume
  <2>1. op = "consume" /\ op' = "r_persist" /\ UNCHANGED <<save, up, vm, disks, record, reap>>
        /\ sess' = [sess EXCEPT !.paths = FALSE] /\ files' = [files EXCEPT !.mem = 0]
    BY <1>11 DEF ResumeConsume
  <2>2. files' \in [snap : 0..MaxPauses, mem : 0..MaxPauses]
    BY <2>1
  <2>3. sess' \in SessType
        /\ sess'.stored = sess.stored /\ sess'.state = sess.state /\ sess'.disk = sess.disk
    BY <2>1
  <2>4. LocalOK'
    BY <2>1, <2>2, <2>3
  <2>5. QED
    BY <1>1, <1>2, <2>4 DEF Elsewhere
<1>12. CASE ResumePersist
  <2>1. op = "r_persist" /\ op' = "idle" /\ UNCHANGED <<up, sess, vm, files, disks, reap>>
        /\ (record' = record \/ record' = Listed(sess))
    BY <1>12 DEF ResumePersist, PersistManifest
  <2>2. record' \in {NoRecord} \cup [disk : DiskPaths, ref : 0..MaxPauses]
    BY <2>1, ListedRecord
  <2>3. LocalOK'
    BY <1>1, <2>1, <2>2
  <2>4. QED
    BY <1>1, <1>2, <2>3 DEF Elsewhere
<1>13. QED
  BY <1>4, <1>5, <1>6, <1>7, <1>8, <1>9, <1>10, <1>11, <1>12

\* Destroy, crash and restart.
LEMMA FaultLocal ==
    ASSUME RInv, DestroyStart \/ DestroyFiles \/ DestroyPersist \/ Crash \/ LoseFile \/ Restart
    PROVE  RInv' /\ Elsewhere
<1> USE ZeroFiles DEF RInv, LocalOK, LocalTypes, SessType, SavedFiles, Hydrating
<1>0. Elsewhere /\ UNCHANGED <<manifests, latest, count, diskAt>>
  BY DEF DestroyStart, DestroyFiles, DestroyPersist, Crash, LoseFile, Restart, ghost, Elsewhere, objects
<1>1. CASE Crash
  <2>1. save' = IdleSave
    BY <1>1 DEF Crash
  <2>2. IdleSave.pc = "idle" /\ IdleSave \in SaveType
    BY IdleSaveType
  <2>3. StoreOK' /\ SavingOK'
    <3>1. UNCHANGED <<vmstate, memory, chunks, manifests, latest, count, diskAt>>
      BY <1>0 DEF Elsewhere, objects
    <3>2. CheckpointTypeOK'
      BY <2>1, <2>2, <3>1 DEF StoreOK, CheckpointTypeOK, SaveType
    <3>3. QED
      BY <2>1, <2>2, <3>1, <3>2 DEF StoreOK, SavingOK, Stored
  <2>4. LocalOK'
    BY <1>0, <1>1, <2>1, <2>2 DEF Crash, NoSess, NoVM, local
  <2>5. QED
    BY <1>0, <2>3, <2>4
<1>2. ASSUME UNCHANGED save PROVE StoreOK' /\ SavingOK'
  BY <1>0, <1>2, StoreStutter DEF Elsewhere
<1>3. CASE DestroyStart
  <2>1. /\ sess' = [sess EXCEPT !.stored = FALSE]
        /\ UNCHANGED <<save, up, files, record, op>>
        /\ \/ sess.state = "paused" /\ UNCHANGED <<vm, disks>>
           \/ reap' = "done" /\ vm' = NoVM
    BY <1>3 DEF DestroyStart
  <2>2. \A p \in DiskPaths : disks'[p] = disks[p] \/ disks'[p] = NoDisk
    BY <1>3 DEF DestroyStart
  <2>3. disks' \in [DiskPaths -> Disks \cup {NoDisk}]
    BY <1>3 DEF DestroyStart
  <2>4. LocalTypes' /\ (vm'.run # "none" => vm'.path \in DiskPaths) /\ ~sess'.stored
    <3>1. sess' \in SessType /\ sess'.stored = FALSE
      BY <2>1
    <3>2. vm' = vm \/ vm' = NoVM
      BY <2>1
    <3>3. {"run", "path"} \subseteq DOMAIN vm' /\ (vm'.run # "none" => vm'.path \in DiskPaths)
      <4>1. CASE vm' = vm
        BY <4>1
      <4>2. CASE vm' = NoVM
        BY <4>2 DEF NoVM
      <4>3. QED
        BY <3>2, <4>1, <4>2
    <3>4. QED
      BY <2>1, <2>3, <3>1, <3>3
  <2>5. op = "save" => SavedFiles'
    BY <1>0, <2>1, <2>2 DEF NoVM
  <2>6. sess'.state = sess.state /\ sess'.disk = sess.disk /\ sess'.ref = sess.ref
    BY <2>1
  <2>7. LocalOK'
    BY <1>0, <2>1, <2>4, <2>5, <2>6 DEF ManifestKey
  <2>8. QED
    BY <1>0, <1>2, <2>1, <2>7
<1>4. CASE DestroyFiles
  <2>1. LocalOK'
    BY <1>0, <1>4 DEF DestroyFiles, session, ManifestKey
  <2>2. QED
    BY <1>0, <1>2, <1>4, <2>1 DEF DestroyFiles
<1>5. CASE DestroyPersist
  <2>1. reap' = "done" /\ UNCHANGED <<save, up, sess, vm, op, files, disks>>
        /\ (record' = record \/ record' = Listed(sess))
    BY <1>5 DEF DestroyPersist, PersistManifest, session
  <2>2. record' \in {NoRecord} \cup [disk : DiskPaths, ref : 0..MaxPauses]
    BY <2>1, ListedRecord
  <2>3. LocalOK'
    BY <1>0, <2>1, <2>2 DEF ManifestKey
  <2>4. QED
    BY <1>0, <1>2, <2>1, <2>3
<1>6. CASE LoseFile
  <2>1. LocalOK'
    BY <1>0, <1>6 DEF LoseFile, session, ManifestKey
  <2>2. QED
    BY <1>0, <1>2, <1>6, <2>1 DEF LoseFile
<1>7. CASE Restart
  <2>1. PICK readable \in BOOLEAN :
          LET s == IF readable THEN Recovered(record) ELSE NoSess
          IN  /\ sess' = s
              /\ disks' = [p \in DiskPaths |-> IF s.stored /\ p = s.disk THEN disks[p] ELSE NoDisk]
              /\ files' = IF s.stored THEN files ELSE [snap |-> 0, mem |-> 0]
              /\ IF s.stored THEN record' \in {Listed(s), record} ELSE UNCHANGED record
              /\ reap' = IF s.stored THEN "idle" ELSE reap
    BY <1>7 DEF Restart
  <2>2. \/ sess' = NoSess
        \/ record # NoRecord /\ sess' = [stored |-> TRUE, state |-> "paused", paths |-> TRUE,
                                         disk |-> record.disk, ref |-> record.ref]
    BY <2>1 DEF Recovered
  <2>3. op = "idle" /\ UNCHANGED <<save, op, vm>> /\ up'
    BY <1>7 DEF Restart
  <2>4. /\ sess' \in SessType
        /\ sess'.state # "none" => sess'.disk \in DiskPaths
    <3>1. CASE sess' = NoSess
      BY <3>1 DEF NoSess
    <3>2. CASE record # NoRecord /\ sess' = [stored |-> TRUE, state |-> "paused", paths |-> TRUE,
                                            disk |-> record.disk, ref |-> record.ref]
      <4>1. record.disk \in DiskPaths /\ record.ref \in 0..MaxPauses
        BY <3>2
      <4>2. QED
        BY <3>2, <4>1
    <3>3. QED
      BY <2>2, <3>1, <3>2
  <2>5. /\ files' = files \/ files' = [snap |-> 0, mem |-> 0]
        /\ record' = record \/ record' = Listed(sess')
        /\ disks' = [p \in DiskPaths |-> IF sess'.stored /\ p = sess'.disk THEN disks[p] ELSE NoDisk]
        /\ reap' = IF sess'.stored THEN "idle" ELSE reap
    BY <2>1
  <2>6. LocalTypes'
    <3>1. record' \in {NoRecord} \cup [disk : DiskPaths, ref : 0..MaxPauses]
      <4>1. Listed(sess') \in {NoRecord} \cup [disk : DiskPaths, ref : 0..MaxPauses]
        BY <2>4, ListedRecord
      <4>2. QED
        BY <2>5, <4>1
    <3>2. disks' \in [DiskPaths -> Disks \cup {NoDisk}]
      BY <2>5
    <3>3. QED
      BY <2>3, <2>4, <2>5, <3>1, <3>2
  <2>7. LocalOK'
    BY <2>3, <2>4, <2>5, <2>6
  <2>8. QED
    BY <1>0, <1>2, <2>3, <2>7
<1>8. QED
  BY <1>1, <1>3, <1>4, <1>5, <1>6, <1>7

\* The snapshot opens a generation above every one there is.
LEMMA SnapshotStep ==
    ASSUME RInv, PauseSnapshot
    PROVE  RInv' /\ FrozenImage' # NoManifest /\ UNCHANGED objects
<1> USE ZeroFiles DEF RInv
<1>1. count \in 0..MaxPauses /\ count' = count + 1 /\ count' \in Pauses /\ count' \in 0..MaxPauses
  BY CheckpointConstants DEF PauseSnapshot, StoreOK, Pauses
<1>2. vm.path \in DiskPaths /\ disks[vm.path] \in Disks \cup {NoDisk}
  BY DEF PauseSnapshot, LocalOK, LocalTypes, SessType
<1>3. /\ diskAt' = [diskAt EXCEPT ![count'] = disks[vm.path]]
      /\ files' = [snap |-> count', mem |-> count']
      /\ sess' = [sess EXCEPT !.disk = vm.path] /\ vm' = [vm EXCEPT !.run = "frozen"]
      /\ UNCHANGED <<objects, up, disks, record, reap>>
      /\ up /\ op = "idle" /\ sess.stored /\ sess.state = "active"
      /\ \/ op' = "save" /\ save' = [IdleSave EXCEPT !.pc = "vmstate", !.g = count']
         \/ op' = "teardown" /\ UNCHANGED save
  BY <1>1 DEF PauseSnapshot
<1>4. diskAt' \in [Pauses -> Disks \cup {NoDisk}] /\ diskAt'[count'] = disks[vm.path]
  BY <1>1, <1>2, <1>3 DEF StoreOK
<1>5. save.pc = "idle" /\ save \in SaveType
  BY <1>3 DEF LocalOK, StoreOK, CheckpointTypeOK, SaveType
<1>6. save' \in SaveType /\ (op' = "save" => save'.pc = "vmstate" /\ save'.g = count')
      /\ (op' # "save" => save'.pc = "idle")
  <2>1. CASE op' = "save" /\ save' = [IdleSave EXCEPT !.pc = "vmstate", !.g = count']
    BY <1>1, <2>1, IdleSaveType DEF SaveType
  <2>2. CASE op' = "teardown" /\ UNCHANGED save
    BY <1>5, <2>2
  <2>3. QED
    BY <1>3, <2>1, <2>2
<1>7. \A g \in Pauses : g <= count => g <= count' /\ g # count'
  BY <1>1 DEF Pauses
<1>8. latest <= count' /\ latest < count'
  BY <1>1 DEF StoreOK, CheckpointTypeOK
<1>9. manifests[count'] = NoManifest
  BY <1>1, <1>7 DEF StoreOK
<1>10. UNCHANGED <<vmstate, memory, chunks, manifests, latest>>
  BY <1>3 DEF objects
<1>11. StoreOK'
  <2>1. CheckpointTypeOK'
    BY <1>6, <1>10 DEF StoreOK, CheckpointTypeOK, SaveType
  <2>2. \A g \in Pauses : manifests[g] # NoManifest =>
           g <= count' /\ \A i \in Indices : manifests[g].disk[i] \in Stored
    BY <1>7 DEF StoreOK
  <2>3. QED
    BY <1>1, <1>4, <1>8, <1>10, <2>1, <2>2 DEF StoreOK, Stored
<1>12. SavingOK'
  <2>1. save'.pc # "idle" => save'.pc = "vmstate" /\ save'.g = count'
    BY <1>3, <1>6
  <2>2. QED
    BY <1>1, <1>8, <1>9, <1>10, <2>1 DEF SavingOK
<1>13. LocalOK'
  <2>1. LocalTypes'
    BY <1>1, <1>2, <1>3 DEF LocalOK, LocalTypes, SessType
  <2>2. sess'.disk = vm.path /\ sess'.state = "active" /\ sess'.stored = sess.stored
    BY <1>3 DEF LocalOK, LocalTypes, SessType
  <2>3. vm'.run = "frozen" /\ vm'.path = vm.path
    BY <1>3 DEF LocalOK, LocalTypes, SessType
  <2>4. reap' # "files"
    BY <1>3 DEF LocalOK
  <2>5. SavedFiles'
    BY <1>3, <1>4, <2>2, <2>3, <2>4 DEF SavedFiles
  <2>6. QED
    BY <1>2, <1>3, <1>6, <2>1, <2>2, <2>3, <2>4, <2>5 DEF LocalOK, Hydrating
<1>14. FrozenImage' # NoManifest
  <2>1. FrozenImage' = [vmstate |-> count', memory |-> count', disk |-> diskAt'[count']]
    BY <1>1 DEF FrozenImage, Pauses
  <2>2. FrozenImage' \in [vmstate : 0..MaxPauses, memory : 0..MaxPauses, disk : Disks \cup {NoDisk}]
    BY <1>1, <1>2, <1>4, <2>1
  <2>3. QED
    BY <2>2, RecoveryConstants
<1>15. QED
  BY <1>3, <1>11, <1>12, <1>13, <1>14

\* What follows the last upload.
LEMMA SaveEnds ==
    ASSUME RInv, PauseSaveGone \/ PauseSaved \/ Rollback
    PROVE  RInv' /\ Elsewhere
<1> USE ZeroFiles DEF RInv
<1>1. op = "save" /\ save.pc # "idle" /\ save \in SaveType
      /\ UNCHANGED <<objects, up, disks, record, reap, count, diskAt>>
  BY DEF PauseSaveGone, PauseSaved, Rollback, LocalOK, StoreOK, CheckpointTypeOK, SaveType, local, ghost
<1>2. UNCHANGED <<vmstate, memory, chunks, manifests, latest>> /\ Elsewhere
  BY <1>1 DEF objects, Elsewhere
<1>3. ASSUME save' \in SaveType PROVE StoreOK'
  BY <1>1, <1>2, <1>3 DEF StoreOK, CheckpointTypeOK, SaveType, Stored
<1>4. CASE PauseSaveGone
  <2>1. save' = [save EXCEPT !.pc = "failed"] /\ UNCHANGED <<sess, vm, op, files>>
    BY <1>4 DEF PauseSaveGone, Then, session, local
  <2>2. save' \in SaveType /\ save'.pc = "failed" /\ save'.g = save.g
    BY <1>1, <2>1 DEF SaveType
  <2>3. SavingOK'
    BY <1>1, <1>2, <2>2 DEF SavingOK, Uploading
  <2>4. LocalOK'
    BY <1>1, <1>2, <2>1, <2>2 DEF LocalOK, LocalTypes, SessType, SavedFiles, Hydrating
  <2>5. QED
    BY <1>2, <1>3, <2>2, <2>3, <2>4
<1>5. CASE PauseSaved \/ Rollback
  <2>1. save' = IdleSave /\ save' \in SaveType /\ save'.pc = "idle"
    BY <1>5, IdleSaveType DEF PauseSaved, Rollback
  <2>2. op' = "teardown" \/ op' = "idle"
    BY <1>5 DEF PauseSaved, Rollback
  <2>3. SavingOK'
    BY <2>1 DEF SavingOK
  <2>4. /\ sess' \in SessType
        /\ sess'.state = sess.state /\ sess'.stored = sess.stored /\ sess'.disk = sess.disk
    <3>1. sess' = sess \/ sess' = [sess EXCEPT !.ref = save.g]
      BY <1>5 DEF PauseSaved, Rollback
    <3>2. save.g \in 0..MaxPauses
      BY <1>1 DEF SaveType
    <3>3. QED
      BY <3>1, <3>2 DEF LocalOK, LocalTypes, SessType
  <2>5. files' = files \/ files' = [snap |-> 0, mem |-> 0]
    BY <1>5 DEF PauseSaved, Rollback, local
  <2>6. vm' = vm \/ (vm.run = "frozen" /\ vm' = [vm EXCEPT !.run = "running"])
    BY <1>5 DEF PauseSaved, Rollback
  <2>7. {"run", "path"} \subseteq DOMAIN vm' /\ (vm'.run # "none" => vm'.path \in DiskPaths)
    BY <2>6 DEF LocalOK, LocalTypes, SessType
  <2>8. LocalOK'
    BY <1>1, <2>1, <2>2, <2>4, <2>5, <2>7 DEF LocalOK, LocalTypes, SessType, Hydrating
  <2>9. QED
    BY <1>2, <1>3, <2>1, <2>3, <2>8
<1>6. QED
  BY <1>4, <1>5

\* An image does not change when uploads only add chunks or touch a generation
\* without a manifest.
LEMMA ImageStays ==
    ASSUME StoreOK, NEW g \in Pauses, manifests'[g] = manifests[g], chunks \subseteq chunks',
           manifests[g] # NoManifest => vmstate'[g] = vmstate[g] /\ memory'[g] = memory[g]
    PROVE  StoredImage(g)' = StoredImage(g)
<1>1. CASE manifests[g] = NoManifest
  BY <1>1 DEF StoredImage
<1>2. CASE manifests[g] # NoManifest
  <2>1. \A i \in Indices : manifests[g].disk[i] \in chunks \cup {0} /\ manifests[g].disk[i] \in chunks' \cup {0}
    BY <1>2 DEF StoreOK, Stored
  <2>2. QED
    BY <1>2, <2>1 DEF StoredImage
<1>3. QED
  BY <1>1, <1>2

\* A generation with a manifest is a whole image.
LEMMA ImageIsWhole ==
    ASSUME StoreOK, NEW g \in Pauses, manifests[g] # NoManifest
    PROVE  StoredImage(g) = [vmstate |-> vmstate[g], memory |-> memory[g], disk |-> manifests[g].disk]
           /\ StoredImage(g) # NoManifest
<1>1. manifests[g] \in [vmstate : Pauses, memory : Pauses, disk : Disks]
  BY DEF StoreOK, CheckpointTypeOK
<1>2. manifests[g].disk \in Disks
  BY <1>1
<1>3. \A i \in Indices : manifests[g].disk[i] \in chunks \cup {0}
  BY DEF StoreOK, Stored
<1>4. [i \in Indices |-> IF manifests[g].disk[i] \in chunks \cup {0}
                        THEN manifests[g].disk[i] ELSE NoDisk] = manifests[g].disk
  BY <1>2, <1>3 DEF Disks
<1>5. StoredImage(g) = [vmstate |-> vmstate[g], memory |-> memory[g], disk |-> manifests[g].disk]
  BY <1>4 DEF StoredImage
<1>6. StoredImage(g) \in [vmstate : 0..MaxPauses, memory : 0..MaxPauses, disk : Disks \cup {NoDisk}]
  BY <1>2, <1>5 DEF StoreOK, CheckpointTypeOK
<1>7. QED
  BY <1>5, <1>6, RecoveryConstants

\* The step of the checkpoint store that a step of the objects amounts to.
AbsCommit(g) ==
    /\ StoredImage(g) = NoManifest /\ StoredImage(g)' = FrozenImage
    /\ \A h \in Pauses \ {g} : StoredImage(h)' = StoredImage(h)
    /\ UNCHANGED <<FrozenImage, latest>>
AbsActivate(g) ==
    /\ StoredImage(g) # NoManifest /\ g > latest /\ latest' = g
    /\ UNCHANGED FrozenImage /\ \A h \in Pauses : StoredImage(h)' = StoredImage(h)
AbsStutter ==
    UNCHANGED <<FrozenImage, latest>> /\ \A h \in Pauses : StoredImage(h)' = StoredImage(h)

\* What every step of Save starts from.
SaveContext ==
    /\ save \in SaveType /\ save.g = count /\ count \in Pauses /\ count \in 0..MaxPauses
    /\ save.pc # "idle" /\ files.snap = count /\ files.mem = count
    /\ disks[sess.disk] = diskAt[count] /\ diskAt[count] \in Disks
    /\ UNCHANGED <<FrozenImage, count, diskAt>>

\* PauseSave reads the files and the disk of the latest freeze.
LEMMA SaveContextHolds == ASSUME RInv, PauseSave PROVE SaveContext
<1> USE DEF RInv
<1>1. op = "save" /\ save.pc # "idle" /\ SavedFiles /\ sess.state = "active" /\ sess.disk \in DiskPaths
  BY DEF PauseSave, LocalOK, SavedFiles
<1>2. save \in SaveType /\ save.g = count /\ count \in Pauses /\ count \in 0..MaxPauses
  BY <1>1 DEF StoreOK, SavingOK, CheckpointTypeOK, SaveType
<1>3. disks[sess.disk] = diskAt[count] /\ diskAt[count] \in Disks
  BY <1>1, <1>2 DEF PauseSave, SavedFiles, StoreOK
<1>4. UNCHANGED <<count, diskAt>>
  BY DEF PauseSave, ghost
<1>5. files.snap = count /\ files.mem = count
  BY <1>1 DEF SavedFiles
<1>6. UNCHANGED FrozenImage
  BY <1>4 DEF FrozenImage
<1>7. QED
  BY <1>1, <1>2, <1>3, <1>4, <1>5, <1>6 DEF SaveContext

\* The VM state goes to a generation without a manifest.
LEMMA PutVMStateStep ==
    ASSUME StoreOK, SavingOK, SaveContext, PutVMState(count)
    PROVE  StoreOK' /\ SavingOK' /\ save'.pc # "idle" /\ AbsStutter
<1> USE DEF SaveContext
<1>1. save.pc = "vmstate" /\ UNCHANGED <<memory, chunks, manifests, latest>>
      /\ manifests[count] = NoManifest /\ latest < count
  BY DEF PutVMState, SavingOK, Uploading
<1>2. \/ vmstate' = [vmstate EXCEPT ![count] = count] /\ save' = [save EXCEPT !.pc = "memory"]
      \/ (vmstate' = [vmstate EXCEPT ![count] = count] \/ vmstate' = vmstate) /\ save' = [save EXCEPT !.pc = "failed"]
  BY DEF PutVMState, Then
<1>3. vmstate' \in [Pauses -> 0..MaxPauses] /\ \A g \in Pauses \ {count} : vmstate'[g] = vmstate[g]
  BY <1>2 DEF StoreOK, CheckpointTypeOK
<1>4. save' \in SaveType /\ save'.g = count /\ save'.pc \in {"memory", "failed"}
      /\ (save'.pc = "memory" => vmstate'[count] = count)
  BY <1>2 DEF StoreOK, CheckpointTypeOK, SaveType
<1>5. StoreOK'
  BY <1>1, <1>3, <1>4 DEF StoreOK, CheckpointTypeOK, SaveType, Stored
<1>6. SavingOK'
  BY <1>1, <1>4 DEF SavingOK, Uploading
<1>7. \A h \in Pauses : StoredImage(h)' = StoredImage(h)
  BY <1>1, <1>3, ImageStays
<1>8. QED
  BY <1>1, <1>4, <1>5, <1>6, <1>7 DEF AbsStutter

\* So does the memory.
LEMMA PutMemoryStep ==
    ASSUME StoreOK, SavingOK, SaveContext, PutMemory(count)
    PROVE  StoreOK' /\ SavingOK' /\ save'.pc # "idle" /\ AbsStutter
<1> USE DEF SaveContext
<1>1. save.pc = "memory" /\ UNCHANGED <<vmstate, chunks, manifests, latest>>
      /\ manifests[count] = NoManifest /\ latest < count /\ vmstate[count] = count
  BY DEF PutMemory, SavingOK, Uploading
<1>2. \/ memory' = [memory EXCEPT ![count] = count] /\ save' = [save EXCEPT !.pc = "list"]
      \/ (memory' = [memory EXCEPT ![count] = count] \/ memory' = memory) /\ save' = [save EXCEPT !.pc = "failed"]
  BY DEF PutMemory, Then
<1>3. memory' \in [Pauses -> 0..MaxPauses] /\ \A g \in Pauses \ {count} : memory'[g] = memory[g]
  BY <1>2 DEF StoreOK, CheckpointTypeOK
<1>4. save' \in SaveType /\ save'.g = count /\ save'.pc \in {"list", "failed"}
      /\ (save'.pc = "list" => memory'[count] = count)
  BY <1>2 DEF StoreOK, CheckpointTypeOK, SaveType
<1>5. StoreOK'
  BY <1>1, <1>3, <1>4 DEF StoreOK, CheckpointTypeOK, SaveType, Stored
<1>6. SavingOK'
  BY <1>1, <1>4 DEF SavingOK, Uploading
<1>7. \A h \in Pauses : StoredImage(h)' = StoredImage(h)
  BY <1>1, <1>3, ImageStays
<1>8. QED
  BY <1>1, <1>4, <1>5, <1>6, <1>7 DEF AbsStutter

\* The chunks Save may reuse are listed by a manifest, hence stored.
LEMMA PreviousChunksStep ==
    ASSUME StoreOK, SavingOK, SaveContext, PreviousChunks
    PROVE  StoreOK' /\ SavingOK' /\ save'.pc # "idle" /\ AbsStutter
<1> USE DEF SaveContext
<1>1. save.pc = "list" /\ UNCHANGED <<vmstate, memory, chunks, manifests, latest>>
      /\ manifests[count] = NoManifest /\ latest < count /\ vmstate[count] = count /\ memory[count] = count
  BY DEF PreviousChunks, SavingOK, Uploading, objects
<1>2. PICK p : /\ save' = [save EXCEPT !.pc = "disk", !.todo = Indices, !.previous = p]
               /\ p = [i \in Indices |-> 0] \/ (latest # 0 /\ manifests[latest] # NoManifest /\ p = manifests[latest].disk)
  BY DEF PreviousChunks
<1>3. p \in Disks /\ \A i \in Indices : p[i] \in Stored
  <2>1. CASE p = [i \in Indices |-> 0]
    BY <2>1 DEF Disks, Stored
  <2>2. CASE latest # 0 /\ manifests[latest] # NoManifest /\ p = manifests[latest].disk
    <3>1. latest \in Pauses
      BY <2>2, PauseNumbers DEF StoreOK, CheckpointTypeOK
    <3>2. manifests[latest] \in [vmstate : Pauses, memory : Pauses, disk : Disks]
      BY <2>2, <3>1 DEF StoreOK, CheckpointTypeOK
    <3>3. QED
      BY <2>2, <3>1, <3>2 DEF StoreOK
  <2>3. QED
    BY <1>2, <2>1, <2>2
<1>4. save' \in SaveType /\ save'.g = count /\ save'.pc = "disk" /\ save'.todo = Indices /\ save'.previous = p
  BY <1>2, <1>3 DEF SaveType
<1>5. StoreOK'
  BY <1>1, <1>4 DEF StoreOK, CheckpointTypeOK, SaveType, Stored
<1>6. SavingOK'
  BY <1>1, <1>3, <1>4 DEF SavingOK, Uploading, Stored
<1>7. \A h \in Pauses : StoredImage(h)' = StoredImage(h)
  BY <1>1, ImageStays
<1>8. QED
  BY <1>1, <1>4, <1>5, <1>6, <1>7 DEF AbsStutter

\* A visited chunk is the frozen disk's, and is stored.
LEMMA PutChunkStep ==
    ASSUME StoreOK, SavingOK, SaveContext, NEW i \in Indices, PutChunk(diskAt[count], i)
    PROVE  StoreOK' /\ SavingOK' /\ save'.pc # "idle" /\ AbsStutter
<1> USE DEF SaveContext
<1> DEFINE c == diskAt[count][i]
           done == [save EXCEPT !.todo = @ \ {i}, !.disk[i] = c]
<1>1. save.pc = "disk" /\ UNCHANGED <<vmstate, memory, manifests, latest>>
      /\ manifests[count] = NoManifest /\ latest < count /\ vmstate[count] = count /\ memory[count] = count
      /\ \A j \in Indices :
            /\ save.previous[j] \in Stored
            /\ j \notin save.todo => save.disk[j] = diskAt[count][j] /\ save.disk[j] \in Stored
  BY DEF PutChunk, SavingOK, Uploading
<1>2. c \in Contents \cup {0}
  BY DEF Disks
<1>3. \/ save' = done /\ chunks' = chunks \cup (IF c = 0 \/ (c # 0 /\ save.previous[i] = c) THEN {} ELSE {c})
      \/ save' = [save EXCEPT !.pc = "failed"] /\ (chunks' = chunks \/ (c # 0 /\ chunks' = chunks \cup {c}))
  BY DEF PutChunk, Then
<1>4. chunks \subseteq chunks' /\ chunks' \subseteq Contents
  BY <1>2, <1>3 DEF StoreOK, CheckpointTypeOK
<1>5. save' = done => c \in chunks' \cup {0}
  BY <1>1, <1>3 DEF Stored, SaveType
<1> HIDE DEF c
<1>6. save.disk \in Disks /\ [save.disk EXCEPT ![i] = c] \in Disks
  BY <1>2 DEF SaveType, Disks
<1>7. /\ save' \in SaveType /\ save'.g = count
      /\ \/ save'.pc = "failed"
         \/ /\ save'.pc = "disk" /\ save'.previous = save.previous /\ save'.todo = save.todo \ {i}
            /\ save'.disk = [save.disk EXCEPT ![i] = c] /\ c \in chunks' \cup {0}
  <2>1. CASE save' = done
    <3>1. DOMAIN save = {"pc", "g", "disk", "todo", "previous"} /\ save.todo \ {i} \in SUBSET Indices
      BY DEF SaveType
    <3>2. save' = [pc |-> save.pc, g |-> save.g, disk |-> [save.disk EXCEPT ![i] = c],
                   todo |-> save.todo \ {i}, previous |-> save.previous]
      BY <2>1, <3>1 DEF SaveType
    <3>3. save.pc = "disk" /\ save.g \in 0..MaxPauses /\ save.previous \in Disks
      BY <1>1 DEF SaveType
    <3>4. save' \in SaveType
      BY <1>6, <3>1, <3>2, <3>3 DEF SaveType
    <3>5. QED
      BY <1>5, <2>1, <3>2, <3>3, <3>4
  <2>2. CASE save' = [save EXCEPT !.pc = "failed"]
    BY <2>2 DEF SaveType
  <2>3. QED
    BY <1>3, <2>1, <2>2
<1>8. StoreOK'
  <2>1. \A g \in Pauses : manifests[g] # NoManifest =>
           g <= count /\ \A j \in Indices : manifests[g].disk[j] \in chunks' \cup {0}
    BY <1>4 DEF StoreOK, Stored
  <2>2. CheckpointTypeOK'
    BY <1>1, <1>4, <1>7 DEF StoreOK, CheckpointTypeOK, SaveType
  <2>3. QED
    BY <1>1, <2>1, <2>2 DEF StoreOK, Stored
<1>9. SavingOK'
  <2>1. ASSUME save'.pc = "disk", NEW j \in Indices
        PROVE  /\ save'.previous[j] \in chunks' \cup {0}
               /\ j \notin save'.todo => save'.disk[j] = diskAt[count][j] /\ save'.disk[j] \in chunks' \cup {0}
    <3>1. save'.previous[j] \in chunks' \cup {0}
      BY <1>1, <1>4, <1>7, <2>1 DEF Stored
    <3>2. CASE j = i
      BY <1>6, <1>7, <2>1, <3>1, <3>2 DEF c, Disks
    <3>3. CASE j # i
      BY <1>1, <1>4, <1>6, <1>7, <2>1, <3>1, <3>3 DEF Disks, Stored
    <3>4. QED
      BY <3>2, <3>3
  <2>2. QED
    BY <1>1, <1>7, <2>1 DEF SavingOK, Uploading, Stored
<1>10. \A h \in Pauses : StoredImage(h)' = StoredImage(h)
  BY <1>1, <1>4, ImageStays
<1>11. QED
  BY <1>1, <1>7, <1>8, <1>9, <1>10 DEF AbsStutter

\* The manifest commits the frozen image, also when its Put reports an error.
LEMMA PutManifestStep ==
    ASSUME StoreOK, SavingOK, SaveContext, PutManifest(count, count)
    PROVE  StoreOK' /\ SavingOK' /\ save'.pc # "idle" /\ (AbsStutter \/ AbsCommit(count))
<1> USE DEF SaveContext
<1> DEFINE new == [vmstate |-> count, memory |-> count, disk |-> save.disk]
<1>1. save.pc = "disk" /\ save.todo = {} /\ UNCHANGED <<vmstate, memory, chunks, latest>>
      /\ manifests[count] = NoManifest /\ latest < count /\ vmstate[count] = count /\ memory[count] = count
      /\ \A j \in Indices : save.disk[j] = diskAt[count][j] /\ save.disk[j] \in Stored
  BY DEF PutManifest, SavingOK, Uploading
<1>2. save.disk = diskAt[count] /\ save.disk \in Disks
  <2>1. save.disk \in Disks /\ diskAt[count] \in Disks
    BY DEF SaveType
  <2>2. QED
    BY <1>1, <2>1, SameDisk
<1>3. \/ manifests' = [manifests EXCEPT ![count] = new] /\ save' = [save EXCEPT !.pc = "pointer"]
      \/ manifests' = [manifests EXCEPT ![count] = new] /\ save' = [save EXCEPT !.pc = "failed"]
      \/ manifests' = manifests /\ save' = [save EXCEPT !.pc = "failed"]
  BY DEF PutManifest, Then
<1>4. save' \in SaveType /\ save'.g = count /\ save'.pc \in {"pointer", "failed"}
      /\ (save'.pc = "pointer" => manifests' = [manifests EXCEPT ![count] = new])
  BY <1>3 DEF SaveType
<1>5. new \in [vmstate : Pauses, memory : Pauses, disk : Disks] /\ new # NoManifest
  <2>1. new \in [vmstate : Pauses, memory : Pauses, disk : Disks]
    BY <1>2
  <2>2. new \in [vmstate : 0..MaxPauses, memory : 0..MaxPauses, disk : Disks \cup {NoDisk}]
    BY <1>2
  <2>3. QED
    BY <2>1, <2>2, RecoveryConstants
<1>6. new.disk = save.disk
  OBVIOUS
<1> HIDE DEF new
<1>7. CASE manifests' = manifests
  <2>1. StoreOK'
    BY <1>1, <1>4, <1>7 DEF StoreOK, CheckpointTypeOK, SaveType, Stored
  <2>2. save'.pc = "failed"
    BY <1>1, <1>4, <1>5, <1>7 DEF StoreOK, CheckpointTypeOK
  <2>3. SavingOK'
    BY <1>4, <2>2 DEF SavingOK, Uploading
  <2>4. \A h \in Pauses : StoredImage(h)' = StoredImage(h)
    BY <1>1, <1>7, ImageStays
  <2>5. QED
    BY <1>1, <2>1, <2>2, <2>3, <2>4 DEF AbsStutter
<1>8. CASE manifests' = [manifests EXCEPT ![count] = new]
  <2>1. manifests'[count] = new /\ (\A h \in Pauses \ {count} : manifests'[h] = manifests[h])
        /\ manifests' \in [Pauses -> {NoManifest} \cup [vmstate : Pauses, memory : Pauses, disk : Disks]]
    BY <1>5, <1>8 DEF StoreOK, CheckpointTypeOK
  <2>2. StoreOK'
    <3>1. CheckpointTypeOK'
      BY <1>1, <1>4, <2>1 DEF StoreOK, CheckpointTypeOK, SaveType
    <3>2. ASSUME NEW g \in Pauses, manifests'[g] # NoManifest
          PROVE  g <= count /\ \A j \in Indices : manifests'[g].disk[j] \in Stored
      <4>1. CASE g = count
        <5>1. manifests'[g].disk = save.disk
          BY <1>6, <2>1, <4>1
        <5>2. g <= count
          BY <4>1, PauseNumbers
        <5>3. QED
          BY <1>1, <5>1, <5>2
      <4>2. CASE g # count
        BY <2>1, <3>2, <4>2 DEF StoreOK
      <4>3. QED
        BY <4>1, <4>2
    <3>3. QED
      BY <1>1, <3>1, <3>2 DEF StoreOK, Stored
  <2>3. SavingOK'
    BY <1>1, <1>4, <1>5, <2>1 DEF SavingOK, Uploading
  <2>4. \A h \in Pauses \ {count} : StoredImage(h)' = StoredImage(h)
    BY <1>1, <2>1, ImageStays
  <2>5. StoredImage(count) = NoManifest
    BY <1>1 DEF StoredImage
  <2>6. StoredImage(count)' = [vmstate |-> count, memory |-> count, disk |-> diskAt[count]]
    <3>1. [j \in Indices |-> IF save.disk[j] \in chunks \cup {0} THEN save.disk[j] ELSE NoDisk] = save.disk
      BY <1>1, <1>2 DEF Disks, Stored
    <3>2. manifests'[count] # NoManifest /\ manifests'[count].disk = save.disk
      BY <1>5, <1>6, <2>1
    <3>3. QED
      BY <1>1, <1>2, <3>1, <3>2 DEF StoredImage
  <2>7. FrozenImage = [vmstate |-> count, memory |-> count, disk |-> diskAt[count]]
    <3>1. count # 0
      BY PauseNumbers
    <3>2. QED
      BY <3>1 DEF FrozenImage
  <2>8. QED
    BY <1>1, <1>4, <2>2, <2>3, <2>4, <2>5, <2>6, <2>7 DEF AbsCommit
<1>9. QED
  BY <1>3, <1>7, <1>8

\* The pointer moves forward to a committed generation.
LEMMA PutPointerStep ==
    ASSUME StoreOK, SavingOK, SaveContext, PutPointer
    PROVE  StoreOK' /\ SavingOK' /\ save'.pc # "idle" /\ (AbsStutter \/ AbsActivate(count))
<1> USE DEF SaveContext
<1>1. save.pc = "pointer" /\ UNCHANGED <<vmstate, memory, chunks, manifests>>
      /\ manifests[count] # NoManifest /\ latest < count
  BY DEF PutPointer, SavingOK
<1>2. (latest' = count \/ latest' = latest)
      /\ (save' = [save EXCEPT !.pc = "saved"] \/ save' = [save EXCEPT !.pc = "failed"])
  BY DEF PutPointer, Then
<1>3. save' \in SaveType /\ save'.g = count /\ save'.pc \in {"saved", "failed"}
  BY <1>2 DEF SaveType
<1>4. StoreOK'
  BY <1>1, <1>2, <1>3 DEF StoreOK, CheckpointTypeOK, SaveType, Stored
<1>5. SavingOK'
  BY <1>3 DEF SavingOK, Uploading
<1>6. \A h \in Pauses : StoredImage(h)' = StoredImage(h)
  BY <1>1, ImageStays
<1>7. StoredImage(count) # NoManifest /\ count > latest
  BY <1>1, ImageIsWhole DEF StoreOK, CheckpointTypeOK
<1>8. QED
  BY <1>2, <1>3, <1>4, <1>5, <1>6, <1>7 DEF AbsStutter, AbsActivate

\* One step of Save: nothing, a commit or a move of the pointer.
LEMMA PauseSaveStep ==
    ASSUME RInv, PauseSave
    PROVE  RInv' /\ (AbsStutter \/ AbsCommit(count) \/ AbsActivate(count)) /\ count \in Pauses /\ UNCHANGED count
<1>1. SaveContext /\ StoreOK /\ SavingOK /\ LocalOK
  BY SaveContextHolds DEF RInv
<1>2. SaveStep(count, count, diskAt[count])
  BY <1>1 DEF PauseSave, SaveContext
<1>3. StoreOK' /\ SavingOK' /\ save'.pc # "idle" /\ (AbsStutter \/ AbsCommit(count) \/ AbsActivate(count))
  BY <1>1, <1>2, PutVMStateStep, PutMemoryStep, PreviousChunksStep, PutChunkStep, PutManifestStep,
     PutPointerStep DEF SaveStep
<1>4. op = "save" /\ UNCHANGED <<up, sess, vm, op, files, disks, record, reap, count, diskAt>>
  BY DEF PauseSave, session, local, ghost
<1>5. LocalOK'
  BY <1>1, <1>3, <1>4 DEF LocalOK, LocalTypes, SessType, SavedFiles, Hydrating
<1>6. QED
  BY <1>1, <1>3, <1>5 DEF RInv, SaveContext

\* A step outside Save and the snapshot is invisible to the checkpoint store.
LEMMA ElsewhereMaps == ASSUME Elsewhere PROVE UNCHANGED Durable!vars
BY DEF Elsewhere, Durable!vars, FrozenImage, StoredImage, objects

\* Every step of Recovery is a step of the checkpoint store, or none.
LEMMA RecoveryStep ==
    ASSUME RInv, [Next]_vars
    PROVE  RInv' /\ [Durable!Next]_(Durable!vars)
<1>1. CASE UNCHANGED vars
  <2>1. UNCHANGED <<objects, save, count, diskAt, up, sess, vm, op, files, disks, record, reap>>
    BY <1>1 DEF vars, session, local, ghost
  <2>2. LocalOK'
    BY <2>1 DEF RInv, LocalOK, LocalTypes, SessType, SavedFiles, ManifestKey, objects
  <2>3. QED
    BY <2>1, <2>2, StoreStutter, ElsewhereMaps DEF RInv, Elsewhere
<1>2. CASE PauseSnapshot
  <2>1. RInv' /\ FrozenImage' # NoManifest /\ UNCHANGED objects
    BY <1>2, SnapshotStep
  <2>2. Durable!Freeze
    BY <2>1 DEF Durable!Freeze, StoredImage, objects
  <2>3. QED
    BY <2>1, <2>2 DEF Durable!Next
<1>3. CASE PauseSave
  <2>1. RInv' /\ (AbsStutter \/ AbsCommit(count) \/ AbsActivate(count)) /\ count \in Pauses /\ UNCHANGED count
    BY <1>3, PauseSaveStep
  <2>2. CASE AbsStutter
    BY <2>1, <2>2 DEF AbsStutter, Durable!vars
  <2>3. CASE AbsCommit(count)
    <3>1. ASSUME NEW g \in Pauses PROVE StoredImage(g)' = IF g = count THEN FrozenImage ELSE StoredImage(g)
      BY <2>1, <2>3 DEF AbsCommit, StoredImage
    <3>2. [g \in Pauses |-> StoredImage(g)]' = [[g \in Pauses |-> StoredImage(g)] EXCEPT ![count] = FrozenImage]
      BY <2>1, <3>1
    <3>3. Durable!Commit(count)
      BY <2>1, <2>3, <3>2 DEF AbsCommit, Durable!Commit
    <3>4. QED
      BY <2>1, <3>3 DEF Durable!Next
  <2>4. CASE AbsActivate(count)
    <3>1. Durable!Activate(count)
      BY <2>1, <2>4 DEF AbsActivate, Durable!Activate
    <3>2. QED
      BY <2>1, <3>1 DEF Durable!Next
  <2>5. QED
    BY <2>1, <2>2, <2>3, <2>4
<1>4. CASE Next /\ ~PauseSnapshot /\ ~PauseSave
  <2>1. RInv' /\ Elsewhere
    BY <1>4, PauseLocal, ResumeLocal, FaultLocal, SaveEnds DEF Next
  <2>2. QED
    BY <2>1, ElsewhereMaps
<1>5. QED
  BY <1>1, <1>2, <1>3, <1>4

\* Whatever fails, crashes or is destroyed meanwhile, Save commits whole
\* generations that never change, and latest.json names a committed one and
\* only moves forward (Writer.Save), for any number of pauses and any disk.
THEOREM CheckpointsAreAtomicHolds == Spec => CheckpointsAreAtomic
<1>1. Init => Durable!Init
  BY DEF Init, CheckpointInit, Durable!Init, FrozenImage, StoredImage
<1>2. RInv /\ [Next]_vars => RInv'
  BY RecoveryStep
<1>3. RInv /\ [Next]_vars => [Durable!Next]_(Durable!vars)
  BY RecoveryStep
<1>4. QED
  BY <1>1, <1>2, <1>3, InitRInv, PTL DEF Spec, CheckpointsAreAtomic, Durable!Spec

=============================================================================
