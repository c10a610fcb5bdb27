----------------------------- MODULE Checkpoint -----------------------------
(***************************************************************************)
(* Durable checkpoints of one sandbox: the objects a Writer has put under  *)
(* the sandbox's prefix and the steps of Writer.Save (checkpoint/writer.go)*)
(* and Reader.Restore (checkpoint/reader.go).  An object is put atomically *)
(* (template/store.go), but a Put that returns an error may still have     *)
(* stored it.                                                              *)
(*                                                                         *)
(* The n-th snapshot of the sandbox is the number n: its VM state and its  *)
(* memory are n, and Save(n) writes generation n (a fresh UUID).  A disk   *)
(* maps chunk indices to contents, 0 being the all-zero chunk.  Disk       *)
(* chunks are addressed by their SHA-256, so an object of disk-chunks is   *)
(* the content it holds.                                                   *)
(***************************************************************************)
EXTENDS Naturals

CONSTANTS
    MaxPauses,      \* bound: snapshots of the sandbox
    Indices,        \* chunk indices of the writable disk
    Contents,       \* contents of a non-zero chunk
    NoManifest      \* generations/<g>/manifest.json does not exist

ASSUME CheckpointConstants ==
    /\ MaxPauses \in Nat
    /\ Indices \subseteq Nat
    /\ Contents \subseteq Nat \ {0}
    /\ NoManifest \notin [vmstate : 0..MaxPauses, memory : 0..MaxPauses,
                          disk : [Indices -> Contents \cup {0}]]

Pauses == 1..MaxPauses
Disks  == [Indices -> Contents \cup {0}]

VARIABLES
    vmstate,        \* vmstate[g]: the object generations/<g>/vmstate.snap, 0 when absent
    memory,         \* memory[g]: generations/<g>/memory.mem, 0 when absent
    chunks,         \* the disk-chunks objects, by content
    manifests,      \* manifests[g]: generations/<g>/manifest.json or NoManifest
    latest,         \* the generation latest.json names, 0 when it does not exist
    save            \* the Save in progress: its step, what it has put, what it may reuse

objects == <<vmstate, memory, chunks, manifests, latest>>

\* disk: the chunk list built so far (0: skipped); todo: indices not visited yet.
IdleSave == [pc |-> "idle", g |-> 0, disk |-> [i \in Indices |-> 0], todo |-> {},
             previous |-> [i \in Indices |-> 0]]

CheckpointTypeOK ==
    /\ vmstate \in [Pauses -> 0..MaxPauses]
    /\ memory \in [Pauses -> 0..MaxPauses]
    /\ chunks \subseteq Contents
    /\ manifests \in [Pauses -> {NoManifest} \cup
                        [vmstate : Pauses, memory : Pauses, disk : Disks]]
    /\ latest \in 0..MaxPauses
    /\ save \in [pc : {"idle", "vmstate", "memory", "list", "disk", "manifest", "pointer", "saved", "failed"},
                 g : 0..MaxPauses, disk : Disks, todo : SUBSET Indices, previous : Disks]

CheckpointInit ==
    /\ vmstate = [g \in Pauses |-> 0]
    /\ memory = [g \in Pauses |-> 0]
    /\ chunks = {}
    /\ manifests = [g \in Pauses |-> NoManifest]
    /\ latest = 0
    /\ save = IdleSave

-----------------------------------------------------------------------------
\* Save(n) of the files snap, mem and disk; every step may fail, and its Put
\* may have been applied although it failed.

Then(pc) == save' = [save EXCEPT !.pc = pc]

PutVMState(snap) ==
    /\ save.pc = "vmstate"
    /\ \/ vmstate' = [vmstate EXCEPT ![save.g] = snap] /\ (Then("memory") \/ Then("failed"))
       \/ UNCHANGED vmstate /\ Then("failed")
    /\ UNCHANGED <<memory, chunks, manifests, latest>>

PutMemory(mem) ==
    /\ save.pc = "memory"
    /\ \/ memory' = [memory EXCEPT ![save.g] = mem] /\ (Then("list") \/ Then("failed"))
       \/ UNCHANGED memory /\ Then("failed")
    /\ UNCHANGED <<vmstate, chunks, manifests, latest>>

\* The chunk list of the active generation; empty when it cannot be read.
PreviousChunks ==
    /\ save.pc = "list"
    /\ \E readable \in BOOLEAN :
          save' = [save EXCEPT
                      !.pc = "disk", !.todo = Indices,
                      !.previous = IF readable /\ latest # 0 /\ manifests[latest] # NoManifest
                                   THEN manifests[latest].disk ELSE [i \in Indices |-> 0]]
    /\ UNCHANGED objects

\* Mutant: a chunk of the active generation is reused by its index alone.
PutChunkByIndex(disk, i) ==
    /\ save.pc = "disk" /\ i \in save.todo /\ \A j \in save.todo : i <= j
    /\ LET c      == disk[i]
           reused == save.previous[i] # 0
           listed == IF reused THEN save.previous[i] ELSE c
           done   == [save EXCEPT !.todo = @ \ {i}, !.disk[i] = listed]
       IN  \/ save' = done /\ chunks' = chunks \cup (IF c = 0 \/ reused THEN {} ELSE {c})
           \/ Then("failed") /\ (UNCHANGED chunks \/ (c # 0 /\ ~reused /\ chunks' = chunks \cup {c}))
    /\ UNCHANGED <<vmstate, memory, manifests, latest>>

\* Mutant: zero chunks are put and listed like any other.
PutChunkZero(disk, i) ==
    /\ save.pc = "disk" /\ i \in save.todo /\ \A j \in save.todo : i <= j
    /\ chunks' = chunks \cup {disk[i]}
    /\ save' = [save EXCEPT !.todo = @ \ {i}, !.disk[i] = disk[i]]
    /\ UNCHANGED <<vmstate, memory, manifests, latest>>

\* One pass of putDisk's loop: a zero chunk is skipped, an unchanged one keeps
\* its key without a look at the store, another is put unless Stat finds it.
PutChunk(disk, i) ==
    /\ save.pc = "disk" /\ i \in save.todo /\ \A j \in save.todo : i <= j
    /\ LET c      == disk[i]
           reused == c # 0 /\ save.previous[i] = c
           done   == [save EXCEPT !.todo = @ \ {i}, !.disk[i] = c]
       IN  \/ save' = done /\ chunks' = chunks \cup (IF c = 0 \/ reused THEN {} ELSE {c})
           \/ Then("failed") /\ (UNCHANGED chunks \/ (c # 0 /\ ~reused /\ chunks' = chunks \cup {c}))
    /\ UNCHANGED <<vmstate, memory, manifests, latest>>

PutManifest(snap, mem) ==
    /\ save.pc = "disk" /\ save.todo = {}
    /\ \/ /\ manifests' = [manifests EXCEPT ![save.g] = [vmstate |-> snap, memory |-> mem, disk |-> save.disk]]
          /\ Then("pointer") \/ Then("failed")
       \/ UNCHANGED manifests /\ Then("failed")
    /\ UNCHANGED <<vmstate, memory, chunks, latest>>

PutPointer ==
    /\ save.pc = "pointer"
    /\ \/ latest' = save.g /\ (Then("saved") \/ Then("failed"))
       \/ UNCHANGED latest /\ Then("failed")
    /\ UNCHANGED <<vmstate, memory, chunks, manifests>>

SaveStep(snap, mem, disk) ==
    \/ PutVMState(snap)
    \/ PutMemory(mem)
    \/ PreviousChunks
    \/ \E i \in Indices : PutChunk(disk, i)
    \/ PutManifest(snap, mem)
    \/ PutPointer

-----------------------------------------------------------------------------
\* Restore: the generation a resume asks for, and the bytes it finds there.

\* Restore(ref), or the active generation when the session has no reference.
ManifestKey(ref) == IF ref = 0 THEN latest ELSE ref

\* Every artifact the manifest lists is there and has the listed SHA-256.
Verified(g) ==
    /\ g # 0 /\ manifests[g] # NoManifest
    /\ vmstate[g] = manifests[g].vmstate
    /\ memory[g] = manifests[g].memory
    /\ \A i \in Indices : manifests[g].disk[i] \in chunks \cup {0}
=============================================================================
