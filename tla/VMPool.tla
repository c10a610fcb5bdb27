------------------------------- MODULE VMPool -------------------------------
(***************************************************************************)
(* The warm pool of one sandbox size (executor/firecracker/vm_pool.go) and *)
(* the part of FireCrackerManager it runs on (vm_manager.go): provisioning *)
(* gate, network slots, the restore lock with the vsock path every restore *)
(* of a template shares, writable disks, teardown.                         *)
(*                                                                         *)
(* vm[v] is a microVM together with the goroutine that provisions it: an   *)
(* addVM for the pool, or a session's ResumeFromSnapshot (vm[v].for).      *)
(* Users are sessions: one acquires a VM, gives it back, pauses (which     *)
(* takes the VM from the pool and keeps its disk) and resumes outside the  *)
(* pool; Destroy may overtake a pause.  An id is drawn again only when     *)
(* nothing of the VM that had it is left.                                  *)
(***************************************************************************)
EXTENDS Naturals, FiniteSets, Sequences

CONSTANTS
    NumVMs,         \* bound: microVMs that exist at a time
    Hosts,          \* records of a number of network slots and the gate's capacity
    MaxSize,        \* of the pool
    Users,          \* sessions
    None,           \* no VM, no slot, no holder
    Pool,           \* vm[v].for of a VM the pool adds
    MaxFaults       \* bound: failures of a behaviour (those of the fallback not counted)

VMs == 1..NumVMs

Slots == UNION {0..(h.slots - 1) : h \in Hosts}

\* Every pool of the worker has minSize 0, so none is filled in advance and
\* Release replaces no VM.
MinSize == 0

\* What listens at a socket file whose process has been killed.
Dead == 0

ASSUME PoolConstants ==
    /\ NumVMs \in Nat /\ Hosts \subseteq [slots : Nat \ {0}, provisions : Nat \ {0}]
    /\ MaxSize \in Nat
    /\ None \notin VMs \cup Slots \cup Users \cup {0}
    /\ Pool \notin Users

VARIABLES
    vm,             \* vm[v]: provisioning step, purpose, slot, process, disk, socket
    slots,          \* the network slots that bootstrap set up
    provisions,     \* capacity of provisionSlots, the provisioning gate
    free,           \* slotPool.slots
    gate,           \* provisioning goroutines that hold a place of provisionSlots
    restoreMu,      \* the VM whose restore holds restoreMu
    tsock,          \* the process that listens at the template's vsock path
    Vms,            \* FireCrackerManager.Vms
    vmMap,          \* VMPool.vmMap
    queue,          \* VMPool.vms: VMs that wait for an Acquire
    waiters,        \* Acquires blocked on it, first come first served
    pendingAdds,    \* scale-ups whose goroutine has not returned
    disks,          \* writable disks, each named after the VM or the paused session that owns it
    user,           \* user[u]: what the session does and with which VM or disk
    reaping,        \* the VM the idle reaper has taken out of the channel
    stopped,        \* Shutdown has been called
    faults,         \* failures so far
    stray           \* a VMM bound the template path after its restore was given up

vars == <<vm, slots, provisions, free, gate, restoreMu, tsock, Vms, vmMap, queue, waiters, pendingAdds,
          disks, user, reaping, stopped, faults, stray>>
host == <<slots, provisions, free, gate, restoreMu, tsock, Vms, disks>>
pool == <<vmMap, queue, waiters, pendingAdds>>

NoVM == [pc |-> "none", for |-> None, slot |-> None, alive |-> FALSE, bound |-> FALSE,
         disk |-> None, sock |-> None, keep |-> FALSE]

Provisioning == {"gate", "slot", "lock", "load", "resumed", "cleanup", "create", "boot", "booting"}

UserStates == {"idle", "waiting", "have", "releasing", "pausing", "both", "lateRelease",
               "latePause", "stopping", "paused", "resuming"}

TypeOK ==
    /\ vm \in [VMs -> [pc : Provisioning \cup {"none", "ping", "send", "up", "down", "gone", "leaked"},
                       for : Users \cup {Pool, None}, slot : Slots \cup {None}, alive : BOOLEAN,
                       bound : BOOLEAN, disk : VMs \cup Users \cup {None}, sock : VMs \cup {None, Dead}, keep : BOOLEAN]]
    /\ slots \subseteq Slots /\ provisions \in Nat /\ free \subseteq slots
    /\ gate \subseteq VMs /\ Cardinality(gate) <= provisions
    /\ restoreMu \in VMs \cup {None} /\ tsock \in VMs \cup {None, Dead}
    /\ Vms \subseteq VMs /\ vmMap \subseteq VMs /\ pendingAdds \subseteq VMs /\ disks \subseteq VMs \cup Users
    /\ queue \in Seq(VMs) /\ waiters \in Seq(Users)
    /\ user \in [Users -> [st : UserStates,
                           v : VMs \cup {None}]]
    /\ reaping \in VMs \cup {None}
    /\ stopped \in BOOLEAN /\ faults \in 0..MaxFaults /\ stray \in BOOLEAN

Init ==
    /\ vm = [v \in VMs |-> NoVM]
    /\ \E h \in Hosts : slots = 0..(h.slots - 1) /\ provisions = h.provisions
    /\ free = slots /\ gate = {} /\ restoreMu = None /\ tsock = None
    /\ Vms = {} /\ vmMap = {} /\ queue = <<>> /\ waiters = <<>> /\ pendingAdds = {} /\ disks = {}
    /\ user = [u \in Users |-> [st |-> "idle", v |-> None]]
    /\ reaping = None /\ stopped = FALSE /\ faults = 0 /\ stray = FALSE

Fault == faults < MaxFaults /\ faults' = faults + 1

\* An id nothing refers to any more.
Unused(v) ==
    /\ vm[v].pc \in {"none", "gone"}
    /\ v \notin Vms \cup vmMap \cup pendingAdds \cup disks
    /\ \A u \in Users : user[u].v # v
Fresh(v) == Unused(v) /\ \A w \in VMs : w < v => ~Unused(w)

Goto(v, pc) == vm' = [vm EXCEPT ![v].pc = pc]

-----------------------------------------------------------------------------
\* Mutant: the gate is not waited for.
AcquireProvisionUngated(v) ==
    /\ vm[v].pc \in {"gate", "boot"}
    /\ gate' = gate \cup {v}
    /\ Goto(v, IF vm[v].pc = "gate" THEN "slot" ELSE "booting")
    /\ UNCHANGED <<slots, provisions, free, restoreMu, tsock, Vms, disks, pool, user, reaping, stopped, faults, stray>>

\* loadSnapshot: the gate, then a network slot while holding the gate, then the
\* process and its TAP, then the restore itself under restoreMu.
AcquireProvision(v) ==
    /\ vm[v].pc \in {"gate", "boot"}
    /\ Cardinality(gate) < provisions
    /\ gate' = gate \cup {v}
    /\ Goto(v, IF vm[v].pc = "gate" THEN "slot" ELSE "booting")
    /\ UNCHANGED <<slots, provisions, free, restoreMu, tsock, Vms, disks, pool, user, reaping, stopped, faults, stray>>

\* v's record becomes r and its process is gone: nobody listens at a socket it bound.
Kill(v, r) ==
    /\ vm' = [w \in VMs |-> IF w = v THEN r
                            ELSE IF vm[w].sock = v THEN [vm[w] EXCEPT !.sock = Dead] ELSE vm[w]]
    /\ tsock' = IF tsock = v THEN Dead ELSE tsock

\* A restore has failed: the slot and the gate are given back; addVM goes on to
\* a cold boot, a session's Resume reports the error.
GiveUp(v) ==
    /\ free' = free \cup ({vm[v].slot} \ {None})
    /\ gate' = gate \ {v}
    /\ Kill(v, IF vm[v].for = Pool THEN [NoVM EXCEPT !.pc = "create", !.for = Pool] ELSE NoVM)
    /\ user' = IF vm[v].for = Pool THEN user ELSE [user EXCEPT ![vm[v].for].st = "paused"]
    /\ UNCHANGED <<slots, provisions, Vms, pool, reaping, stopped, stray>>

\* A slot, then the process in the slot's namespace, then the TAP's rename; if one
\* of these fails the slot goes back.
AcquireSlot(v) ==
    /\ vm[v].pc = "slot"
    /\ \E s \in free :
          /\ free' = free \ {s}
          /\ vm' = [vm EXCEPT ![v].slot = s, ![v].alive = TRUE, ![v].pc = "lock"]
    /\ UNCHANGED <<slots, provisions, gate, restoreMu, tsock, Vms, disks, pool, user, reaping, stopped, faults, stray>>

StartFails(v) ==
    /\ vm[v].pc = "slot" /\ free # {} /\ Fault
    /\ GiveUp(v)
    /\ UNCHANGED <<slots, provisions, restoreMu, disks>>

\* The request of a Resume is cancelled while it waits for the gate or a slot.
CancelResume(v) ==
    /\ vm[v].pc \in {"gate", "slot"} /\ vm[v].for # Pool /\ Fault
    /\ gate' = gate \ {v}
    /\ vm' = [vm EXCEPT ![v] = NoVM]
    /\ user' = [user EXCEPT ![vm[v].for].st = "paused"]
    /\ UNCHANGED <<slots, provisions, free, restoreMu, tsock, Vms, disks, pool, reaping, stopped, stray>>

\* Mutant: restores are not serialized on the template's vsock path.
LockRestoreUnserialized(v) ==
    /\ vm[v].pc = "lock"
    /\ restoreMu' = v
    /\ tsock' = None
    /\ Goto(v, "load")
    /\ UNCHANGED <<slots, provisions, free, gate, Vms, disks, pool, user, reaping, stopped, faults, stray>>

\* restoreMu, then the stale socket of an earlier failed restore is removed.
LockRestore(v) ==
    /\ vm[v].pc = "lock" /\ restoreMu = None
    /\ restoreMu' = v
    /\ tsock' = None
    /\ Goto(v, "load")
    /\ UNCHANGED <<slots, provisions, free, gate, Vms, disks, pool, user, reaping, stopped, faults, stray>>

\* Clone the disk (pool) or attach the session's own, load, resume.  The VMM
\* binds the template path unless someone listens there; it may be late.
LoadSnapshot(v) ==
    /\ vm[v].pc = "load"
    /\ \/ tsock' = (IF tsock = None THEN v ELSE tsock) /\ UNCHANGED faults
       \/ UNCHANGED tsock /\ Fault
    /\ LET d == IF vm[v].for = Pool THEN v ELSE vm[v].for
       IN  /\ vm' = [vm EXCEPT ![v].disk = d, ![v].pc = "resumed", ![v].bound = (tsock' = v)]
           /\ disks' = disks \cup {d}
    /\ UNCHANGED <<slots, provisions, free, gate, restoreMu, Vms, pool, user, reaping, stopped, stray>>

\* A VMM that was late; stray when its restore has been given up by then.
BindLate(v) ==
    /\ vm[v].alive /\ ~vm[v].bound /\ vm[v].pc \in {"resumed", "cleanup"} /\ vm[v].disk # None
    /\ tsock = None
    /\ tsock' = v
    /\ vm' = [vm EXCEPT ![v].bound = TRUE]
    /\ stray' = (stray \/ vm[v].pc = "cleanup")
    /\ UNCHANGED <<slots, provisions, free, gate, restoreMu, Vms, disks, pool, user, reaping, stopped, faults>>

\* waitForPath has seen a socket: it becomes this VM's; the restore is over.
RenameSocket(v) ==
    /\ vm[v].pc = "resumed" /\ tsock # None
    /\ vm' = [vm EXCEPT ![v].sock = tsock, ![v].disk = v,
                        ![v].pc = IF vm[v].for = Pool THEN "ping" ELSE "up"]
    /\ tsock' = None
    /\ restoreMu' = None
    /\ gate' = gate \ {v}
    /\ Vms' = Vms \cup {v}
    /\ disks' = (disks \ {vm[v].disk}) \cup {v}
    /\ user' = IF vm[v].for = Pool THEN user
               ELSE [user EXCEPT ![vm[v].for] = [st |-> "have", v |-> v]]
    /\ UNCHANGED <<slots, provisions, free, pool, reaping, stopped, faults, stray>>

\* Mutant: restoreCleanup leaves restoreMu locked.
RestoreFailsLocked(v) ==
    /\ \/ vm[v].pc \in {"load", "resumed"} /\ Fault
       \/ vm[v].pc = "resumed" /\ tsock = None /\ UNCHANGED faults
    /\ Goto(v, "cleanup")
    /\ UNCHANGED <<host, pool, user, reaping, stopped, stray>>

\* restoreCleanup unlocks first ...
RestoreFails(v) ==
    /\ \/ vm[v].pc \in {"load", "resumed"} /\ Fault
       \/ vm[v].pc = "resumed" /\ tsock = None /\ UNCHANGED faults
    /\ restoreMu' = None
    /\ Goto(v, "cleanup")
    /\ UNCHANGED <<slots, provisions, free, gate, tsock, Vms, disks, pool, user, reaping, stopped, stray>>

\* Mutant: a failed restore deletes the disk also when it is a session's own.
RestoreCleanupAnyDisk(v) ==
    /\ vm[v].pc = "cleanup"
    /\ disks' = disks \ {IF vm[v].for = Pool THEN v ELSE vm[v].for}
    /\ GiveUp(v)
    /\ UNCHANGED <<slots, provisions, restoreMu, faults>>

\* ... then kills the process and gives back the slot and the cloned disk.
RestoreCleanup(v) ==
    /\ vm[v].pc = "cleanup"
    /\ disks' = IF vm[v].for = Pool THEN disks \ {v} ELSE disks
    /\ GiveUp(v)
    /\ UNCHANGED <<slots, provisions, restoreMu, faults>>

-----------------------------------------------------------------------------
\* addVM after a failed restore: Create makes an empty disk and registers the VM,
\* Boot starts it without a slot.  addVM returns Boot's error and destroys nothing.
Create(v) ==
    /\ vm[v].pc = "create"
    /\ \/ /\ vm' = [vm EXCEPT ![v].disk = v, ![v].pc = "boot"]
          /\ Vms' = Vms \cup {v} /\ disks' = disks \cup {v}
       \/ /\ vm' = [vm EXCEPT ![v] = NoVM]
          /\ UNCHANGED <<Vms, disks>>
    /\ UNCHANGED <<slots, provisions, free, gate, restoreMu, tsock, pool, user, reaping, stopped, faults, stray>>

Boot(v) ==
    /\ vm[v].pc = "booting"
    /\ gate' = gate \ {v}
    /\ \/ vm' = [vm EXCEPT ![v].alive = TRUE, ![v].sock = v, ![v].pc = "ping"]
       \/ vm' = [vm EXCEPT ![v].alive = TRUE, ![v].pc = "leaked"]
    /\ UNCHANGED <<slots, provisions, free, restoreMu, tsock, Vms, disks, pool, user, reaping, stopped, faults, stray>>

\* The guest answers on the VM's socket and the VM is entered in vmMap; or addVM
\* returns an error after 30 s and leaves the VM as it is.
Ping(v) ==
    /\ vm[v].pc = "ping"
    /\ \/ /\ vm[v].sock \in VMs
          /\ vmMap' = vmMap \cup {v}
          /\ Goto(v, "send")
          /\ UNCHANGED faults
       \/ /\ IF vm[v].sock = Dead THEN UNCHANGED faults ELSE Fault
          /\ Goto(v, "leaked")
          /\ UNCHANGED vmMap
    /\ UNCHANGED <<host, queue, waiters, pendingAdds, user, reaping, stopped, stray>>

\* Into the channel: to the Acquire that has waited longest, or to the buffer.
AddSend(v) ==
    /\ vm[v].pc = "send"
    /\ Goto(v, "up")
    /\ IF waiters # <<>>
       THEN /\ user' = [user EXCEPT ![Head(waiters)] = [st |-> "have", v |-> v]]
            /\ waiters' = Tail(waiters)
            /\ UNCHANGED queue
       ELSE /\ Len(queue) < MaxSize
            /\ queue' = Append(queue, v)
            /\ UNCHANGED <<user, waiters>>
    /\ UNCHANGED <<host, vmMap, pendingAdds, reaping, stopped, faults, stray>>

\* The deferred decrement of the scale-up goroutine.
AddReturns(v) ==
    /\ v \in pendingAdds
    /\ vm[v].pc \notin Provisioning \cup {"ping", "send"}
    /\ pendingAdds' = pendingAdds \ {v}
    /\ UNCHANGED <<vm, host, vmMap, queue, waiters, user, reaping, stopped, faults, stray>>

-----------------------------------------------------------------------------
\* Mutant: the VMs that are being added are not counted.
TryScaleUpUncounted(v) ==
    IF Cardinality(vmMap) >= MaxSize
    THEN UNCHANGED <<vm, pendingAdds>>
    ELSE /\ Fresh(v)
         /\ pendingAdds' = pendingAdds \cup {v}
         /\ vm' = [vm EXCEPT ![v] = [NoVM EXCEPT !.pc = "gate", !.for = Pool]]

\* One goroutine running addVM, unless the pool is at its size.
TryScaleUp(v) ==
    IF Cardinality(vmMap) + Cardinality(pendingAdds) >= MaxSize
    THEN UNCHANGED <<vm, pendingAdds>>
    ELSE /\ Fresh(v)
         /\ pendingAdds' = pendingAdds \cup {v}
         /\ vm' = [vm EXCEPT ![v] = [NoVM EXCEPT !.pc = "gate", !.for = Pool]]

\* Acquire: a warm VM, or one attempt to scale up and then a wait.
Acquire(u) ==
    /\ user[u].st = "idle"
    /\ IF queue # <<>>
       THEN /\ user' = [user EXCEPT ![u] = [st |-> "have", v |-> Head(queue)]]
            /\ queue' = Tail(queue)
            /\ UNCHANGED <<vm, pendingAdds, waiters>>
       ELSE /\ \E v \in VMs : TryScaleUp(v)
            /\ user' = [user EXCEPT ![u].st = "waiting"]
            /\ waiters' = Append(waiters, u)
            /\ UNCHANGED queue
    /\ UNCHANGED <<host, vmMap, reaping, stopped, faults, stray>>

AcquireCancelled(u) ==
    /\ user[u].st = "waiting"
    /\ user' = [user EXCEPT ![u].st = "idle"]
    /\ waiters' = SelectSeq(waiters, LAMBDA w : w # u)
    /\ UNCHANGED <<vm, host, vmMap, queue, pendingAdds, reaping, stopped, faults, stray>>

-----------------------------------------------------------------------------
\* Mutant: a second teardown of a VM is not recognized.
TeardownTwice(v, keepDisk) ==
    /\ Vms' = Vms \ {v}
    /\ vm' = [vm EXCEPT ![v].pc = "down", ![v].keep = keepDisk]

\* teardown, under the manager's lock: whoever finds the VM registered takes it.
Teardown(v, keepDisk) ==
    IF v \in Vms
    THEN /\ Vms' = Vms \ {v}
         /\ vm' = [vm EXCEPT ![v].pc = "down", ![v].keep = keepDisk]
    ELSE UNCHANGED <<Vms, vm>>

\* ... and then kills the process, deletes the disk unless it is kept, and gives
\* back the slot; a pause that waits for this has ended.  The struct lives on for
\* a caller that has yet to try its own teardown.
Late(u) == user[u].st \in {"lateRelease", "latePause"}
AfterTeardown(v) ==
    /\ disks' = IF vm[v].keep /\ vm[v].disk \in Users THEN disks ELSE disks \ {vm[v].disk}
    /\ Kill(v, IF \E u \in Users : user[u].v = v /\ Late(u)
               THEN [vm[v] EXCEPT !.pc = "gone", !.alive = FALSE, !.bound = FALSE] ELSE NoVM)
    /\ user' = [u \in Users |-> IF user[u].st = "stopping" /\ user[u].v = v
                                THEN [st |-> "paused", v |-> None] ELSE user[u]]
    /\ UNCHANGED <<slots, provisions, gate, restoreMu, Vms, pool, reaping, stopped, faults, stray>>

TeardownFinish(v) ==
    /\ vm[v].pc = "down"
    /\ free' = free \cup ({vm[v].slot} \ {None})
    /\ AfterTeardown(v)

-----------------------------------------------------------------------------
\* Destroy of an active session, of one that is being paused too: Release takes
\* the VM from vmMap (a resumed VM is not there), then tears it down.
Release(u) ==
    /\ user[u].st \in {"have", "pausing"}
    /\ vmMap' = vmMap \ {user[u].v}
    /\ user' = [user EXCEPT ![u].st = IF @ = "have" THEN "releasing" ELSE "both"]
    /\ UNCHANGED <<vm, host, queue, waiters, pendingAdds, reaping, stopped, faults, stray>>

\* Pause: Forget takes the VM from vmMap; TeardownKeepDisk follows.  A Resume
\* whose guest cannot be reached tears its VM down in the same way.
Forget(u) ==
    /\ user[u].st = "have"
    /\ vmMap' = vmMap \ {user[u].v}
    /\ user' = [user EXCEPT ![u].st = "pausing"]
    /\ UNCHANGED <<vm, host, queue, waiters, pendingAdds, reaping, stopped, faults, stray>>

ReleaseTeardown(u) ==
    /\ user[u].st = "releasing"
    /\ Teardown(user[u].v, FALSE)
    /\ user' = [user EXCEPT ![u] = [st |-> "idle", v |-> None]]
    /\ UNCHANGED <<slots, provisions, free, gate, restoreMu, tsock, disks, pool, reaping, stopped, faults, stray>>

PauseTeardown(u) ==
    /\ user[u].st = "pausing"
    /\ LET v == user[u].v
       IN  /\ Vms' = Vms \ {v}
           /\ vm' = [vm EXCEPT ![v].pc = "down", ![v].keep = TRUE, ![v].disk = u]
           /\ disks' = (disks \ {vm[v].disk}) \cup {u}
    /\ user' = [user EXCEPT ![u].st = "stopping"]
    /\ UNCHANGED <<slots, provisions, free, gate, restoreMu, tsock, pool, reaping, stopped, faults, stray>>

\* Destroy has overtaken a pause: two teardowns, and no session is left.
FirstTeardown(u, keepDisk) ==
    /\ user[u].st = "both"
    /\ Teardown(user[u].v, keepDisk)
    /\ user' = [user EXCEPT ![u].st = IF keepDisk THEN "lateRelease" ELSE "latePause"]
    /\ UNCHANGED <<slots, provisions, free, gate, restoreMu, tsock, disks, pool, reaping, stopped, faults, stray>>

SecondTeardown(u) ==
    /\ Late(u)
    /\ Teardown(user[u].v, user[u].st = "latePause")
    /\ user' = [user EXCEPT ![u] = [st |-> "idle", v |-> None]]
    /\ UNCHANGED <<slots, provisions, free, gate, restoreMu, tsock, disks, pool, reaping, stopped, faults, stray>>

\* The disk of a paused session has the session's name.
Resume(u) ==
    /\ user[u].st = "paused"
    /\ user' = [user EXCEPT ![u].st = "resuming"]
    /\ \E v \in VMs :
          /\ Fresh(v)
          /\ vm' = [vm EXCEPT ![v] = [NoVM EXCEPT !.pc = "gate", !.for = u]]
    /\ UNCHANGED <<host, pool, reaping, stopped, faults, stray>>

DestroyPaused(u) ==
    /\ user[u].st = "paused"
    /\ disks' = disks \ {u}
    /\ user' = [user EXCEPT ![u] = [st |-> "idle", v |-> None]]
    /\ UNCHANGED <<vm, slots, provisions, free, gate, restoreMu, tsock, Vms, pool, reaping, stopped, faults, stray>>

-----------------------------------------------------------------------------
\* reapIdle takes the VMs out of the channel one by one: one idle for too long is
\* destroyed (and so would be one that no longer fits), another is put back.
ReapTake ==
    /\ reaping = None /\ queue # <<>>
    /\ reaping' = Head(queue)
    /\ queue' = Tail(queue)
    /\ UNCHANGED <<vm, host, vmMap, waiters, pendingAdds, user, stopped, faults, stray>>

\* Mutant: a destroyed VM is put back too.
ReapDestroyAndRequeue ==
    /\ reaping # None /\ Cardinality(vmMap) > MinSize
    /\ vmMap' = vmMap \ {reaping}
    /\ Teardown(reaping, FALSE)
    /\ reaping' = None
    /\ queue' = Append(queue, reaping)
    /\ UNCHANGED <<slots, provisions, free, gate, restoreMu, tsock, disks, waiters, pendingAdds, user, stopped, faults, stray>>

ReapDestroy ==
    /\ reaping # None /\ Cardinality(vmMap) > MinSize
    /\ vmMap' = vmMap \ {reaping}
    /\ Teardown(reaping, FALSE)
    /\ reaping' = None
    /\ UNCHANGED <<slots, provisions, free, gate, restoreMu, tsock, disks, queue, waiters, pendingAdds, user, stopped, faults, stray>>

ReapRequeue ==
    /\ reaping # None
    /\ reaping' = None
    /\ IF waiters # <<>>
       THEN /\ user' = [user EXCEPT ![Head(waiters)] = [st |-> "have", v |-> reaping]]
            /\ waiters' = Tail(waiters)
            /\ UNCHANGED queue
       ELSE /\ Len(queue) < MaxSize
            /\ queue' = Append(queue, reaping)
            /\ UNCHANGED <<user, waiters>>
    /\ UNCHANGED <<vm, host, vmMap, pendingAdds, stopped, faults, stray>>

\* With the requests drained and the sessions paused that could be, the session
\* manager's Shutdown and then the pool's: the VMs of resumed sessions
\* and those in vmMap are destroyed.  Restores in flight are
\* not waited for: they end with the process.
Shutdown ==
    /\ \A u \in Users : user[u].st \in {"idle", "have", "paused"}
    /\ stopped' = TRUE
    /\ LET resumed == {user[u].v : u \in {w \in Users : user[w].st = "have" /\ vm[user[w].v].for # Pool}}
           doomed == Vms \cap (vmMap \cup resumed)
       IN  /\ Vms' = Vms \ doomed
           /\ vm' = [v \in VMs |-> IF v \in doomed THEN [vm[v] EXCEPT !.pc = "down", !.keep = FALSE] ELSE vm[v]]
    /\ UNCHANGED <<slots, provisions, free, gate, restoreMu, tsock, disks, pool, user, reaping, faults, stray>>

-----------------------------------------------------------------------------
Advance(v) ==
    \/ AcquireProvision(v) \/ AcquireSlot(v) \/ LockRestore(v) \/ LoadSnapshot(v) \/ RenameSocket(v)
    \/ RestoreFails(v) \/ RestoreCleanup(v) \/ Create(v) \/ Boot(v) \/ Ping(v) \/ AddSend(v)
GiveBack(u) ==
    \/ Release(u) \/ ReleaseTeardown(u) \/ PauseTeardown(u) \/ SecondTeardown(u)
    \/ \E k \in BOOLEAN : FirstTeardown(u, k)
Session(u) ==
    \/ Acquire(u) \/ AcquireCancelled(u) \/ Forget(u) \/ Resume(u) \/ DestroyPaused(u) \/ GiveBack(u)

Next ==
    \/ \E v \in VMs : TeardownFinish(v)
    \/ /\ ~stopped
       /\ \/ \E v \in VMs : Advance(v) \/ StartFails(v) \/ CancelResume(v) \/ BindLate(v) \/ AddReturns(v)
          \/ \E u \in Users : Session(u)
          \/ ReapTake \/ ReapDestroy \/ ReapRequeue \/ Shutdown

\* Provisioning and teardown run on, and what waits for the gate, a slot or
\* restoreMu is served in turn, as Go's channels and mutexes do; idle VMs outlive
\* idleTTL; a session reaches MaxLifetime, at which its reaper destroys it.
Fairness ==
    /\ \A v \in VMs : SF_vars(~stopped /\ Advance(v)) /\ WF_vars(TeardownFinish(v))
    /\ \A u \in Users : WF_vars(~stopped /\ GiveBack(u))
    /\ WF_vars(~stopped /\ ReapTake) /\ SF_vars(~stopped /\ ReapDestroy)

Spec == Init /\ [][Next]_vars /\ Fairness

-----------------------------------------------------------------------------
\* Every network slot is free or belongs to exactly one VM, whatever fails during
\* a restore and however pause, Destroy, the idle reaper and Shutdown compete to
\* tear a VM down (slotPool, loadSnapshot's error paths, teardown).
Holders(s) == {v \in VMs : vm[v].slot = s /\ vm[v].pc # "gone"}
SlotsConserved ==
    \A s \in slots : Cardinality(Holders(s)) = IF s \in free THEN 0 ELSE 1

\* Two running VMs never write the same disk, a running VM's disk exists, and the
\* disk of a paused session survives failed resumes (cloneDisk, keepDisk).
DisksExclusive ==
    /\ \A v \in VMs : vm[v].alive /\ vm[v].disk # None =>
          /\ vm[v].disk \in disks
          /\ \A w \in VMs \ {v} : vm[w].alive => vm[w].disk # vm[v].disk
    /\ ~stopped => \A u \in Users : user[u].st \in {"stopping", "paused", "resuming"} => u \in disks

\* The socket a restored VM is reached by is its own VMM's, though all restores of
\* a template bind the same path: restoreMu and the removal of a stale socket see to
\* that.  Excepted: restoreCleanup unlocks before it kills, and a VMM it has given
\* up may still bind the path (stray).
SocketIsOwn ==
    \A v \in VMs : vm[v].sock # None /\ vm[v].pc # "gone" => vm[v].sock = v \/ stray

\* A VM is handed to one session only, and one that can still be handed out has
\* not been torn down, until Shutdown.
HandedOutOnce ==
    /\ \A u, w \in Users : u # w /\ user[u].v # None => user[u].v # user[w].v
    /\ ~stopped =>
          LET available == {queue[i] : i \in DOMAIN queue} \cup ({reaping} \ {None})
          IN  /\ Cardinality(available) = Len(queue) + (IF reaping = None THEN 0 ELSE 1)
              /\ \A v \in available : v \in Vms \cap vmMap /\ \A u \in Users : user[u].v # v

\* The pool never exceeds maxSize, with the VMs being added counted, so that the
\* send at the end of addVM never blocks (tryScaleUp, vms).
PoolWithinMax ==
    /\ Cardinality(vmMap \cup pendingAdds) <= MaxSize
    /\ \A v \in VMs : vm[v].pc = "send" => Len(queue) < MaxSize

\* Every restore and cold boot comes to an end, though a restore waits for a slot
\* while it holds the provisioning gate: slots come back, unless every one of them
\* has been leaked by an addVM whose guest did not answer.
ProvisioningEnds ==
    LET leakedAll == \A s \in slots : \E v \in Holders(s) : vm[v].pc = "leaked"
    IN  \A v \in VMs : vm[v].pc \in Provisioning ~> vm[v].pc \notin Provisioning \/ leakedAll \/ stopped
=============================================================================
