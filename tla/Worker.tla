------------------------------- MODULE Worker -------------------------------
(***************************************************************************)
(* The worker: one task per HTTP call it serves and one for its reaper     *)
(* (worker/server.go, worker/admission.go, session/manager.go), and the    *)
(* state reports a task makes to the orchestrator before it acknowledges a *)
(* transition (the onState hook of cmd/worker/main.go).                    *)
(*                                                                         *)
(* A task is a goroutine: each action below is one stretch of code between *)
(* two points where another goroutine can get in, and task[t].pc is the    *)
(* point it has reached.  A caller that stops waiting (waited = FALSE)     *)
(* does not stop its task; it only ends the context the task was given.    *)
(*                                                                         *)
(* Capacity is counted in sandboxes: a reservation takes one slot for its  *)
(* whole life and one unit of compute while it is not paused.  A sandbox   *)
(* id is created once (Create draws a fresh UUID), so a worker has at most *)
(* one session object for it; the object outlives its entry in the store   *)
(* for the tasks that still hold a pointer to it.                          *)
(***************************************************************************)
EXTENDS PlacementStore, Naturals, FiniteSets

CONSTANTS
    Sandboxes,      \* sandbox UUIDs
    Requests,       \* slots for concurrent client requests
    NoTask,         \* the holder of a free session lock
    Compute,        \* sandboxes a worker may run at once (vCPUs, memory)
    MaxSandboxes,   \* sandboxes a worker may hold, paused ones included
    Checkpoints,    \* durable checkpoints are configured
    Reaps,          \* what the reapers find due: a subset of {"pause", "destroy"}
    Faults          \* what goes wrong in this instance

AllFaults == {"boot", "snapshot", "checkpoint", "restore", "report", "timeout", "cancel",
              "orchestrator", "crash", "heartbeat"}

\* A request makes one call to a worker and, after a failure, a cleanup call.
Tasks == (Requests \X {"main", "cleanup"}) \cup (Workers \X {"reaper"})

ASSUME WorkerConstants ==
    /\ Compute \in Nat /\ MaxSandboxes \in Nat
    /\ Checkpoints \in BOOLEAN
    /\ Reaps \subseteq {"pause", "destroy"}
    /\ Faults \subseteq AllFaults
    /\ NoTask \notin Tasks

VARIABLES
    sandboxes,      \* the durable rows (PlacementStore), as the reports reach them
    task,           \* task[t]: what t runs, how far it is, and its reply
    admission,      \* admission[w][s]: the reservation map of worker w
    sess            \* sess[w][s]: the session object of s on worker w

NotFound == "not_found"     \* an error whose text contains "not found"
Failed   == "failed"        \* any other error

IdleTask == [pc |-> "idle", op |-> "none", s |-> NoHost, w |-> NoHost, err |-> Nil, waited |-> FALSE]

\* stored: in the session store; vm: its VM runs; conn: VsockConn is open;
\* files: the pause snapshot is on disk; pooled: the VM came from the warm pool.
NoSess == [stored |-> FALSE, state |-> "absent", vm |-> FALSE, conn |-> FALSE,
           files |-> FALSE, pooled |-> FALSE, lock |-> NoTask]

TaskOps == {"create", "pause", "resume", "delete", "exec", "reap_pause", "reap_destroy"}

TaskPcs ==
    {"idle", "done",
     "c_admit", "c_acquire", "c_add", "c_connect", "c_release",
     "p_get", "p_lock", "p_snap", "p_teardown", "p_commit", "p_mark", "p_report", "p_end",
     "r_admit", "r_get", "r_lock", "r_restore", "r_commit", "r_mark", "r_report", "r_recheck", "r_fail",
     "e_ensure", "e_get", "e_lock", "e_run",
     "d_delete", "d_teardown", "d_mark", "d_report", "d_release"}

WorkerTypeOK ==
    /\ sandboxes \in [Sandboxes -> Rows]
    /\ task \in [Tasks -> [pc : TaskPcs, op : TaskOps \cup {"none"}, s : Sandboxes \cup {NoHost},
                             w : Workers \cup {NoHost}, err : {Nil, NotFound, NoCapacity, Failed},
                             waited : BOOLEAN]]
    /\ admission \in [Workers -> [Sandboxes -> {"none", "active", "paused"}]]
    /\ sess \in [Workers -> [Sandboxes ->
                    [stored : BOOLEAN, state : {"absent", "active", "paused"}, vm : BOOLEAN,
                     conn : BOOLEAN, files : BOOLEAN, pooled : BOOLEAN, lock : Tasks \cup {NoTask}]]]

WorkerInit ==
    /\ sandboxes = [s \in Sandboxes |-> NoRow]
    /\ task = [t \in Tasks |-> IdleTask]
    /\ admission = [w \in Workers |-> [s \in Sandboxes |-> "none"]]
    /\ sess = [w \in Workers |-> [s \in Sandboxes |-> NoSess]]

-----------------------------------------------------------------------------
\* Abbreviations for the step of one task.

Sess(t) == sess[task[t].w][task[t].s]
Row(t)  == sandboxes[task[t].s]
Adm(t)  == admission[task[t].w][task[t].s]

SetSess(t, x) == sess' = [sess EXCEPT ![task[t].w][task[t].s] = x]
SetAdm(t, x)  == admission' = [admission EXCEPT ![task[t].w][task[t].s] = x]
SetRow(t, x)  == sandboxes' = [sandboxes EXCEPT ![task[t].s] = x]

Go(t, pc)         == task' = [task EXCEPT ![t].pc = pc]
GoErr(t, pc, err) == task' = [task EXCEPT ![t].pc = pc, ![t].err = err]

\* The handler returns: its caller gets err if it still waits for it.
Finish(t, err) ==
    task' = [task EXCEPT ![t] = IF @.waited /\ t[2] # "reaper"
                                THEN [@ EXCEPT !.pc = "done", !.err = err] ELSE IdleTask]

\* A step that takes the task's context may fail when the caller is gone.
MayFail(t, fault) == fault \in Faults \/ ~task[t].waited

\* The error a state report returns to the task: ErrSandboxNotFound is the one
\* whose text contains "not found".
ReportErr(err) == CASE err = Nil -> Nil [] err = SandboxNotFound -> NotFound [] OTHER -> Failed

\* admission.go, on one entry of the map.
MarkPaused(a) == IF a = "none" THEN a ELSE "paused"
MarkActive(a) == IF a = "none" THEN a ELSE "active"

Reserved(w) == {s \in Sandboxes : admission[w][s] # "none"}
Running(w)  == {s \in Sandboxes : admission[w][s] = "active"}
Stored(w)   == {s \in Sandboxes : sess[w][s].stored}
-----------------------------------------------------------------------------
(***************************************************************************)
(* POST /worker/sandbox.  admission.ReserveCreate, then CreateWithID:      *)
(* acquire a VM, add the session to the store, connect to its agent.       *)
(***************************************************************************)
\* Mutant: the number of sandboxes is not compared with its limit.
CreateAdmitNoSlotLimit(t) ==
    /\ task[t].pc = "c_admit"
    /\ LET fits == Cardinality(Running(task[t].w)) < Compute
       IN  \/ Adm(t) # "none" /\ Go(t, "c_acquire") /\ UNCHANGED admission
           \/ Adm(t) = "none" /\ fits /\ SetAdm(t, "active") /\ Go(t, "c_acquire")
           \/ Adm(t) = "none" /\ ~fits /\ Finish(t, NoCapacity) /\ UNCHANGED admission
    /\ UNCHANGED <<sandboxes, sess>>

CreateAdmit(t) ==
    /\ task[t].pc = "c_admit"
    /\ LET w == task[t].w
           fits == /\ Cardinality(Reserved(w)) < MaxSandboxes
                   /\ Cardinality(Running(w)) < Compute
       IN  \/ Adm(t) # "none" /\ Go(t, "c_acquire") /\ UNCHANGED admission
           \/ Adm(t) = "none" /\ fits /\ SetAdm(t, "active") /\ Go(t, "c_acquire")
           \/ Adm(t) = "none" /\ ~fits /\ Finish(t, NoCapacity) /\ UNCHANGED admission
    /\ UNCHANGED <<sandboxes, sess>>

CreateAcquire(t) ==
    /\ task[t].pc = "c_acquire"
    /\ \/ SetSess(t, [Sess(t) EXCEPT !.vm = TRUE, !.pooled = TRUE]) /\ Go(t, "c_add")
       \/ MayFail(t, "boot") /\ Go(t, "c_release") /\ UNCHANGED sess
    /\ UNCHANGED <<sandboxes, admission>>

CreateAdd(t) ==
    /\ task[t].pc = "c_add"
    /\ IF Cardinality(Stored(task[t].w)) < MaxSandboxes
       THEN /\ SetSess(t, [Sess(t) EXCEPT !.stored = TRUE, !.state = "active"])
            /\ Go(t, "c_connect")
       ELSE SetSess(t, NoSess) /\ Go(t, "c_release")
    /\ UNCHANGED <<sandboxes, admission>>

CreateConnect(t) ==
    /\ task[t].pc = "c_connect"
    /\ \/ /\ Sess(t).vm
          /\ SetSess(t, [Sess(t) EXCEPT !.conn = TRUE])
          /\ Finish(t, Nil)
       \/ /\ "boot" \in Faults \/ ~Sess(t).vm
          /\ SetSess(t, [Sess(t) EXCEPT !.vm = FALSE, !.stored = FALSE])
          /\ Go(t, "c_release")
    /\ UNCHANGED <<sandboxes, admission>>

CreateRelease(t) ==
    /\ task[t].pc = "c_release"
    /\ SetAdm(t, "none")
    /\ Finish(t, Failed)
    /\ UNCHANGED <<sandboxes, sess>>

-----------------------------------------------------------------------------
(***************************************************************************)
(* POST .../pause, and the reaper's pause of an idle session.  The session *)
(* lock is held from PauseLock until the report has been answered.         *)
(***************************************************************************)
PauseGet(t) ==
    /\ task[t].pc = "p_get"
    /\ IF Sess(t).stored THEN Go(t, "p_lock") ELSE Finish(t, NotFound)
    /\ UNCHANGED <<sandboxes, admission, sess>>

\* The reaper looks again under the lock and goes away when the session is no
\* longer active or has been used since; a call does not look at idleness.
PauseLock(t) ==
    /\ task[t].pc = "p_lock"
    /\ Sess(t).lock = NoTask
    /\ \/ /\ Sess(t).state = "active"
          /\ SetSess(t, [Sess(t) EXCEPT !.lock = t, !.conn = FALSE])
          /\ Go(t, "p_snap")
       \/ /\ Sess(t).state = "paused" /\ task[t].op # "reap_pause"
          /\ SetSess(t, [Sess(t) EXCEPT !.lock = t])
          /\ Go(t, "p_mark")
       \/ task[t].op = "reap_pause" /\ Finish(t, Nil) /\ UNCHANGED sess
       \/ /\ Sess(t).state = "active" /\ "snapshot" \in Faults    \* terminals, directory
          /\ Finish(t, Failed)
          /\ UNCHANGED sess
    /\ UNCHANGED <<sandboxes, admission>>

\* Mutant: the error return of a failed snapshot misses the unlock.
PauseSnapKeepsLock(t) ==
    /\ task[t].pc = "p_snap"
    /\ \/ Sess(t).vm /\ Go(t, "p_teardown")
       \/ (~Sess(t).vm \/ "snapshot" \in Faults) /\ Finish(t, Failed)
    /\ UNCHANGED <<sandboxes, admission, sess>>

\* Snapshot, and the checkpoint upload.  A failed snapshot leaves the closed
\* connection closed; a failed upload resumes the VM and tries to reconnect.
PauseSnap(t) ==
    /\ task[t].pc = "p_snap"
    /\ \/ Sess(t).vm /\ Go(t, "p_teardown") /\ UNCHANGED sess
       \/ /\ ~Sess(t).vm
          /\ SetSess(t, [Sess(t) EXCEPT !.lock = NoTask])
          /\ Finish(t, NotFound)
       \/ /\ Sess(t).vm /\ "snapshot" \in Faults
          /\ SetSess(t, [Sess(t) EXCEPT !.lock = NoTask])
          /\ Finish(t, Failed)
       \/ /\ Sess(t).vm /\ Checkpoints /\ MayFail(t, "checkpoint")
          /\ \E conn \in BOOLEAN : SetSess(t, [Sess(t) EXCEPT !.lock = NoTask, !.conn = conn])
          /\ Finish(t, Failed)
    /\ UNCHANGED <<sandboxes, admission>>

PauseTeardown(t) ==
    /\ task[t].pc = "p_teardown"
    /\ SetSess(t, [Sess(t) EXCEPT !.vm = FALSE])
    /\ Go(t, "p_commit")
    /\ UNCHANGED <<sandboxes, admission>>

PauseCommit(t) ==
    /\ task[t].pc = "p_commit"
    /\ SetSess(t, [Sess(t) EXCEPT !.state = "paused", !.files = TRUE, !.pooled = FALSE])
    /\ Go(t, "p_mark")
    /\ UNCHANGED <<sandboxes, admission>>

PauseMark(t) ==
    /\ task[t].pc = "p_mark"
    /\ SetAdm(t, MarkPaused(Adm(t)))
    /\ Go(t, "p_report")
    /\ UNCHANGED <<sandboxes, sess>>

\* The report reaches the store, or the call is lost before or after it does.
PauseReport(t) ==
    /\ task[t].pc = "p_report"
    /\ \E arrives, answered \in IF "report" \in Faults THEN BOOLEAN ELSE {TRUE} :
          LET err == IF arrives /\ answered THEN ReportErr(PausePlacementErr(Row(t), task[t].w)) ELSE Failed
          IN  /\ SetRow(t, IF arrives THEN PausePlacementRow(Row(t), task[t].w) ELSE Row(t))
              /\ IF err = Nil /\ task[t].op = "pause" THEN Go(t, "p_end") ELSE Finish(t, err)
    /\ SetSess(t, [Sess(t) EXCEPT !.lock = NoTask])
    /\ UNCHANGED admission

PauseEnd(t) ==
    /\ task[t].pc = "p_end"
    /\ SetAdm(t, MarkPaused(Adm(t)))
    /\ Finish(t, Nil)
    /\ UNCHANGED <<sandboxes, sess>>

-----------------------------------------------------------------------------
(***************************************************************************)
(* POST .../resume, and the resume ensureActive makes for an exec or run   *)
(* call that finds its session paused: the latter enters at ResumeGet, so  *)
(* it reserves nothing, and goes on to the command when it succeeds.       *)
(***************************************************************************)
ResumeReturns(t, err) ==
    IF task[t].op = "exec"
    THEN IF err = Nil THEN Go(t, "e_get") ELSE Finish(t, err)
    ELSE IF err = Nil THEN Finish(t, Nil) ELSE GoErr(t, "r_fail", err)

ResumeAdmit(t) ==
    /\ task[t].pc = "r_admit"
    /\ LET fits == Cardinality(Running(task[t].w)) < Compute
       IN  \/ Adm(t) = "none" /\ Finish(t, Failed) /\ UNCHANGED admission
           \/ Adm(t) = "active" /\ Go(t, "r_get") /\ UNCHANGED admission
           \/ Adm(t) = "paused" /\ fits /\ SetAdm(t, "active") /\ Go(t, "r_get")
           \/ Adm(t) = "paused" /\ ~fits /\ Finish(t, NoCapacity) /\ UNCHANGED admission
    /\ UNCHANGED <<sandboxes, sess>>

ResumeGet(t) ==
    /\ task[t].pc = "r_get"
    /\ IF Sess(t).stored THEN Go(t, "r_lock") ELSE ResumeReturns(t, NotFound)
    /\ UNCHANGED <<sandboxes, admission, sess>>

\* Mutant: the session is restored without its lock.
ResumeLockSkipped(t) ==
    /\ task[t].pc = "r_lock"
    /\ Go(t, IF Sess(t).state = "active" THEN "r_mark" ELSE "r_restore")
    /\ UNCHANGED <<sandboxes, admission, sess>>

ResumeLock(t) ==
    /\ task[t].pc = "r_lock"
    /\ Sess(t).lock = NoTask
    /\ SetSess(t, [Sess(t) EXCEPT !.lock = t])
    /\ Go(t, IF Sess(t).state = "active" THEN "r_mark" ELSE "r_restore")
    /\ UNCHANGED <<sandboxes, admission>>

\* Local snapshot files, or the durable checkpoint when they are missing.  A
\* restore that fails at any stage tears its VM down again.
ResumeRestore(t) ==
    /\ task[t].pc = "r_restore"
    /\ \/ /\ Sess(t).files \/ Checkpoints
          /\ SetSess(t, [Sess(t) EXCEPT !.vm = TRUE])
          /\ Go(t, "r_commit")
       \/ /\ MayFail(t, "restore") \/ ~(Sess(t).files \/ Checkpoints)
          /\ SetSess(t, [Sess(t) EXCEPT !.lock = NoTask])
          /\ ResumeReturns(t, Failed)
    /\ UNCHANGED <<sandboxes, admission>>

ResumeCommit(t) ==
    /\ task[t].pc = "r_commit"
    /\ SetSess(t, [Sess(t) EXCEPT !.state = "active", !.conn = TRUE, !.files = FALSE])
    /\ Go(t, "r_mark")
    /\ UNCHANGED <<sandboxes, admission>>

ResumeMark(t) ==
    /\ task[t].pc = "r_mark"
    /\ SetAdm(t, MarkActive(Adm(t)))
    /\ Go(t, "r_report")
    /\ UNCHANGED <<sandboxes, sess>>

\* UpdatePlacementState is an UPDATE and, when it matched no row, a later read.
ResumeReport(t) ==
    /\ task[t].pc = "r_report"
    /\ LET w == task[t].w
           row == UpdatePlacementStateRow(Row(t), w, {"resuming", "provisioning"}, "active")
           free == SetSess(t, [Sess(t) EXCEPT !.lock = NoTask])
       IN  \/ row # Row(t) /\ SetRow(t, row) /\ free /\ ResumeReturns(t, Nil)
           \/ row = Row(t) /\ Go(t, "r_recheck") /\ UNCHANGED <<sandboxes, sess>>
           \/ /\ "report" \in Faults
              /\ \E arrived \in {row, Row(t)} : SetRow(t, arrived)
              /\ free /\ ResumeReturns(t, Failed)
    /\ UNCHANGED admission

ResumeRecheck(t) ==
    /\ task[t].pc = "r_recheck"
    /\ SetSess(t, [Sess(t) EXCEPT !.lock = NoTask])
    /\ ResumeReturns(t, ReportErr(UpdatePlacementStateErr(Row(t), task[t].w, {}, "active")))
    /\ UNCHANGED <<sandboxes, admission>>

\* The server takes a failed resume to have left the session paused.
ResumeFail(t) ==
    /\ task[t].pc = "r_fail"
    /\ SetAdm(t, MarkPaused(Adm(t)))
    /\ Finish(t, task[t].err)
    /\ UNCHANGED <<sandboxes, sess>>

-----------------------------------------------------------------------------
(***************************************************************************)
(* POST .../exec and .../run.                                              *)
(***************************************************************************)
ExecEnsureActive(t) ==
    /\ task[t].pc = "e_ensure"
    /\ CASE ~Sess(t).stored -> Finish(t, NotFound)
         [] Sess(t).stored /\ Sess(t).state = "paused" -> Go(t, "r_get")
         [] OTHER -> Go(t, "e_get")
    /\ UNCHANGED <<sandboxes, admission, sess>>

ExecGet(t) ==
    /\ task[t].pc = "e_get"
    /\ IF Sess(t).stored THEN Go(t, "e_lock") ELSE Finish(t, NotFound)
    /\ UNCHANGED <<sandboxes, admission, sess>>

ExecLock(t) ==
    /\ task[t].pc = "e_lock"
    /\ Sess(t).lock = NoTask
    /\ SetSess(t, [Sess(t) EXCEPT !.lock = t])
    /\ Go(t, "e_run")
    /\ UNCHANGED <<sandboxes, admission>>

\* Without a VM or a connection (sess.VM, sess.VsockConn are nil) the handler
\* panics; net/http recovers it and the caller sees the connection drop.
ExecRun(t) ==
    /\ task[t].pc = "e_run"
    /\ SetSess(t, [Sess(t) EXCEPT !.lock = NoTask])
    /\ Finish(t, IF Sess(t).vm /\ Sess(t).conn THEN Nil ELSE Failed)
    /\ UNCHANGED <<sandboxes, admission>>

-----------------------------------------------------------------------------
(***************************************************************************)
(* DELETE /worker/sandbox/{id}, and the reaper's destroy.  Destroy takes   *)
(* no session lock: it looks at the state of the object it has removed.    *)
(***************************************************************************)
DeleteReturns(t, err) ==
    IF task[t].op = "delete" /\ err \in {Nil, NotFound} THEN GoErr(t, "d_release", err) ELSE Finish(t, err)

DeleteStored(t) ==
    /\ task[t].pc = "d_delete"
    /\ IF Sess(t).stored
       THEN SetSess(t, [Sess(t) EXCEPT !.stored = FALSE]) /\ Go(t, "d_teardown")
       ELSE DeleteReturns(t, NotFound) /\ UNCHANGED sess
    /\ UNCHANGED <<sandboxes, admission>>

\* Mutant: only a pooled VM is torn down, not one that a resume restored.
DeleteTeardownPooledOnly(t) ==
    /\ task[t].pc = "d_teardown"
    /\ \/ /\ Sess(t).state = "paused"
          /\ SetSess(t, [Sess(t) EXCEPT !.files = FALSE])
       \/ /\ Sess(t).state = "active"
          /\ SetSess(t, [Sess(t) EXCEPT !.conn = FALSE, !.vm = @ /\ ~Sess(t).pooled])
    /\ Go(t, "d_mark")
    /\ UNCHANGED <<sandboxes, admission>>

\* A paused session loses its files.  A pooled VM goes back to its pool whatever
\* its state; any other VM that is already gone is an error ("VM ... not found").
DeleteTeardown(t) ==
    /\ task[t].pc = "d_teardown"
    /\ \/ /\ Sess(t).state = "paused"
          /\ SetSess(t, [Sess(t) EXCEPT !.files = FALSE])
          /\ Go(t, "d_mark")
       \/ /\ Sess(t).state = "active"
          /\ SetSess(t, [Sess(t) EXCEPT !.conn = FALSE, !.vm = FALSE])
          /\ IF Sess(t).pooled \/ Sess(t).vm THEN Go(t, "d_mark") ELSE DeleteReturns(t, NotFound)
    /\ UNCHANGED <<sandboxes, admission>>

DeleteMark(t) ==
    /\ task[t].pc = "d_mark"
    /\ SetAdm(t, "none")
    /\ Go(t, "d_report")
    /\ UNCHANGED <<sandboxes, sess>>

DeleteReport(t) ==
    /\ task[t].pc = "d_report"
    /\ \E arrives, answered \in IF "report" \in Faults THEN BOOLEAN ELSE {TRUE} :
          /\ SetRow(t, IF arrives THEN ReleasePlacementRow(Row(t), task[t].w, "destroyed") ELSE Row(t))
          /\ DeleteReturns(t, IF arrives /\ answered
                              THEN ReportErr(ReleasePlacementErr(Row(t), task[t].w, "destroyed"))
                              ELSE Failed)
    /\ UNCHANGED <<admission, sess>>

DeleteRelease(t) ==
    /\ task[t].pc = "d_release"
    /\ SetAdm(t, "none")
    /\ Finish(t, task[t].err)
    /\ UNCHANGED <<sandboxes, sess>>

-----------------------------------------------------------------------------
TaskStep(t) ==
    \/ CreateAdmit(t) \/ CreateAcquire(t) \/ CreateAdd(t) \/ CreateConnect(t) \/ CreateRelease(t)
    \/ PauseGet(t) \/ PauseLock(t) \/ PauseSnap(t) \/ PauseTeardown(t)
    \/ PauseCommit(t) \/ PauseMark(t) \/ PauseReport(t) \/ PauseEnd(t)
    \/ ResumeAdmit(t) \/ ResumeGet(t) \/ ResumeLock(t) \/ ResumeRestore(t) \/ ResumeCommit(t)
    \/ ResumeMark(t) \/ ResumeReport(t) \/ ResumeRecheck(t) \/ ResumeFail(t)
    \/ ExecEnsureActive(t) \/ ExecGet(t) \/ ExecLock(t) \/ ExecRun(t)
    \/ DeleteStored(t) \/ DeleteTeardown(t) \/ DeleteMark(t) \/ DeleteReport(t) \/ DeleteRelease(t)

FirstPc(op) ==
    CASE op = "create" -> "c_admit"
      [] op \in {"pause", "reap_pause"} -> "p_get"
      [] op = "resume" -> "r_admit"
      [] op = "exec" -> "e_ensure"
      [] op \in {"delete", "reap_destroy"} -> "d_delete"

\* A call of op for s arrives at w.
Called(op, w, s) == [pc |-> FirstPc(op), op |-> op, s |-> s, w |-> w, err |-> Nil, waited |-> TRUE]

\* reapOnce, on one session: reapActionFor reads it under the session lock and
\* the action runs after the lock is released.  Time is abstracted to what may
\* be due: an active session its idle pause, any session its destruction
\* (maximum lifetime, or paused longer than pauseTTL).
Reap(w, s) ==
    /\ task[<<w, "reaper">>].pc = "idle"
    /\ sess[w][s].stored /\ sess[w][s].lock = NoTask
    /\ \/ /\ "pause" \in Reaps /\ sess[w][s].state = "active"
          /\ task' = [task EXCEPT ![<<w, "reaper">>] = Called("reap_pause", w, s)]
       \/ /\ "destroy" \in Reaps
          /\ task' = [task EXCEPT ![<<w, "reaper">>] = Called("reap_destroy", w, s)]
    /\ UNCHANGED <<sandboxes, admission, sess>>

\* The worker process dies and starts again: VMs and goroutines are gone, callers
\* see their connections drop, the sessions of the manifest come back paused
\* (recoverPaused) and their reservations are restored (cmd/worker/main.go).
Crash(w) ==
    /\ "crash" \in Faults
    /\ sess' = [sess EXCEPT ![w] = [s \in Sandboxes |->
                  IF @[s].stored /\ @[s].state = "paused"
                  THEN [NoSess EXCEPT !.stored = TRUE, !.state = "paused", !.files = sess[w][s].files]
                  ELSE NoSess]]
    /\ admission' = [admission EXCEPT ![w] = [s \in Sandboxes |->
                  IF sess[w][s].stored /\ sess[w][s].state = "paused" THEN "paused" ELSE "none"]]
    /\ task' = [t \in Tasks |->
                  IF task[t].w # w \/ task[t].pc \in {"idle", "done"} THEN task[t]
                  ELSE IF task[t].waited /\ t[2] # "reaper"
                       THEN [task[t] EXCEPT !.pc = "done", !.err = Failed] ELSE IdleTask]
    /\ UNCHANGED sandboxes
=============================================================================
