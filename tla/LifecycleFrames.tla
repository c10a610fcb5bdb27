--------------------------- MODULE LifecycleFrames ---------------------------
(***************************************************************************)
(* Lifecycle, one step at a time.  A step of a task or of a request is     *)
(* reduced to its frame: the one entry of each map it may change, and how  *)
(* far the task or the request has moved.  The invariants proved in        *)
(* LifecycleProofs and SandboxProofs look at frames, not at the fifty      *)
(* actions behind them.                                                    *)
(***************************************************************************)
EXTENDS Lifecycle, TLAPS


TaskErrs == {Nil, NotFound, NoCapacity, Failed}
TaskRec == [pc : TaskPcs, op : TaskOps \cup {"none"}, s : Sandboxes \cup {NoHost},
            w : Workers \cup {NoHost}, err : TaskErrs, waited : BOOLEAN]
SessRec == [stored : BOOLEAN, state : {"absent", "active", "paused"}, vm : BOOLEAN,
            conn : BOOLEAN, files : BOOLEAN, pooled : BOOLEAN, lock : Tasks \cup {NoTask}]
AdmRec == {"none", "active", "paused"}
ReqRec == [pc : ReqPcs, op : AllOps \cup {"none"}, s : Sandboxes \cup {NoHost},
           w : Workers \cup {NoHost}, excluded : SUBSET Workers, live : BOOLEAN]

Types ==
    /\ sandboxes \in [Sandboxes -> Rows]
    /\ task \in [Tasks -> TaskRec]
    /\ admission \in [Workers -> [Sandboxes -> AdmRec]]
    /\ sess \in [Workers -> [Sandboxes -> SessRec]]
    /\ worker_hosts \in [Workers -> HostRows]
    /\ req \in [Requests -> ReqRec]

\* A row names a host only in a placed state.
RowOK(row) == row \in Rows /\ (row.host # NoHost => row.state \in PlacedStates)

\* The points that a task of each operation passes.
Runs(op, pc) ==
    \/ op = "create" /\ pc \in {"c_admit", "c_acquire", "c_add", "c_connect", "c_release"}
    \/ op \in {"pause", "reap_pause"} /\ pc \in {"p_get", "p_lock", "p_snap", "p_teardown", "p_commit",
                                                 "p_mark", "p_report", "p_end"}
    \/ op \in {"resume", "exec"} /\ pc \in {"r_get", "r_lock", "r_restore", "r_commit", "r_mark",
                                            "r_report", "r_recheck"}
    \/ op = "resume" /\ pc \in {"r_admit", "r_fail"}
    \/ op = "exec" /\ pc \in {"e_ensure", "e_get", "e_lock", "e_run"}
    \/ op \in {"delete", "reap_destroy"} /\ pc \in {"d_delete", "d_teardown", "d_mark", "d_report", "d_release"}

\* The operations that the tasks of a request and the reaper run.
RunBy(role, op) ==
    \/ role = "main" /\ op \in {"create", "pause", "resume", "delete", "exec"}
    \/ role = "cleanup" /\ op \in {"delete", "pause"}
    \/ role = "reaper" /\ op \in {"reap_pause", "reap_destroy"}

TaskOK(t, k) ==
    /\ k.pc = "idle" => k = IdleTask
    /\ k.pc # "idle" => /\ k.s \in Sandboxes /\ k.w \in Workers /\ RunBy(t[2], k.op)
                        /\ Runs(k.op, k.pc) \/ (k.pc = "done" /\ k.waited)

\* The points that a request of each operation passes.
Passes(op, pc) ==
    \/ pc \in {"call", "wait"} /\ op \in AllOps
    \/ op = "provision" /\ pc \in {"place", "unscheduled", "reject", "fail"}
    \/ op \in {"provision", "resume"} /\ pc \in {"clean", "clean_wait", "activate"}
    \/ op \in {"pause", "resume", "destroy", "exec"} /\ pc = "get"
    \/ op = "pause" /\ pc = "paused"
    \/ op = "resume" /\ pc \in {"reserve", "cancel"}
    \/ op = "destroy" /\ pc \in {"destroying", "recheck", "release"}

Unplaced == {"place", "unscheduled", "get", "release"}

ReqOK(q) ==
    /\ q.pc = "idle" => q = IdleReq
    /\ q.pc # "idle" => /\ q.s \in Sandboxes /\ Passes(q.op, q.pc)
                        /\ q.pc \notin Unplaced => q.w \in Workers

\* The control of the services.  TypeOK alone is not inductive: a task that
\* forgot which sandbox it works on would write anywhere.
ControlInv ==
    /\ Types
    /\ \A s \in Sandboxes : RowOK(sandboxes[s])
    /\ \A t \in Tasks : TaskOK(t, task[t])
    /\ \A r \in Requests : ReqOK(req[r])

\* Types is TypeOK with names for the records.
LEMMA TypesIsTypeOK == Types <=> TypeOK
BY DEF Types, TypeOK, WorkerTypeOK, TaskRec, SessRec, AdmRec, ReqRec, TaskErrs

-----------------------------------------------------------------------------
(* Tasks. *)

\* The names of the tasks.
LEMMA TaskNames ==
    /\ \A r \in Requests : /\ Main(r) \in Tasks /\ Main(r)[1] = r /\ Main(r)[2] = "main"
                           /\ Cleanup(r) \in Tasks /\ Cleanup(r)[1] = r /\ Cleanup(r)[2] = "cleanup"
                           /\ Main(r) # Cleanup(r)
    /\ \A w \in Workers : <<w, "reaper">> \in Tasks /\ <<w, "reaper">>[1] = w /\ <<w, "reaper">>[2] = "reaper"
    /\ \A t \in Tasks : /\ t[2] = "main" => t[1] \in Requests /\ t = Main(t[1])
                        /\ t[2] = "cleanup" => t[1] \in Requests /\ t = Cleanup(t[1])
                        /\ t[2] \in {"main", "cleanup", "reaper"}
    /\ \A q, r \in Requests : Main(q) = Main(r) => q = r
BY DEF Tasks, Main, Cleanup

\* An idle task is a task; so is a call that just arrived.
LEMMA IdleTaskType == IdleTask \in TaskRec /\ IdleTask.pc = "idle" /\ IdleTask.op = "none" /\ IdleTask.s = NoHost /\ IdleTask.waited = FALSE
BY DEF IdleTask, TaskRec, TaskPcs, TaskErrs

\* A call runs the operation it asks for, from its first point.
LEMMA CalledOK ==
    ASSUME NEW op \in TaskOps, NEW w \in Workers, NEW s \in Sandboxes, NEW t, RunBy(t[2], op)
    PROVE  LET k == Called(op, w, s)
           IN  /\ k \in TaskRec /\ TaskOK(t, k)
               /\ k.op = op /\ k.s = s /\ k.w = w /\ k.waited /\ k.pc = FirstPc(op) /\ k.pc # "idle"
<1>1. FirstPc(op) \in TaskPcs /\ Runs(op, FirstPc(op)) /\ FirstPc(op) # "idle"
  <2>1. \/ op = "create" /\ FirstPc(op) = "c_admit"
        \/ op \in {"pause", "reap_pause"} /\ FirstPc(op) = "p_get"
        \/ op = "resume" /\ FirstPc(op) = "r_admit"
        \/ op = "exec" /\ FirstPc(op) = "e_ensure"
        \/ op \in {"delete", "reap_destroy"} /\ FirstPc(op) = "d_delete"
    BY Zenon DEF FirstPc, TaskOps
  <2> QED BY <2>1 DEF TaskPcs, Runs
<1> DEFINE k == Called(op, w, s)
<1>2. k \in TaskRec
  BY <1>1 DEF Called, TaskRec, TaskErrs
<1>3. k.op = op /\ k.s = s /\ k.w = w /\ k.waited /\ k.pc = FirstPc(op)
  BY DEF Called
<1> QED BY <1>1, <1>2, <1>3 DEF TaskOK

\* What one step of t does to the tasks: it moves t along its operation, or t
\* ends, with an answer if it is waited for.
Continues(t, pc) ==
    /\ task'[t].pc = pc /\ task'[t].op = task[t].op /\ task'[t].s = task[t].s
    /\ task'[t].w = task[t].w /\ task'[t].waited = task[t].waited

Awaited(t) == task[t].waited /\ t[2] # "reaper"

Ends(t) == IF Awaited(t) THEN Continues(t, "done") ELSE task'[t] = IdleTask

TaskPart(t) ==
    /\ task' \in [Tasks -> TaskRec]
    /\ \A u \in Tasks \ {t} : task'[u] = task[u]

SessPart(t, x) ==
    /\ sess' \in [Workers -> [Sandboxes -> SessRec]]
    /\ sess'[task[t].w][task[t].s] = x
    /\ \A v \in Workers, z \in Sandboxes : v # task[t].w \/ z # task[t].s => sess'[v][z] = sess[v][z]

AdmPart(t, a) ==
    /\ admission' \in [Workers -> [Sandboxes -> AdmRec]]
    /\ admission'[task[t].w][task[t].s] = a
    /\ \A v \in Workers, z \in Sandboxes :
           v # task[t].w \/ z # task[t].s => admission'[v][z] = admission[v][z]

RowPart(t, q) ==
    /\ sandboxes' \in [Sandboxes -> Rows]
    /\ sandboxes'[task[t].s] = q
    /\ \A z \in Sandboxes \ {task[t].s} : sandboxes'[z] = sandboxes[z]

\* A task that works on a sandbox of a worker.
Busy(t) == t \in Tasks /\ Types /\ TaskOK(t, task[t]) /\ task[t].pc \notin {"idle", "done"}

\* The task goes on.
LEMMA GoMoves ==
    ASSUME NEW t \in Tasks, Types, NEW pc \in TaskPcs, Go(t, pc)
    PROVE  TaskPart(t) /\ Continues(t, pc) /\ task'[t].err = task[t].err
<1> DEFINE k == [task[t] EXCEPT !.pc = pc]
<1>1. task[t] \in TaskRec /\ task' = [task EXCEPT ![t] = k]
  BY DEF Types, Go
<1>2. k \in TaskRec /\ k.pc = pc /\ k.op = task[t].op /\ k.s = task[t].s /\ k.w = task[t].w
      /\ k.waited = task[t].waited /\ k.err = task[t].err
  BY <1>1 DEF TaskRec
<1> QED
  <2> HIDE DEF k
  <2> QED BY <1>1, <1>2 DEF Types, TaskPart, Continues

\* The task goes on with an error to return.
LEMMA GoErrMoves ==
    ASSUME NEW t \in Tasks, Types, NEW pc \in TaskPcs, NEW err \in TaskErrs, GoErr(t, pc, err)
    PROVE  TaskPart(t) /\ Continues(t, pc) /\ task'[t].err = err
<1> DEFINE k == [task[t] EXCEPT !.pc = pc, !.err = err]
<1>1. task[t] \in TaskRec /\ task' = [task EXCEPT ![t] = k]
  BY DEF Types, GoErr
<1>2. k \in TaskRec /\ k.pc = pc /\ k.op = task[t].op /\ k.s = task[t].s /\ k.w = task[t].w
      /\ k.waited = task[t].waited /\ k.err = err
  BY <1>1 DEF TaskRec
<1> QED
  <2> HIDE DEF k
  <2> QED BY <1>1, <1>2 DEF Types, TaskPart, Continues

\* The handler returns.
LEMMA FinishMoves ==
    ASSUME NEW t \in Tasks, Types, NEW err \in TaskErrs, Finish(t, err)
    PROVE  TaskPart(t) /\ Ends(t) /\ (Awaited(t) => task'[t].err = err)
<1> DEFINE k == IF task[t].waited /\ t[2] # "reaper"
                THEN [task[t] EXCEPT !.pc = "done", !.err = err] ELSE IdleTask
<1>1. task' = [task EXCEPT ![t] = k]
  BY DEF Finish
<1>2. task[t] \in TaskRec
  BY DEF Types
<1>3. k \in TaskRec
  <2>1. [task[t] EXCEPT !.pc = "done", !.err = err] \in TaskRec
    BY <1>2 DEF TaskRec, TaskPcs
  <2> QED BY <2>1, IdleTaskType
<1>4. /\ ~Awaited(t) => k = IdleTask
      /\ Awaited(t) => /\ k.pc = "done" /\ k.err = err /\ k.op = task[t].op /\ k.s = task[t].s
                       /\ k.w = task[t].w /\ k.waited = task[t].waited
  BY <1>2 DEF TaskRec, Awaited
<1>5. task'[t] = k /\ TaskPart(t)
  <2> HIDE DEF k
  <2> QED BY <1>1, <1>3 DEF Types, TaskPart
<1> QED
  <2> HIDE DEF k
  <2> QED BY <1>4, <1>5 DEF Ends, Continues

\* A task that works is on a sandbox of a worker and has its records.
LEMMA BusyTask ==
    ASSUME NEW t, Busy(t)
    PROVE  /\ task[t].w \in Workers /\ task[t].s \in Sandboxes /\ Runs(task[t].op, task[t].pc)
           /\ RunBy(t[2], task[t].op) /\ task[t] \in TaskRec
           /\ Sess(t) \in SessRec /\ Adm(t) \in AdmRec /\ Row(t) \in Rows
<1>1. task[t].w \in Workers /\ task[t].s \in Sandboxes /\ Runs(task[t].op, task[t].pc) /\ RunBy(t[2], task[t].op)
  BY DEF Busy, TaskOK
<1> QED BY <1>1 DEF Busy, Types, Sess, Adm, Row

\* The entry of the session, of the reservation and of the row that t works on
\* is the only one a step of t writes.
LEMMA SessMoves ==
    ASSUME NEW t, Busy(t), NEW x \in SessRec, SetSess(t, x)
    PROVE  SessPart(t, x)
BY BusyTask DEF Busy, Types, SetSess, SessPart

LEMMA SessStays == ASSUME NEW t, Busy(t), UNCHANGED sess PROVE SessPart(t, Sess(t))
BY BusyTask DEF Busy, Types, SessPart, Sess

LEMMA AdmMoves ==
    ASSUME NEW t, Busy(t), NEW a \in AdmRec, SetAdm(t, a)
    PROVE  AdmPart(t, a)
BY BusyTask DEF Busy, Types, SetAdm, AdmPart

LEMMA AdmStays == ASSUME NEW t, Busy(t), UNCHANGED admission PROVE AdmPart(t, Adm(t))
BY BusyTask DEF Busy, Types, AdmPart, Adm

LEMMA RowMoves ==
    ASSUME NEW t, Busy(t), NEW q \in Rows, SetRow(t, q)
    PROVE  RowPart(t, q)
BY BusyTask DEF Busy, Types, SetRow, RowPart

LEMMA RowStays == ASSUME NEW t, Busy(t), UNCHANGED sandboxes PROVE RowPart(t, Row(t))
BY BusyTask DEF Busy, Types, RowPart, Row

-----------------------------------------------------------------------------
(* What each task does. *)

\* The step of t stays within its entries and moves t along its operation.
Frame(t) ==
    /\ TaskPart(t)
    /\ Ends(t) \/ \E pc \in TaskPcs : Runs(task[t].op, pc) /\ Continues(t, pc)
    /\ SessPart(t, sess'[task[t].w][task[t].s])
    /\ AdmPart(t, admission'[task[t].w][task[t].s])
    /\ RowPart(t, sandboxes'[task[t].s])

\* What a report returns is an error of a task.
LEMMA ReportErrType == \A err : ReportErr(err) \in {Nil, NotFound, Failed}
BY Zenon DEF ReportErr

LEMMA ErrTypes == {Nil, NotFound, NoCapacity, Failed} = TaskErrs /\ Failed # NoCapacity /\ NotFound # NoCapacity /\ Nil # NoCapacity
                  /\ Nil # Failed /\ Nil # NotFound
BY DEF TaskErrs, Nil, NotFound, NoCapacity, Failed

\* A session that loses or gains a VM, a connection, its files or its lock is
\* a session.
LEMMA SessUpdates ==
    ASSUME NEW y \in SessRec, NEW t \in Tasks
    PROVE  /\ \A l \in {t, NoTask}, c \in BOOLEAN :
                  /\ [y EXCEPT !.lock = l] \in SessRec
                  /\ [y EXCEPT !.lock = l, !.conn = c] \in SessRec
           /\ \A b \in BOOLEAN :
                  /\ [y EXCEPT !.vm = b] \in SessRec
                  /\ [y EXCEPT !.conn = b] \in SessRec
                  /\ [y EXCEPT !.files = b] \in SessRec
                  /\ [y EXCEPT !.stored = b] \in SessRec
           /\ [y EXCEPT !.vm = TRUE, !.pooled = TRUE] \in SessRec
           /\ [y EXCEPT !.vm = FALSE, !.stored = FALSE] \in SessRec
           /\ [y EXCEPT !.conn = FALSE, !.vm = FALSE] \in SessRec
           /\ [y EXCEPT !.stored = TRUE, !.state = "active"] \in SessRec
           /\ [y EXCEPT !.state = "paused", !.files = TRUE, !.pooled = FALSE] \in SessRec
           /\ [y EXCEPT !.state = "active", !.conn = TRUE, !.files = FALSE] \in SessRec
           /\ NoSess \in SessRec
<1>1. ASSUME NEW l \in {t, NoTask}, NEW c \in BOOLEAN
      PROVE  [y EXCEPT !.lock = l] \in SessRec /\ [y EXCEPT !.lock = l, !.conn = c] \in SessRec
  BY DEF SessRec
<1>2. ASSUME NEW b \in BOOLEAN
      PROVE  [y EXCEPT !.vm = b] \in SessRec /\ [y EXCEPT !.conn = b] \in SessRec
  BY DEF SessRec
<1>3. ASSUME NEW b \in BOOLEAN
      PROVE  [y EXCEPT !.files = b] \in SessRec /\ [y EXCEPT !.stored = b] \in SessRec
  BY DEF SessRec
<1>4. [y EXCEPT !.vm = TRUE, !.pooled = TRUE] \in SessRec
  BY DEF SessRec
<1>5. [y EXCEPT !.vm = FALSE, !.stored = FALSE] \in SessRec
  BY DEF SessRec
<1>6. [y EXCEPT !.conn = FALSE, !.vm = FALSE] \in SessRec
  BY DEF SessRec
<1>7. [y EXCEPT !.stored = TRUE, !.state = "active"] \in SessRec
  BY DEF SessRec
<1>8. [y EXCEPT !.state = "paused", !.files = TRUE, !.pooled = FALSE] \in SessRec
  BY DEF SessRec
<1>9. [y EXCEPT !.state = "active", !.conn = TRUE, !.files = FALSE] \in SessRec
  BY DEF SessRec
<1>10. NoSess \in SessRec
  BY DEF SessRec, NoSess
<1> QED BY <1>1, <1>2, <1>3, <1>4, <1>5, <1>6, <1>7, <1>8, <1>9, <1>10

\* admission.go keeps the map's values.
LEMMA MarkType ==
    ASSUME NEW a \in AdmRec
    PROVE  /\ MarkPaused(a) \in AdmRec /\ MarkActive(a) \in AdmRec
           /\ MarkPaused(a) = "none" <=> a = "none"
           /\ MarkActive(a) = "none" <=> a = "none"
BY DEF AdmRec, MarkPaused, MarkActive

\* A step of a task works on a sandbox.
LEMMA StepIsBusy ==
    ASSUME NEW t \in Tasks, Types, TaskOK(t, task[t]), TaskStep(t)
    PROVE  Busy(t)
BY DEF Busy, TaskStep, CreateAdmit, CreateAcquire, CreateAdd, CreateConnect, CreateRelease,
       PauseGet, PauseLock, PauseSnap, PauseTeardown, PauseCommit, PauseMark, PauseReport, PauseEnd,
       ResumeAdmit, ResumeGet, ResumeLock, ResumeRestore, ResumeCommit, ResumeMark, ResumeReport,
       ResumeRecheck, ResumeFail, ExecEnsureActive, ExecGet, ExecLock, ExecRun,
       DeleteStored, DeleteTeardown, DeleteMark, DeleteReport, DeleteRelease

\* A step that writes at most the entries of t, and that moves t along its
\* operation, is within the frame.
LEMMA FrameFrom ==
    ASSUME NEW t, Busy(t),
           \E x \in SessRec : SetSess(t, x) \/ UNCHANGED sess,
           \E a \in AdmRec : SetAdm(t, a) \/ UNCHANGED admission,
           \E q \in Rows : SetRow(t, q) \/ UNCHANGED sandboxes,
           \/ \E err \in TaskErrs : Finish(t, err)
           \/ \E pc \in TaskPcs : Runs(task[t].op, pc) /\ (Go(t, pc) \/ \E err \in TaskErrs : GoErr(t, pc, err))
    PROVE  Frame(t)
<1>0. t \in Tasks /\ Types
  BY DEF Busy
<1>1. RowPart(t, sandboxes'[task[t].s])
  <2>1. \E q \in Rows : RowPart(t, q)
    BY RowStays, RowMoves, BusyTask
  <2> QED BY <2>1 DEF RowPart
<1>2. AdmPart(t, admission'[task[t].w][task[t].s])
  <2>1. \E a \in AdmRec : AdmPart(t, a)
    BY AdmStays, AdmMoves, BusyTask
  <2> QED BY <2>1 DEF AdmPart
<1>3. SessPart(t, sess'[task[t].w][task[t].s])
  <2>1. \E x \in SessRec : SessPart(t, x)
    BY SessStays, SessMoves, BusyTask
  <2> QED BY <2>1 DEF SessPart
<1>4. TaskPart(t) /\ (Ends(t) \/ \E pc \in TaskPcs : Runs(task[t].op, pc) /\ Continues(t, pc))
  <2>1. CASE \E err \in TaskErrs : Finish(t, err)
    BY <1>0, <2>1, FinishMoves
  <2>2. CASE \E pc \in TaskPcs : Runs(task[t].op, pc) /\ (Go(t, pc) \/ \E err \in TaskErrs : GoErr(t, pc, err))
    <3>1. PICK pc \in TaskPcs : Runs(task[t].op, pc) /\ (Go(t, pc) \/ \E err \in TaskErrs : GoErr(t, pc, err))
      BY <2>2
    <3>2. TaskPart(t) /\ Continues(t, pc)
      BY <1>0, <3>1, GoMoves, GoErrMoves
    <3> QED BY <3>1, <3>2
  <2> QED BY <2>1, <2>2
<1> QED BY <1>1, <1>2, <1>3, <1>4 DEF Frame

\* The values that admission takes.
LEMMA AdmValues == {"active", "none"} \subseteq AdmRec
BY DEF AdmRec

CreateStep(t) ==
    CreateAdmit(t) \/ CreateAcquire(t) \/ CreateAdd(t) \/ CreateConnect(t) \/ CreateRelease(t)

\* POST /worker/sandbox.
LEMMA CreateFrame == ASSUME NEW t, Busy(t), CreateStep(t) PROVE Frame(t) /\ UNCHANGED sandboxes
<1> DEFINE k == task[t]
<1>0. t \in Tasks /\ Row(t) \in Rows /\ Sess(t) \in SessRec /\ Adm(t) \in AdmRec /\ Runs(k.op, k.pc)
  BY BusyTask DEF Busy
<1>1. UNCHANGED sandboxes
  BY DEF CreateStep, CreateAdmit, CreateAcquire, CreateAdd, CreateConnect, CreateRelease
<1>2. \E a \in AdmRec : SetAdm(t, a) \/ UNCHANGED admission
  BY AdmValues DEF CreateStep, CreateAdmit, CreateAcquire, CreateAdd, CreateConnect, CreateRelease
<1>3. \/ UNCHANGED sess
      \/ SetSess(t, [Sess(t) EXCEPT !.vm = TRUE, !.pooled = TRUE])
      \/ SetSess(t, [Sess(t) EXCEPT !.stored = TRUE, !.state = "active"])
      \/ SetSess(t, NoSess)
      \/ SetSess(t, [Sess(t) EXCEPT !.conn = TRUE])
      \/ SetSess(t, [Sess(t) EXCEPT !.vm = FALSE, !.stored = FALSE])
  BY DEF CreateStep, CreateAdmit, CreateAcquire, CreateAdd, CreateConnect, CreateRelease
<1>4. \/ k.pc \in {"c_admit", "c_acquire", "c_add", "c_connect"} /\
           \E pc \in {"c_acquire", "c_add", "c_connect", "c_release"} : Go(t, pc)
      \/ \E err \in TaskErrs : Finish(t, err)
  BY ErrTypes DEF CreateStep, CreateAdmit, CreateAcquire, CreateAdd, CreateConnect, CreateRelease
<1>5. \E x \in SessRec : SetSess(t, x) \/ UNCHANGED sess
  BY <1>0, <1>3, SessUpdates
<1>6. \/ \E err \in TaskErrs : Finish(t, err)
      \/ \E pc \in TaskPcs : Runs(k.op, pc) /\ Go(t, pc)
  BY <1>0, <1>4 DEF Runs, TaskPcs
<1> QED BY <1>0, <1>1, <1>2, <1>5, <1>6, FrameFrom

PauseStep(t) ==
    PauseGet(t) \/ PauseLock(t) \/ PauseSnap(t) \/ PauseTeardown(t)
    \/ PauseCommit(t) \/ PauseMark(t) \/ PauseReport(t) \/ PauseEnd(t)

\* POST .../pause and the reaper's pause: only the report writes the row.
LEMMA PauseFrame ==
    ASSUME NEW t, Busy(t), PauseStep(t)
    PROVE  Frame(t) /\ (UNCHANGED sandboxes \/ SetRow(t, Row(t)) \/ SetRow(t, PausePlacementRow(Row(t), task[t].w)))
<1> DEFINE k == task[t]
<1>0. t \in Tasks /\ Row(t) \in Rows /\ Sess(t) \in SessRec /\ Adm(t) \in AdmRec /\ Runs(k.op, k.pc) /\ k.w \in Workers
  BY BusyTask DEF Busy
<1>1. UNCHANGED sandboxes \/ SetRow(t, Row(t)) \/ SetRow(t, PausePlacementRow(Row(t), task[t].w))
  BY DEF PauseStep, PauseGet, PauseLock, PauseSnap, PauseTeardown, PauseCommit, PauseMark, PauseReport, PauseEnd
<1>2. \E a \in AdmRec : SetAdm(t, a) \/ UNCHANGED admission
  BY <1>0, MarkType DEF PauseStep, PauseGet, PauseLock, PauseSnap, PauseTeardown, PauseCommit, PauseMark, PauseReport, PauseEnd
<1>3. \/ UNCHANGED sess
      \/ \E l \in {t, NoTask}, c \in BOOLEAN : SetSess(t, [Sess(t) EXCEPT !.lock = l, !.conn = c])
      \/ \E l \in {t, NoTask} : SetSess(t, [Sess(t) EXCEPT !.lock = l])
      \/ SetSess(t, [Sess(t) EXCEPT !.vm = FALSE])
      \/ SetSess(t, [Sess(t) EXCEPT !.state = "paused", !.files = TRUE, !.pooled = FALSE])
  BY DEF PauseStep, PauseGet, PauseLock, PauseSnap, PauseTeardown, PauseCommit, PauseMark, PauseReport, PauseEnd
<1>4. \/ k.pc \in {"p_get", "p_lock", "p_snap", "p_teardown", "p_commit", "p_mark", "p_report"} /\
           \E pc \in {"p_lock", "p_snap", "p_teardown", "p_commit", "p_mark", "p_report", "p_end"} : Go(t, pc)
      \/ \E err \in TaskErrs : Finish(t, err)
  BY ErrTypes, ReportErrType DEF PauseStep, PauseGet, PauseLock, PauseSnap, PauseTeardown, PauseCommit, PauseMark, PauseReport, PauseEnd
<1>5. \E x \in SessRec : SetSess(t, x) \/ UNCHANGED sess
  BY <1>0, <1>3, SessUpdates
<1>6. \/ \E err \in TaskErrs : Finish(t, err)
      \/ \E pc \in TaskPcs : Runs(k.op, pc) /\ Go(t, pc)
  BY <1>0, <1>4 DEF Runs, TaskPcs
<1>7. \E q \in Rows : SetRow(t, q) \/ UNCHANGED sandboxes
  <2>1. PausePlacementRow(Row(t), task[t].w) \in Rows
    BY <1>0 DEF PausePlacementRow, Updated, Rows, RowStates, PlacedStates
  <2> QED BY <1>0, <1>1, <2>1
<1> QED BY <1>0, <1>1, <1>2, <1>5, <1>6, <1>7, FrameFrom

ResumeStep(t) ==
    ResumeAdmit(t) \/ ResumeGet(t) \/ ResumeLock(t) \/ ResumeRestore(t) \/ ResumeCommit(t)
    \/ ResumeMark(t) \/ ResumeReport(t) \/ ResumeRecheck(t) \/ ResumeFail(t)

\* The row that a worker's "active" report writes.
ReportedActive(t) == UpdatePlacementStateRow(Row(t), task[t].w, {"resuming", "provisioning"}, "active")

\* A resume returns to its handler, or to the exec that needed it.
LEMMA ResumeReturnsMoves ==
    ASSUME NEW t, Busy(t), NEW err \in TaskErrs, task[t].op \in {"resume", "exec"}, ResumeReturns(t, err)
    PROVE  \/ \E e \in TaskErrs : Finish(t, e)
           \/ \E pc \in TaskPcs : Runs(task[t].op, pc) /\ (Go(t, pc) \/ \E e \in TaskErrs : GoErr(t, pc, e))
<1>1. {"e_get", "r_fail"} \subseteq TaskPcs /\ Nil \in TaskErrs
  BY DEF TaskPcs, TaskErrs
<1>2. Runs("exec", "e_get") /\ Runs("resume", "r_fail")
  BY DEF Runs
<1> QED BY <1>1, <1>2 DEF ResumeReturns

\* POST .../resume, and the resume of an exec.
LEMMA ResumeFrame ==
    ASSUME NEW t, Busy(t), ResumeStep(t)
    PROVE  Frame(t) /\ (UNCHANGED sandboxes \/ SetRow(t, Row(t)) \/ SetRow(t, ReportedActive(t)))
<1> DEFINE k == task[t]
<1>0. /\ t \in Tasks /\ Row(t) \in Rows /\ Sess(t) \in SessRec /\ Adm(t) \in AdmRec /\ Runs(k.op, k.pc)
      /\ k.w \in Workers /\ k.err \in TaskErrs
  BY BusyTask DEF Busy, TaskRec
<1>a. k.op \in {"resume", "exec"} /\ (k.pc \in {"r_admit", "r_fail"} => k.op = "resume")
  BY <1>0 DEF Runs, ResumeStep, ResumeAdmit, ResumeGet, ResumeLock, ResumeRestore, ResumeCommit, ResumeMark,
        ResumeReport, ResumeRecheck, ResumeFail
<1>1. UNCHANGED sandboxes \/ SetRow(t, Row(t)) \/ SetRow(t, ReportedActive(t))
  BY DEF ResumeStep, ResumeAdmit, ResumeGet, ResumeLock, ResumeRestore, ResumeCommit, ResumeMark,
        ResumeReport, ResumeRecheck, ResumeFail, ReportedActive
<1>2. \E a \in AdmRec : SetAdm(t, a) \/ UNCHANGED admission
  BY <1>0, MarkType, AdmValues DEF ResumeStep, ResumeAdmit, ResumeGet, ResumeLock, ResumeRestore, ResumeCommit,
        ResumeMark, ResumeReport, ResumeRecheck, ResumeFail
<1>3. \/ UNCHANGED sess
      \/ \E l \in {t, NoTask} : SetSess(t, [Sess(t) EXCEPT !.lock = l])
      \/ SetSess(t, [Sess(t) EXCEPT !.vm = TRUE])
      \/ SetSess(t, [Sess(t) EXCEPT !.state = "active", !.conn = TRUE, !.files = FALSE])
  BY DEF ResumeStep, ResumeAdmit, ResumeGet, ResumeLock, ResumeRestore, ResumeCommit, ResumeMark,
        ResumeReport, ResumeRecheck, ResumeFail
<1>4. \/ k.pc # "r_fail" /\ \E pc \in {"r_get", "r_lock", "r_restore", "r_commit", "r_mark", "r_report", "r_recheck"} : Go(t, pc)
      \/ \E err \in TaskErrs : Finish(t, err) \/ ResumeReturns(t, err)
  BY <1>0, ErrTypes, ReportErrType DEF ResumeStep, ResumeAdmit, ResumeGet, ResumeLock, ResumeRestore, ResumeCommit,
        ResumeMark, ResumeReport, ResumeRecheck, ResumeFail
<1>5. \E x \in SessRec : SetSess(t, x) \/ UNCHANGED sess
  BY <1>0, <1>3, SessUpdates
<1>6. \/ \E err \in TaskErrs : Finish(t, err)
      \/ \E pc \in TaskPcs : Runs(k.op, pc) /\ (Go(t, pc) \/ \E err \in TaskErrs : GoErr(t, pc, err))
  <2>1. ASSUME NEW pc \in {"r_get", "r_lock", "r_restore", "r_commit", "r_mark", "r_report", "r_recheck"}
        PROVE  pc \in TaskPcs /\ Runs(k.op, pc)
    BY <1>a DEF Runs, TaskPcs
  <2> QED BY <1>a, <1>4, <2>1, ResumeReturnsMoves
<1>7. \E q \in Rows : SetRow(t, q) \/ UNCHANGED sandboxes
  <2>1. ReportedActive(t) \in Rows
    BY <1>0 DEF ReportedActive, UpdatePlacementStateRow, Updated, Rows, RowStates, PlacedStates
  <2> QED BY <1>0, <1>1, <2>1
<1> QED BY <1>0, <1>1, <1>2, <1>5, <1>6, <1>7, FrameFrom

ExecStep(t) == ExecEnsureActive(t) \/ ExecGet(t) \/ ExecLock(t) \/ ExecRun(t)

\* POST .../exec and .../run.
LEMMA ExecFrame == ASSUME NEW t, Busy(t), ExecStep(t) PROVE Frame(t) /\ UNCHANGED sandboxes
<1> DEFINE k == task[t]
<1>0. /\ t \in Tasks /\ Row(t) \in Rows /\ Sess(t) \in SessRec /\ Adm(t) \in AdmRec /\ Runs(k.op, k.pc)
  BY BusyTask DEF Busy
<1>1. UNCHANGED <<sandboxes, admission>>
  BY DEF ExecStep, ExecEnsureActive, ExecGet, ExecLock, ExecRun
<1>2. UNCHANGED sess \/ \E l \in {t, NoTask} : SetSess(t, [Sess(t) EXCEPT !.lock = l])
  BY DEF ExecStep, ExecEnsureActive, ExecGet, ExecLock, ExecRun
<1>3. k.pc \in {"e_ensure", "e_get", "e_lock", "e_run"}
  BY DEF ExecStep, ExecEnsureActive, ExecGet, ExecLock, ExecRun
<1>4. (\E pc \in {"r_get", "e_get", "e_lock", "e_run"} : Go(t, pc)) \/ \E err \in {Nil, NotFound, Failed} : Finish(t, err)
  <2>1. CASE ExecEnsureActive(t)
    BY <2>1, Zenon DEF ExecEnsureActive
  <2> QED BY <2>1 DEF ExecStep, ExecGet, ExecLock, ExecRun
<1>5. \E x \in SessRec : SetSess(t, x) \/ UNCHANGED sess
  BY <1>0, <1>2, SessUpdates
<1>6. \/ \E err \in TaskErrs : Finish(t, err)
      \/ \E pc \in TaskPcs : Runs(k.op, pc) /\ Go(t, pc)
  <2>1. ASSUME NEW pc \in {"r_get", "e_get", "e_lock", "e_run"} PROVE pc \in TaskPcs /\ Runs(k.op, pc)
    BY <1>0, <1>3 DEF Runs, TaskPcs
  <2>2. {Nil, NotFound, Failed} \subseteq TaskErrs
    BY ErrTypes
  <2> QED BY <1>4, <2>1, <2>2
<1> QED BY <1>0, <1>1, <1>5, <1>6, FrameFrom

DeleteStep(t) ==
    DeleteStored(t) \/ DeleteTeardown(t) \/ DeleteMark(t) \/ DeleteReport(t) \/ DeleteRelease(t)

\* DELETE /worker/sandbox/{id} and the reaper's destroy.
LEMMA DeleteFrame ==
    ASSUME NEW t, Busy(t), DeleteStep(t)
    PROVE  /\ Frame(t)
           /\ \/ UNCHANGED sandboxes \/ SetRow(t, Row(t))
              \/ SetRow(t, ReleasePlacementRow(Row(t), task[t].w, "destroyed"))
<1> DEFINE k == task[t]
<1>0. /\ t \in Tasks /\ Row(t) \in Rows /\ Sess(t) \in SessRec /\ Adm(t) \in AdmRec /\ Runs(k.op, k.pc)
      /\ k.w \in Workers /\ k.err \in TaskErrs
  BY BusyTask DEF Busy, TaskRec
<1>1. \/ UNCHANGED sandboxes \/ SetRow(t, Row(t))
      \/ SetRow(t, ReleasePlacementRow(Row(t), task[t].w, "destroyed"))
  BY DEF DeleteStep, DeleteStored, DeleteTeardown, DeleteMark, DeleteReport, DeleteRelease
<1>2. \E a \in AdmRec : SetAdm(t, a) \/ UNCHANGED admission
  BY AdmValues DEF DeleteStep, DeleteStored, DeleteTeardown, DeleteMark, DeleteReport, DeleteRelease
<1>3. \/ UNCHANGED sess
      \/ SetSess(t, [Sess(t) EXCEPT !.stored = FALSE])
      \/ SetSess(t, [Sess(t) EXCEPT !.files = FALSE])
      \/ SetSess(t, [Sess(t) EXCEPT !.conn = FALSE, !.vm = FALSE])
  BY DEF DeleteStep, DeleteStored, DeleteTeardown, DeleteMark, DeleteReport, DeleteRelease
<1>4. k.pc \in {"d_delete", "d_teardown", "d_mark", "d_report", "d_release"}
  BY DEF DeleteStep, DeleteStored, DeleteTeardown, DeleteMark, DeleteReport, DeleteRelease
<1>5. \/ \E pc \in {"d_teardown", "d_mark", "d_report"} : Go(t, pc)
      \/ \E err \in TaskErrs : Finish(t, err) \/ GoErr(t, "d_release", err)
  BY <1>0, ErrTypes, ReportErrType DEF DeleteStep, DeleteStored, DeleteTeardown, DeleteMark, DeleteReport,
        DeleteRelease, DeleteReturns
<1>6. \E x \in SessRec : SetSess(t, x) \/ UNCHANGED sess
  BY <1>0, <1>3, SessUpdates
<1>7. \/ \E err \in TaskErrs : Finish(t, err)
      \/ \E pc \in TaskPcs : Runs(k.op, pc) /\ (Go(t, pc) \/ \E err \in TaskErrs : GoErr(t, pc, err))
  <2>1. ASSUME NEW pc \in {"d_teardown", "d_mark", "d_report", "d_release"} PROVE pc \in TaskPcs /\ Runs(k.op, pc)
    BY <1>0, <1>4 DEF Runs, TaskPcs
  <2> QED BY <1>5, <2>1
<1>8. \E q \in Rows : SetRow(t, q) \/ UNCHANGED sandboxes
  <2>1. ReleasePlacementRow(Row(t), task[t].w, "destroyed") \in Rows
    BY <1>0 DEF ReleasePlacementRow, Updated, Rows, RowStates, UnplacedStates
  <2> QED BY <1>0, <1>1, <2>1
<1> QED BY <1>0, <1>1, <1>2, <1>6, <1>7, <1>8, FrameFrom

-----------------------------------------------------------------------------
(* Rows. *)

\* A row written by an UPDATE statement.
LEMMA UpdatedRow ==
    ASSUME NEW st \in RowStates, NEW h \in Workers \cup {NoHost}, h # NoHost => st \in PlacedStates
    PROVE  RowOK(Updated(st, h)) /\ Updated(st, h).state = st /\ Updated(st, h).host = h
BY DEF Updated, RowOK, Rows

\* Each transaction keeps a row a row that names a host only while placed.
LEMMA StoreOps ==
    ASSUME NEW row, RowOK(row), NEW w \in Workers
    PROVE  /\ RowOK(InsertRow)
           /\ RowOK(ReservePlacementRow(row, w))
           /\ RowOK(PausePlacementRow(row, w))
           /\ \A hosts : RowOK(ReserveResumeRow(row, w, hosts))
           /\ RowOK(CancelResumeRow(row, w))
           /\ \A from : RowOK(UpdatePlacementStateRow(row, w, from, "active"))
           /\ \A from : RowOK(UpdatePlacementStateRow(row, w, from, "destroying"))
           /\ \A expected : \A final \in {"error", "scheduling", "destroyed"} :
                  RowOK(ReleasePlacementRow(row, expected, final))
           /\ RowOK(FailStaleRow(row))
           /\ row.host = NoHost => RowOK([row EXCEPT !.stale = TRUE])
<1>1. \A st \in {"provisioning", "active", "paused", "resuming", "destroying"} : RowOK(Updated(st, w))
  BY UpdatedRow DEF RowStates, PlacedStates
<1>2. \A st \in {"scheduling", "error", "destroyed"} : RowOK(Updated(st, NoHost))
  BY UpdatedRow, NoHostIsNoWorker DEF RowStates, UnplacedStates
<1>3. RowOK(InsertRow)
  BY <1>2 DEF InsertRow
<1>4. RowOK(ReservePlacementRow(row, w)) /\ RowOK(PausePlacementRow(row, w)) /\ RowOK(CancelResumeRow(row, w))
  BY <1>1 DEF ReservePlacementRow, PausePlacementRow, CancelResumeRow
<1>5. \A hosts : RowOK(ReserveResumeRow(row, w, hosts))
  BY <1>1 DEF ReserveResumeRow
<1>6. \A from : RowOK(UpdatePlacementStateRow(row, w, from, "active"))
                /\ RowOK(UpdatePlacementStateRow(row, w, from, "destroying"))
  BY <1>1 DEF UpdatePlacementStateRow
<1>7. \A expected : \A final \in {"error", "scheduling", "destroyed"} : RowOK(ReleasePlacementRow(row, expected, final))
  BY <1>2 DEF ReleasePlacementRow
<1>8. RowOK(FailStaleRow(row))
  BY <1>2 DEF FailStaleRow
<1>9. row.host = NoHost => RowOK([row EXCEPT !.stale = TRUE])
  BY DEF RowOK, Rows
<1> QED BY <1>3, <1>4, <1>5, <1>6, <1>7, <1>8, <1>9

-----------------------------------------------------------------------------
(* Requests. *)

\* What one step of r does to the requests.
ReqPart(r) ==
    /\ req' \in [Requests -> ReqRec]
    /\ \A q \in Requests \ {r} : req'[q] = req[q]

ReqGoes(r, op, pc, w) ==
    req'[r].pc = pc /\ req'[r].op = op /\ req'[r].s = req[r].s /\ req'[r].w = w

\* An idle request is a request.
LEMMA IdleReqType == IdleReq \in ReqRec /\ IdleReq.pc = "idle" /\ IdleReq.op = "none" /\ IdleReq.s = NoHost
BY DEF IdleReq, ReqRec, ReqPcs

\* The request ends.
LEMMA EndMoves == ASSUME NEW r \in Requests, Types, End(r) PROVE ReqPart(r) /\ req'[r] = IdleReq
BY IdleReqType DEF Types, End, ReqPart

\* The request goes on.
LEMMA ThenMoves ==
    ASSUME NEW r \in Requests, Types, NEW pc \in ReqPcs, Then(r, pc)
    PROVE  ReqPart(r) /\ ReqGoes(r, req[r].op, pc, req[r].w)
<1> DEFINE k == [req[r] EXCEPT !.pc = pc]
<1>1. req[r] \in ReqRec /\ req' = [req EXCEPT ![r] = k]
  BY DEF Types, Then
<1>2. k \in ReqRec /\ k.pc = pc /\ k.op = req[r].op /\ k.s = req[r].s /\ k.w = req[r].w
  BY <1>1 DEF ReqRec
<1> QED
  <2> HIDE DEF k
  <2>0. req \in [Requests -> ReqRec]
    BY DEF Types
  <2>1. req' \in [Requests -> ReqRec] /\ req'[r] = k
    BY <1>1, <1>2, <2>0
  <2>2. \A q \in Requests \ {r} : req'[q] = req[q]
    BY <1>1, <2>0
  <2> QED BY <1>2, <2>1, <2>2 DEF ReqGoes, ReqPart

\* The request learns where its sandbox is.
LEMMA PlacedMoves ==
    ASSUME NEW r \in Requests, Types, NEW pc \in ReqPcs, NEW w \in Workers,
           req' = [req EXCEPT ![r].pc = pc, ![r].w = w]
    PROVE  ReqPart(r) /\ ReqGoes(r, req[r].op, pc, w)
<1> DEFINE k == [req[r] EXCEPT !.pc = pc, !.w = w]
<1>1. req[r] \in ReqRec /\ req' = [req EXCEPT ![r] = k]
  BY DEF Types
<1>2. k \in ReqRec /\ k.pc = pc /\ k.op = req[r].op /\ k.s = req[r].s /\ k.w = w
  BY <1>1 DEF ReqRec
<1> QED
  <2> HIDE DEF k
  <2>0. req \in [Requests -> ReqRec]
    BY DEF Types
  <2>1. req' \in [Requests -> ReqRec] /\ req'[r] = k
    BY <1>1, <1>2, <2>0
  <2>2. \A q \in Requests \ {r} : req'[q] = req[q]
    BY <1>1, <2>0
  <2> QED BY <1>2, <2>1, <2>2 DEF ReqGoes, ReqPart

\* What a request does with its answer.
LEMMA AnsweredMoves ==
    ASSUME NEW r \in Requests, Types, ReqOK(req[r]), req[r].pc = "wait", NEW err, Answered(r, err)
    PROVE  /\ ReqPart(r)
           /\ \/ req'[r] = IdleReq
              \/ /\ req[r].op = "provision" /\ err = Nil
                 /\ ReqGoes(r, "provision", "activate", req[r].w)
              \/ /\ req[r].op = "provision" /\ err = NoCapacity
                 /\ ReqGoes(r, "provision", "reject", req[r].w)
              \/ req[r].op = "provision" /\ ReqGoes(r, "provision", "clean", req[r].w)
              \/ req[r].op = "pause" /\ ReqGoes(r, "pause", "paused", req[r].w)
              \/ req[r].op = "resume" /\ ReqGoes(r, "resume", "activate", req[r].w)
              \/ req[r].op = "resume" /\ ReqGoes(r, "resume", "clean", req[r].w)
              \/ req[r].op = "destroy" /\ ReqGoes(r, "destroy", "release", req[r].w)
              \/ req[r].op = "exec" /\ ReqGoes(r, "destroy", "get", req[r].w)
<1>0. req[r].op \in AllOps /\ req[r] \in ReqRec /\ req[r].w \in Workers
  BY DEF ReqOK, Passes, AllOps, Types, Unplaced
<1>1. \/ req[r].op = "provision" /\ err = Nil /\ Then(r, "activate")
      \/ req[r].op = "provision" /\ err = NoCapacity
              /\ req' = [req EXCEPT ![r].pc = "reject", ![r].excluded = @ \cup {req[r].w}]
      \/ req[r].op = "provision" /\ Then(r, "clean")
      \/ req[r].op = "pause" /\ (Then(r, "paused") \/ End(r))
      \/ req[r].op = "resume" /\ (Then(r, "activate") \/ Then(r, "clean"))
      \/ req[r].op = "destroy" /\ (Then(r, "release") \/ End(r))
      \/ req[r].op = "exec" /\ (End(r) \/ req' = [req EXCEPT ![r].pc = "get", ![r].op = "destroy"])
  <2>1. CASE req[r].op = "provision"
    BY <2>1, Zenon DEF Answered
  <2>2. CASE req[r].op = "pause"
    BY <2>2, Zenon DEF Answered
  <2>3. CASE req[r].op = "resume"
    <3>1. Then(r, IF err = Nil THEN "activate" ELSE "clean")
      BY <2>3, Zenon DEF Answered
    <3> QED BY <2>3, <3>1
  <2>4. CASE req[r].op = "destroy"
    BY <2>4, Zenon DEF Answered
  <2>5. CASE req[r].op = "exec"
    BY <2>5, Zenon DEF Answered
  <2> QED BY <1>0, <2>1, <2>2, <2>3, <2>4, <2>5 DEF AllOps
<1>2. {"activate", "clean", "paused", "release", "reject", "get"} \subseteq ReqPcs /\ "destroy" \in AllOps
  BY DEF ReqPcs, AllOps
<1>3. ASSUME req' = [req EXCEPT ![r].pc = "reject", ![r].excluded = @ \cup {req[r].w}]
      PROVE  ReqPart(r) /\ ReqGoes(r, req[r].op, "reject", req[r].w)
  <2> DEFINE k == [req[r] EXCEPT !.pc = "reject", !.excluded = @ \cup {req[r].w}]
  <2>1. req' = [req EXCEPT ![r] = k]
    BY <1>3 DEF Types
  <2>2. k \in ReqRec /\ k.pc = "reject" /\ k.op = req[r].op /\ k.s = req[r].s /\ k.w = req[r].w
    BY <1>0, <1>2 DEF ReqRec
  <2> HIDE DEF k
  <2>3. ReqPart(r) /\ req'[r] = k
    BY <2>1, <2>2 DEF Types, ReqPart
  <2> QED BY <2>2, <2>3 DEF ReqGoes
<1>4. ASSUME req' = [req EXCEPT ![r].pc = "get", ![r].op = "destroy"]
      PROVE  ReqPart(r) /\ ReqGoes(r, "destroy", "get", req[r].w)
  <2> DEFINE k == [req[r] EXCEPT !.pc = "get", !.op = "destroy"]
  <2>1. req' = [req EXCEPT ![r] = k]
    BY <1>4 DEF Types
  <2>2. k \in ReqRec /\ k.pc = "get" /\ k.op = "destroy" /\ k.s = req[r].s /\ k.w = req[r].w
    BY <1>0, <1>2 DEF ReqRec
  <2> HIDE DEF k
  <2>3. ReqPart(r) /\ req'[r] = k
    BY <2>1, <2>2 DEF Types, ReqPart
  <2> QED BY <2>2, <2>3 DEF ReqGoes
<1>5. \A pc \in ReqPcs : Then(r, pc) => ReqPart(r) /\ ReqGoes(r, req[r].op, pc, req[r].w)
  BY ThenMoves
<1>6. End(r) => ReqPart(r) /\ req'[r] = IdleReq
  BY EndMoves
<1> QED BY <1>1, <1>2, <1>3, <1>4, <1>5, <1>6

\* What a request does with the answer to its cleanup.
LEMMA CleanupAnsweredMoves ==
    ASSUME NEW r \in Requests, Types, ReqOK(req[r]), req[r].pc = "clean_wait", NEW err, CleanupAnswered(r, err)
    PROVE  /\ ReqPart(r)
           /\ \/ req'[r] = IdleReq
              \/ req[r].op = "provision" /\ ReqGoes(r, "provision", "fail", req[r].w)
              \/ req[r].op = "resume" /\ ReqGoes(r, "resume", "cancel", req[r].w)
<1>0. req[r].op \in {"provision", "resume"}
  BY DEF ReqOK, Passes
<1>1. \/ req[r].op = "provision" /\ Then(r, "fail")
      \/ req[r].op = "resume" /\ (Then(r, "cancel") \/ End(r))
  <2>1. CASE req[r].op = "provision"
    BY <2>1, Zenon DEF CleanupAnswered
  <2>2. CASE req[r].op = "resume"
    BY <2>2, Zenon DEF CleanupAnswered
  <2> QED BY <1>0, <2>1, <2>2
<1>2. {"fail", "cancel"} \subseteq ReqPcs
  BY DEF ReqPcs
<1> QED BY <1>1, <1>2, ThenMoves, EndMoves

\* Where a request step leads.
Leads(r, op, pc, w) == Passes(op, pc) /\ ReqGoes(r, op, pc, w)

\* A request that goes on along its operation is well formed.
LEMMA LeadsOK ==
    ASSUME NEW r \in Requests, ReqPart(r), req[r].s \in Sandboxes, NEW op, NEW pc, NEW w,
           Leads(r, op, pc, w), pc \notin Unplaced => w \in Workers
    PROVE  ReqOK(req'[r])
BY DEF Leads, ReqGoes, ReqOK, Passes

LEMMA IdleReqOK == ReqOK(IdleReq)
BY IdleReqType DEF ReqOK

\* What a well-formed request that is not idle has.
LEMMA ReqFacts ==
    ASSUME NEW r \in Requests, Types, ReqOK(req[r]), req[r].pc # "idle"
    PROVE  /\ req[r].s \in Sandboxes /\ Target(r) \in Rows /\ Passes(req[r].op, req[r].pc) /\ req[r] \in ReqRec
           /\ req[r].pc \notin Unplaced => req[r].w \in Workers
           /\ req[r].op \in AllOps
<1>1. req[r].s \in Sandboxes /\ Passes(req[r].op, req[r].pc) /\ (req[r].pc \notin Unplaced => req[r].w \in Workers)
  BY DEF ReqOK
<1> QED BY <1>1 DEF Types, Target, Passes, AllOps

\* GetPlacement.
LEMMA GetPlacementMoves ==
    ASSUME NEW r \in Requests, Types, ReqOK(req[r]), GetPlacement(r)
    PROVE  /\ ReqPart(r)
           /\ \/ req'[r] = IdleReq
              \/ req[r].op = "destroy" /\ Leads(r, "destroy", "release", req[r].w)
              \/ /\ Target(r).host \in Workers /\ req[r].op # "provision"
                 /\ \E pc \in {"reserve", "destroying", "call"} : Leads(r, req[r].op, pc, Target(r).host)
<1>1. req[r].pc = "get" /\ req[r].op \in {"pause", "resume", "destroy", "exec"} /\ Target(r) \in Rows
  <2>1. req[r].pc = "get"
    BY DEF GetPlacement, At
  <2> QED BY <2>1, ReqFacts DEF Passes
<1>2. \/ /\ Placed(Target(r))
         /\ \E pc \in {"reserve", "destroying", "call"} :
               Passes(req[r].op, pc) /\ req' = [req EXCEPT ![r].pc = pc, ![r].w = Target(r).host]
      \/ req[r].op = "destroy" /\ Then(r, "release")
      \/ End(r)
  <2> DEFINE next == CASE req[r].op = "resume" -> "reserve"
                       [] req[r].op = "destroy" /\ Target(r).state # "paused" -> "destroying"
                       [] OTHER -> "call"
  <2>1. \/ next = "reserve" /\ req[r].op = "resume"
        \/ next = "destroying" /\ req[r].op = "destroy"
        \/ next = "call"
    BY Zenon
  <2>2. \/ Placed(Target(r)) /\ req' = [req EXCEPT ![r].pc = next, ![r].w = Target(r).host]
        \/ req[r].op = "destroy" /\ Then(r, "release")
        \/ End(r)
    BY Zenon DEF GetPlacement
  <2> HIDE DEF next
  <2>3. next \in {"reserve", "destroying", "call"} /\ Passes(req[r].op, next)
    BY <1>1, <2>1 DEF Passes, AllOps
  <2> QED BY <2>2, <2>3
<1>3. CASE End(r)
  BY <1>3, EndMoves
<1>4. CASE req[r].op = "destroy" /\ Then(r, "release")
  <2>1. "release" \in ReqPcs /\ Passes("destroy", "release")
    BY DEF ReqPcs, Passes
  <2> QED BY <1>4, <2>1, ThenMoves DEF Leads
<1>5. CASE /\ Placed(Target(r))
           /\ \E pc \in {"reserve", "destroying", "call"} :
               Passes(req[r].op, pc) /\ req' = [req EXCEPT ![r].pc = pc, ![r].w = Target(r).host]
  <2>1. Target(r).host \in Workers
    BY <1>1, <1>5 DEF Placed, Rows
  <2>2. PICK pc \in {"reserve", "destroying", "call"} :
               Passes(req[r].op, pc) /\ req' = [req EXCEPT ![r].pc = pc, ![r].w = Target(r).host]
    BY <1>5
  <2>3. pc \in ReqPcs
    BY <2>2 DEF ReqPcs
  <2>4. ReqPart(r) /\ ReqGoes(r, req[r].op, pc, Target(r).host)
    BY <2>1, <2>2, <2>3, PlacedMoves
  <2> QED BY <1>1, <2>1, <2>2, <2>4 DEF Leads
<1> QED BY <1>2, <1>3, <1>4, <1>5



\* A placement that ReservePlacement returns is an existing one, or names the
\* worker that the query picked.
LEMMA ReservedWorker ==
    ASSUME NEW row \in Rows, NEW w, ReservePlacementErr(row, w) = Nil
    PROVE  \/ row.host \in Workers /\ ReservePlacementWorker(row, w) = row.host /\ ReservePlacementRow(row, w) = row
           \/ row.host = NoHost /\ w # NoHost /\ ReservePlacementWorker(row, w) = w
<1>1. row.host = NoHost /\ w = NoHost => ReservePlacementErr(row, w) \in {SandboxNotFound, NoCapacity}
  BY Zenon DEF ReservePlacementErr
<1>2. Nil \notin {SandboxNotFound, NoCapacity}
  BY DEF Nil, SandboxNotFound, NoCapacity
<1>3. row.host \in Workers \cup {NoHost}
  BY DEF Rows
<1>4. row.host # NoHost => ReservePlacementRow(row, w) = row
  BY DEF ReservePlacementRow
<1> QED BY <1>1, <1>2, <1>3, <1>4 DEF ReservePlacementWorker

\* Place.
LEMMA PlaceMoves ==
    ASSUME NEW r \in Requests, Types, ReqOK(req[r]), Place(r)
    PROVE  /\ ReqPart(r) /\ StoreOnly /\ req[r].op = "provision" /\ req[r].pc = "place"
           /\ \/ /\ Leads(r, "provision", "unscheduled", req[r].w)
                 /\ Write(r, Target(r))
              \/ /\ Target(r).host \in Workers /\ Leads(r, "provision", "call", Target(r).host)
                 /\ Write(r, Target(r))
              \/ \E w \in Eligible(worker_hosts, req[r].excluded) :
                    /\ w \in Workers /\ Target(r).host = NoHost /\ Leads(r, "provision", "call", w)
                    /\ ReservePlacementErr(Target(r), w) = Nil
                    /\ Write(r, ReservePlacementRow(Target(r), w))
<1>1. req[r].pc = "place" /\ req[r].op = "provision" /\ StoreOnly /\ Target(r) \in Rows
  <2>1. req[r].pc = "place" /\ StoreOnly
    BY DEF Place, At
  <2> QED BY <2>1, ReqFacts DEF Passes
<1>2. {"call", "unscheduled"} \subseteq ReqPcs /\ Passes("provision", "call") /\ Passes("provision", "unscheduled")
  BY DEF ReqPcs, Passes, AllOps
<1>3. PICK w \in IF Eligible(worker_hosts, req[r].excluded) = {} THEN {NoHost} ELSE Eligible(worker_hosts, req[r].excluded) :
              /\ Write(r, ReservePlacementRow(Target(r), w))
              /\ IF ReservePlacementErr(Target(r), w) = Nil
                 THEN req' = [req EXCEPT ![r].pc = "call", ![r].w = ReservePlacementWorker(Target(r), w)]
                 ELSE Then(r, "unscheduled")
  BY DEF Place
<1>4. CASE ReservePlacementErr(Target(r), w) # Nil
  <2>1. ReservePlacementRow(Target(r), w) = Target(r)
    BY <1>4 DEF ReservePlacementRow
  <2>2. ReqPart(r) /\ ReqGoes(r, "provision", "unscheduled", req[r].w)
    BY <1>1, <1>2, <1>3, <1>4, ThenMoves
  <2> QED BY <1>1, <1>2, <1>3, <2>1, <2>2 DEF Leads
<1>5. CASE ReservePlacementErr(Target(r), w) = Nil
  <2> DEFINE v == ReservePlacementWorker(Target(r), w)
  <2>0. req' = [req EXCEPT ![r].pc = "call", ![r].w = v] /\ Write(r, ReservePlacementRow(Target(r), w))
    BY <1>3, <1>5
  <2>1. \/ Target(r).host \in Workers /\ v = Target(r).host /\ ReservePlacementRow(Target(r), w) = Target(r)
        \/ Target(r).host = NoHost /\ w # NoHost /\ v = w
    BY <1>1, <1>5, ReservedWorker
  <2>2. w # NoHost => w \in Eligible(worker_hosts, req[r].excluded) /\ w \in Workers
    BY <1>3 DEF Eligible
  <2> HIDE DEF v
  <2>3. v \in Workers
    BY <2>1, <2>2
  <2>4. ReqPart(r) /\ ReqGoes(r, "provision", "call", v)
    BY <1>1, <1>2, <2>0, <2>3, PlacedMoves
  <2>5. Leads(r, "provision", "call", v)
    BY <1>2, <2>4 DEF Leads
  <2> QED BY <1>1, <1>5, <2>0, <2>1, <2>2, <2>4, <2>5
<1> QED BY <1>4, <1>5

\* The other transactions: where r is, where it goes, and what it writes.
Transacts(r) ==
    \/ /\ req[r].op = "provision" /\ req[r].pc \in {"unscheduled", "fail"} /\ req'[r] = IdleReq
       /\ Write(r, ReleasePlacementRow(Target(r), NoHost, "error"))
    \/ /\ req[r].op = "provision" /\ req[r].pc = "reject" /\ Leads(r, "provision", "place", req[r].w)
       /\ Write(r, ReleasePlacementRow(Target(r), NoHost, "scheduling"))
    \/ /\ req[r].op = "provision" /\ req[r].pc = "activate" /\ req'[r] = IdleReq
       /\ Write(r, UpdatePlacementStateRow(Target(r), req[r].w, {"provisioning"}, "active"))
    \/ /\ req[r].op = "resume" /\ req[r].pc = "activate" /\ req'[r] = IdleReq
       /\ Write(r, UpdatePlacementStateRow(Target(r), req[r].w, {"resuming"}, "active"))
    \/ /\ req[r].op = "pause" /\ req'[r] = IdleReq
       /\ Write(r, PausePlacementRow(Target(r), req[r].w))
    \/ /\ req[r].op = "resume" /\ (req'[r] = IdleReq \/ Leads(r, "resume", "call", req[r].w))
       /\ Write(r, ReserveResumeRow(Target(r), req[r].w, worker_hosts))
    \/ /\ req[r].op = "resume" /\ req'[r] = IdleReq
       /\ Write(r, CancelResumeRow(Target(r), req[r].w))
    \/ /\ req[r].op = "destroy"
       /\ Leads(r, "destroy", "call", req[r].w) \/ Leads(r, "destroy", "recheck", req[r].w)
       /\ Write(r, UpdatePlacementStateRow(Target(r), req[r].w,
                     {"active", "error", "provisioning", "resuming"}, "destroying"))
    \/ /\ req[r].op = "destroy" /\ (req'[r] = IdleReq \/ Leads(r, "destroy", "call", req[r].w))
       /\ UNCHANGED sandboxes
    \/ /\ req[r].op = "destroy" /\ req'[r] = IdleReq
       /\ Write(r, ReleasePlacementRow(Target(r), NoHost, "destroyed"))

OtherStoreStep(r) ==
    \/ MarkError(r) \/ Reject(r) \/ Activate(r) \/ MarkRowPaused(r) \/ ReserveResume(r)
    \/ CancelResume(r) \/ MarkDestroying(r) \/ RecheckDestroying(r) \/ ReleaseDestroyed(r)

LEMMA StoreMoves ==
    ASSUME NEW r \in Requests, Types, ReqOK(req[r]), OtherStoreStep(r)
    PROVE  /\ ReqPart(r) /\ StoreOnly /\ Transacts(r) /\ req[r].pc # "idle"
           /\ req[r].w \in Workers \/ req[r].pc \in {"unscheduled", "release"}
<1>1. req[r].pc \in {"unscheduled", "fail", "reject", "activate", "paused", "reserve", "cancel", "destroying",
                     "recheck", "release"} /\ StoreOnly
  BY DEF OtherStoreStep, MarkError, Reject, Activate, MarkRowPaused, ReserveResume, CancelResume,
     MarkDestroying, RecheckDestroying, ReleaseDestroyed, At
<1>2. req[r].pc # "idle" /\ (req[r].w \in Workers \/ req[r].pc \in {"unscheduled", "release"}) /\ Passes(req[r].op, req[r].pc)
  BY <1>1, ReqFacts DEF Unplaced
<1>3. /\ {"place", "call", "recheck"} \subseteq ReqPcs /\ Passes("provision", "place") /\ Passes("resume", "call")
      /\ Passes("destroy", "call") /\ Passes("destroy", "recheck")
  BY DEF ReqPcs, Passes, AllOps
<1>4. ASSUME NEW pc \in {"place", "call", "recheck"}, Then(r, pc), Passes(req[r].op, pc)
      PROVE  ReqPart(r) /\ Leads(r, req[r].op, pc, req[r].w)
  BY <1>3, <1>4, ThenMoves DEF Leads
<1>5. End(r) => ReqPart(r) /\ req'[r] = IdleReq
  BY EndMoves
<1>6. CASE MarkError(r)
  <2>1. req[r].op = "provision" /\ req[r].pc \in {"unscheduled", "fail"}
    BY <1>2, <1>6 DEF MarkError, At, Passes
  <2> QED BY <1>1, <1>2, <1>5, <1>6, <2>1 DEF MarkError, Transacts
<1>7. CASE Reject(r)
  <2>1. req[r].op = "provision" /\ req[r].pc = "reject"
    BY <1>2, <1>7 DEF Reject, At, Passes
  <2> QED BY <1>1, <1>2, <1>3, <1>4, <1>7, <2>1 DEF Reject, Transacts
<1>8. CASE Activate(r)
  <2>1. req[r].op \in {"provision", "resume"} /\ req[r].pc = "activate"
    BY <1>2, <1>8 DEF Activate, At, Passes
  <2> QED BY <1>1, <1>2, <1>5, <1>8, <2>1 DEF Activate, Transacts
<1>9. CASE MarkRowPaused(r)
  <2>1. req[r].op = "pause"
    BY <1>2, <1>9 DEF MarkRowPaused, At, Passes
  <2> QED BY <1>1, <1>2, <1>5, <1>9, <2>1 DEF MarkRowPaused, Transacts
<1>10. CASE ReserveResume(r)
  <2>1. req[r].op = "resume"
    BY <1>2, <1>10 DEF ReserveResume, At, Passes
  <2>2. (End(r) \/ Then(r, "call")) /\ Write(r, ReserveResumeRow(Target(r), req[r].w, worker_hosts))
    BY <1>10 DEF ReserveResume
  <2> QED BY <1>1, <1>2, <1>3, <1>4, <1>5, <2>1, <2>2 DEF Transacts
<1>11. CASE CancelResume(r)
  <2>1. req[r].op = "resume"
    BY <1>2, <1>11 DEF CancelResume, At, Passes
  <2> QED BY <1>1, <1>2, <1>5, <1>11, <2>1 DEF CancelResume, Transacts
<1>12. CASE MarkDestroying(r)
  <2>1. req[r].op = "destroy"
    BY <1>2, <1>12 DEF MarkDestroying, At, Passes
  <2>2. /\ Then(r, "call") \/ Then(r, "recheck")
        /\ Write(r, UpdatePlacementStateRow(Target(r), req[r].w,
                     {"active", "error", "provisioning", "resuming"}, "destroying"))
    BY <1>12 DEF MarkDestroying
  <2> QED BY <1>1, <1>2, <1>3, <1>4, <2>1, <2>2 DEF Transacts
<1>13. CASE RecheckDestroying(r)
  <2>1. req[r].op = "destroy"
    BY <1>2, <1>13 DEF RecheckDestroying, At, Passes
  <2>2. (End(r) \/ Then(r, "call")) /\ UNCHANGED sandboxes
    BY <1>13 DEF RecheckDestroying
  <2> QED BY <1>1, <1>2, <1>3, <1>4, <1>5, <2>1, <2>2 DEF Transacts
<1>14. CASE ReleaseDestroyed(r)
  <2>1. req[r].op = "destroy"
    BY <1>2, <1>14 DEF ReleaseDestroyed, At, Passes
  <2> QED BY <1>1, <1>2, <1>5, <1>14, <2>1 DEF ReleaseDestroyed, Transacts
<1> QED BY <1>6, <1>7, <1>8, <1>9, <1>10, <1>11, <1>12, <1>13, <1>14 DEF OtherStoreStep

-----------------------------------------------------------------------------
(* Tasks, as the requests, the reapers and the faults change them. *)

\* A record with waited cleared.
LEMMA UnwaitedRec ==
    ASSUME NEW k \in TaskRec
    PROVE  LET j == [k EXCEPT !.waited = FALSE]
           IN  /\ j \in TaskRec /\ j.pc = k.pc /\ j.op = k.op /\ j.s = k.s /\ j.w = k.w /\ j.err = k.err /\ j.waited = FALSE
               /\ k = IdleTask => j = IdleTask
<1>1. [k EXCEPT !.waited = FALSE] \in TaskRec
  BY DEF TaskRec
<1>2. k = IdleTask => [k EXCEPT !.waited = FALSE] = IdleTask
  <2>1. k = IdleTask => k.waited = FALSE
    BY DEF IdleTask
  <2>2. k.waited = FALSE => [k EXCEPT !.waited = FALSE] = k
    BY DEF TaskRec
  <2> QED BY <2>1, <2>2
<1> QED BY <1>1, <1>2 DEF TaskRec

\* What becomes of the record of a task that nobody waits for.
LEMMA UnwaitedOK ==
    ASSUME NEW t, NEW k \in TaskRec, TaskOK(t, k)
    PROVE  LET j == [k EXCEPT !.waited = FALSE]
           IN  /\ k.pc # "done" => TaskOK(t, j)
               /\ TaskOK(t, IdleTask)
<1>1. TaskOK(t, IdleTask)
  BY IdleTaskType DEF TaskOK
<1> DEFINE j == [k EXCEPT !.waited = FALSE]
<1>2. j.pc = k.pc /\ j.op = k.op /\ j.s = k.s /\ j.w = k.w /\ (k = IdleTask => j = IdleTask)
  BY UnwaitedRec
<1> HIDE DEF j
<1>3. k.pc # "done" => TaskOK(t, j)
  BY <1>2 DEF TaskOK
<1> QED BY <1>1, <1>3 DEF j

LEMMA UnwaitedMoves ==
    ASSUME NEW t \in Tasks, Types, TaskOK(t, task[t]), Unwaited(t)
    PROVE  /\ TaskPart(t) /\ TaskOK(t, task'[t]) /\ task'[t].waited = FALSE
           /\ \/ task'[t] = IdleTask /\ task[t].pc \in {"idle", "done"}
              \/ /\ task[t].pc \notin {"idle", "done"} /\ task'[t].pc = task[t].pc /\ task'[t].op = task[t].op
                 /\ task'[t].s = task[t].s /\ task'[t].w = task[t].w /\ task'[t].err = task[t].err
<1> DEFINE j == [task[t] EXCEPT !.waited = FALSE]
           k == IF task[t].pc = "done" THEN IdleTask ELSE j
<1>1. task[t] \in TaskRec /\ task' = [task EXCEPT ![t] = k]
  BY DEF Types, Unwaited
<1>2. /\ j \in TaskRec /\ j.pc = task[t].pc /\ j.op = task[t].op /\ j.s = task[t].s /\ j.w = task[t].w
      /\ j.err = task[t].err /\ j.waited = FALSE /\ (task[t] = IdleTask => j = IdleTask)
      /\ (task[t].pc # "done" => TaskOK(t, j)) /\ TaskOK(t, IdleTask)
  BY <1>1, UnwaitedRec, UnwaitedOK
<1>3. task[t].pc = "idle" => task[t] = IdleTask
  BY DEF TaskOK
<1> HIDE DEF j
<1>4. k \in TaskRec /\ TaskOK(t, k) /\ k.waited = FALSE
  <2>1. CASE task[t].pc = "done"
    <3>1. k = IdleTask
      BY <2>1
    <3> QED BY <1>2, <3>1, IdleTaskType
  <2>2. CASE task[t].pc # "done"
    BY <1>2, <2>2
  <2> QED BY <2>1, <2>2
<1>5. \/ k = IdleTask /\ task[t].pc \in {"idle", "done"}
      \/ /\ task[t].pc \notin {"idle", "done"} /\ k.pc = task[t].pc /\ k.op = task[t].op
         /\ k.s = task[t].s /\ k.w = task[t].w /\ k.err = task[t].err
  BY <1>2, <1>3
<1> HIDE DEF k
<1> QED BY <1>1, <1>4, <1>5 DEF Types, TaskPart

\* A call starts task t.
LEMMA CallMoves ==
    ASSUME NEW t \in Tasks, Types, NEW op \in TaskOps, NEW w \in Workers, NEW s \in Sandboxes, RunBy(t[2], op),
           task' = [task EXCEPT ![t] = Called(op, w, s)]
    PROVE  /\ TaskPart(t) /\ TaskOK(t, task'[t])
           /\ task'[t].op = op /\ task'[t].s = s /\ task'[t].w = w /\ task'[t].waited
           /\ task'[t].pc = FirstPc(op) /\ task'[t].pc # "idle"
<1> DEFINE k == Called(op, w, s)
<1>1. /\ k \in TaskRec /\ TaskOK(t, k)
      /\ k.op = op /\ k.s = s /\ k.w = w /\ k.waited /\ k.pc = FirstPc(op) /\ k.pc # "idle"
  BY CalledOK
<1>2. task' = [task EXCEPT ![t] = k]
  OBVIOUS
<1> HIDE DEF k
<1>3. task' \in [Tasks -> TaskRec] /\ task'[t] = k
  BY <1>1, <1>2 DEF Types
<1>4. \A u \in Tasks \ {t} : task'[u] = task[u]
  BY <1>2 DEF Types
<1> QED BY <1>1, <1>3, <1>4 DEF TaskPart

\* An answer is taken.
LEMMA TakenMoves ==
    ASSUME NEW t \in Tasks, Types, task' = [task EXCEPT ![t] = IdleTask]
    PROVE  TaskPart(t) /\ TaskOK(t, task'[t]) /\ task'[t] = IdleTask
BY IdleTaskType DEF Types, TaskPart, TaskOK

\* The orchestrator dies: its calls are not waited for any more.
LEMMA StopMoves ==
    ASSUME NEW r \in Requests, Types, \A t \in Tasks : TaskOK(t, task[t]), OrchestratorStops(r)
    PROVE  /\ task' \in [Tasks -> TaskRec]
           /\ \A t \in Tasks : /\ TaskOK(t, task'[t])
                               /\ t[1] # r => task'[t] = task[t]
                               /\ t[1] = r =>
                                    /\ task'[t].waited = FALSE
                                    /\ \/ task'[t] = IdleTask /\ task[t].pc \in {"idle", "done"}
                                       \/ /\ task[t].pc \notin {"idle", "done"} /\ task'[t].pc = task[t].pc /\ task'[t].op = task[t].op
                                          /\ task'[t].s = task[t].s /\ task'[t].w = task[t].w /\ task'[t].err = task[t].err
<1> DEFINE K(t) == IF t[1] # r THEN task[t]
                   ELSE IF task[t].pc \in {"idle", "done"} THEN IdleTask
                   ELSE [task[t] EXCEPT !.waited = FALSE]
<1>1. task' = [t \in Tasks |-> K(t)]
  BY DEF OrchestratorStops
<1>2. ASSUME NEW t \in Tasks
      PROVE  /\ K(t) \in TaskRec /\ TaskOK(t, K(t))
             /\ t[1] # r => K(t) = task[t]
             /\ t[1] = r =>
                    /\ K(t).waited = FALSE
                    /\ \/ K(t) = IdleTask /\ task[t].pc \in {"idle", "done"}
                       \/ /\ task[t].pc \notin {"idle", "done"} /\ K(t).pc = task[t].pc /\ K(t).op = task[t].op
                          /\ K(t).s = task[t].s /\ K(t).w = task[t].w /\ K(t).err = task[t].err
  <2> DEFINE j == [task[t] EXCEPT !.waited = FALSE]
  <2>1. task[t] \in TaskRec
    BY DEF Types
  <2>2. /\ j \in TaskRec /\ j.pc = task[t].pc /\ j.op = task[t].op /\ j.s = task[t].s /\ j.w = task[t].w
        /\ j.err = task[t].err /\ j.waited = FALSE
        /\ (task[t].pc # "done" => TaskOK(t, j)) /\ TaskOK(t, IdleTask)
    BY <2>1, UnwaitedRec, UnwaitedOK
  <2>3. K(t) = IF t[1] # r THEN task[t] ELSE IF task[t].pc \in {"idle", "done"} THEN IdleTask ELSE j
    OBVIOUS
  <2>4. TaskOK(t, task[t])
    OBVIOUS
  <2> HIDE DEF j, K
  <2>5. CASE t[1] # r
    BY <2>1, <2>3, <2>4, <2>5
  <2>6. CASE t[1] = r /\ task[t].pc \in {"idle", "done"}
    <3>1. K(t) = IdleTask
      BY <2>3, <2>6
    <3> QED BY <2>2, <2>6, <3>1, IdleTaskType
  <2>7. CASE t[1] = r /\ task[t].pc \notin {"idle", "done"}
    BY <2>2, <2>3, <2>7
  <2> QED BY <2>5, <2>6, <2>7
<1> HIDE DEF K
<1> QED BY <1>1, <1>2

\* The worker dies: its tasks end, with a failure for the callers that wait.
LEMMA CrashMoves ==
    ASSUME NEW w \in Workers, Types, \A t \in Tasks : TaskOK(t, task[t]), Crash(w)
    PROVE  /\ task' \in [Tasks -> TaskRec]
           /\ \A t \in Tasks : /\ TaskOK(t, task'[t])
                               /\ task[t].w # w \/ task[t].pc \in {"idle", "done"} => task'[t] = task[t]
                               /\ task[t].w = w /\ task[t].pc \notin {"idle", "done"} =>
                                    Ends(t) /\ (Awaited(t) => task'[t].err = Failed)
<1> DEFINE F(t) == [task[t] EXCEPT !.pc = "done", !.err = Failed]
           K(t) == IF task[t].w # w \/ task[t].pc \in {"idle", "done"} THEN task[t]
                   ELSE IF task[t].waited /\ t[2] # "reaper" THEN F(t) ELSE IdleTask
<1>1. task' = [t \in Tasks |-> K(t)]
  BY DEF Crash
<1>2. ASSUME NEW t \in Tasks
      PROVE  /\ K(t) \in TaskRec /\ TaskOK(t, K(t))
             /\ task[t].w # w \/ task[t].pc \in {"idle", "done"} => K(t) = task[t]
             /\ task[t].w = w /\ task[t].pc \notin {"idle", "done"} /\ ~Awaited(t) => K(t) = IdleTask
             /\ task[t].w = w /\ task[t].pc \notin {"idle", "done"} /\ Awaited(t) =>
                   /\ K(t).pc = "done" /\ K(t).err = Failed /\ K(t).op = task[t].op /\ K(t).s = task[t].s
                   /\ K(t).w = task[t].w /\ K(t).waited = task[t].waited
  <2>1. task[t] \in TaskRec /\ TaskOK(t, task[t])
    BY DEF Types
  <2>2. F(t) \in TaskRec
    BY <2>1 DEF TaskRec, TaskPcs, TaskErrs
  <2>3. /\ F(t).pc = "done" /\ F(t).err = Failed /\ F(t).op = task[t].op
        /\ F(t).s = task[t].s /\ F(t).w = task[t].w /\ F(t).waited = task[t].waited
    BY <2>1 DEF TaskRec
  <2> HIDE DEF F
  <2>4. task[t].pc \notin {"idle", "done"} /\ task[t].waited => TaskOK(t, F(t))
    BY <2>1, <2>3 DEF TaskOK
  <2>5. TaskOK(t, IdleTask)
    BY IdleTaskType DEF TaskOK
  <2>6. K(t) = IF task[t].w # w \/ task[t].pc \in {"idle", "done"} THEN task[t]
               ELSE IF Awaited(t) THEN F(t) ELSE IdleTask
    BY DEF Awaited
  <2>7. Awaited(t) => task[t].waited
    BY DEF Awaited
  <2> HIDE DEF K
  <2>8. CASE task[t].w # w \/ task[t].pc \in {"idle", "done"}
    BY <2>1, <2>6, <2>8
  <2>9. CASE task[t].w = w /\ task[t].pc \notin {"idle", "done"} /\ ~Awaited(t)
    BY <2>5, <2>6, <2>9, IdleTaskType
  <2>10. CASE task[t].w = w /\ task[t].pc \notin {"idle", "done"} /\ Awaited(t)
    BY <2>2, <2>3, <2>4, <2>6, <2>7, <2>10
  <2> QED BY <2>8, <2>9, <2>10
<1> HIDE DEF K
<1>3. task' \in [Tasks -> TaskRec] /\ \A t \in Tasks : task'[t] = K(t)
  BY <1>1, <1>2
<1>4. ASSUME NEW t \in Tasks, task[t].w = w, task[t].pc \notin {"idle", "done"}
      PROVE  Ends(t) /\ (Awaited(t) => task'[t].err = Failed)
  BY <1>2, <1>3, <1>4 DEF Ends, Continues
<1> QED BY <1>2, <1>3, <1>4
=============================================================================
