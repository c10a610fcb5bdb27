----------------------------- MODULE Lifecycle -----------------------------
(***************************************************************************)
(* The life of a sandbox across the services that share it: client         *)
(* requests as the control plane and the orchestrator carry them out       *)
(* (controlplane/service.go, orchestrator/orchestrator.go), the workers    *)
(* they call (Worker), and the rows both write (PlacementStore).           *)
(*                                                                         *)
(* A request is a goroutine of the orchestrator; req[r].pc is the store    *)
(* transaction or worker call it makes next.  Nothing is locked between    *)
(* two of them.                                                            *)
(***************************************************************************)
EXTENDS Worker

CONSTANTS
    Ops,        \* the client operations of this instance
    Serial      \* clients await an answer before they send another request for a sandbox

AllOps == {"provision", "pause", "resume", "destroy", "exec"}

ASSUME LifecycleConstants == Ops \subseteq AllOps /\ Serial \in BOOLEAN

VARIABLES
    worker_hosts,   \* the durable worker registry (PlacementStore)
    req             \* req[r]: the request in slot r and what it does next

vars == <<sandboxes, worker_hosts, req, task, admission, sess>>

IdleReq == [pc |-> "idle", op |-> "none", s |-> NoHost, w |-> NoHost, excluded |-> {}, live |-> TRUE]

ReqPcs == {"idle", "place", "unscheduled", "call", "wait", "reject", "clean", "clean_wait", "fail",
           "activate", "get", "paused", "reserve", "cancel", "destroying", "recheck", "release"}

\* Every variable keeps its type.
TypeOK ==
    /\ WorkerTypeOK
    /\ worker_hosts \in [Workers -> HostRows]
    /\ req \in [Requests -> [pc : ReqPcs, op : AllOps \cup {"none"}, s : Sandboxes \cup {NoHost},
                             w : Workers \cup {NoHost}, excluded : SUBSET Workers, live : BOOLEAN]]

Init ==
    /\ WorkerInit
    /\ worker_hosts = [w \in Workers |->
            [known |-> TRUE, draining |-> FALSE, heartbeat |-> TRUE, capacity |-> TRUE]]
    /\ req = [r \in Requests |-> IdleReq]

-----------------------------------------------------------------------------
\* Abbreviations for the step of one request.

Main(r)    == <<r, "main">>
Cleanup(r) == <<r, "cleanup">>

Target(r) == sandboxes[req[r].s]

\* r is at pc and its context has not ended: a store call would fail with it.
At(r, pc) == req[r].pc = pc /\ req[r].live

Then(r, pc) == req' = [req EXCEPT ![r].pc = pc]
End(r)       == req' = [req EXCEPT ![r] = IdleReq]
Write(r, x)  == sandboxes' = [sandboxes EXCEPT ![req[r].s] = x]

\* A step that only touches the request and its row.
StoreOnly == UNCHANGED <<worker_hosts, task, admission, sess>>

-----------------------------------------------------------------------------
(***************************************************************************)
(* Where a request starts.  Create inserts the scheduling row of a new     *)
(* sandbox; every other operation first finds the sandbox active or paused *)
(* (ownsSession, GetSession) and only then asks for its placement.         *)
(***************************************************************************)
Create(r, s) ==
    /\ "provision" \in Ops
    /\ req[r].pc = "idle" /\ task[Main(r)].pc = "idle" /\ task[Cleanup(r)].pc = "idle"
    /\ sandboxes[s].state = "none"
    /\ sandboxes' = [sandboxes EXCEPT ![s] = InsertRow]
    /\ req' = [req EXCEPT ![r] = [IdleReq EXCEPT !.pc = "place", !.op = "provision", !.s = s]]
    /\ StoreOnly

Accept(r, s) ==
    /\ req[r].pc = "idle" /\ task[Main(r)].pc = "idle" /\ task[Cleanup(r)].pc = "idle"
    /\ sandboxes[s].state \in {"active", "paused"}
    /\ Serial => \A q \in Requests : req[q].s # s
    /\ \E op \in Ops \ {"provision"} :
          req' = [req EXCEPT ![r] = [IdleReq EXCEPT !.pc = "get", !.op = op, !.s = s]]
    /\ UNCHANGED sandboxes /\ StoreOnly

\* Placement: where is the sandbox?  Destroy treats an unplaced one as gone, and
\* leaves a paused row paused until the final release.
GetPlacement(r) ==
    /\ At(r, "get")
    /\ LET op == req[r].op
           next == CASE op = "resume" -> "reserve"
                     [] op = "destroy" /\ Target(r).state # "paused" -> "destroying"
                     [] OTHER -> "call"
       IN  \/ Placed(Target(r)) /\ req' = [req EXCEPT ![r].pc = next, ![r].w = Target(r).host]
           \/ ~Placed(Target(r)) /\ op = "destroy" /\ Then(r, "release")
           \/ ~Placed(Target(r)) /\ op # "destroy" /\ End(r)
    /\ UNCHANGED sandboxes /\ StoreOnly

-----------------------------------------------------------------------------
(***************************************************************************)
(* Calls to the worker.                                                    *)
(***************************************************************************)
WorkerOp(op) ==
    CASE op = "provision" -> "create" [] op = "destroy" -> "delete" [] OTHER -> op

CleanupOp(op) == IF op = "provision" THEN "delete" ELSE "pause"

Call(r) ==
    /\ req[r].pc = "call"
    /\ task[Main(r)].pc = "idle"
    /\ task' = [task EXCEPT ![Main(r)] = Called(WorkerOp(req[r].op), req[r].w, req[r].s)]
    /\ Then(r, "wait")
    /\ UNCHANGED <<sandboxes, worker_hosts, admission, sess>>

\* The cleanup call runs on a context of its own.
CleanupCall(r) ==
    /\ req[r].pc = "clean"
    /\ task' = [task EXCEPT ![Cleanup(r)] = Called(CleanupOp(req[r].op), req[r].w, req[r].s)]
    /\ Then(r, "clean_wait")
    /\ UNCHANGED <<sandboxes, worker_hosts, admission, sess>>

\* Mutant: Provision tries the next worker after any failure.
AnsweredRetriesAll(r, err) ==
    IF req[r].op = "provision" /\ err # Nil
    THEN req' = [req EXCEPT ![r].pc = "reject", ![r].excluded = @ \cup {req[r].w}]
    ELSE Then(r, "activate")

\* Mutant: Provision takes an unknown outcome for success.
AnsweredOptimistic(r, err) ==
    IF req[r].op = "provision" /\ err = NoCapacity
    THEN req' = [req EXCEPT ![r].pc = "reject", ![r].excluded = @ \cup {req[r].w}]
    ELSE Then(r, "activate")

\* What the request does with the answer err of its call.
Answered(r, err) ==
    CASE req[r].op = "provision" ->
            IF err = Nil THEN Then(r, "activate")
            ELSE IF err = NoCapacity
                 THEN req' = [req EXCEPT ![r].pc = "reject", ![r].excluded = @ \cup {req[r].w}]
                 ELSE Then(r, "clean")
      [] req[r].op = "pause" -> IF err = Nil THEN Then(r, "paused") ELSE End(r)
      [] req[r].op = "resume" -> Then(r, IF err = Nil THEN "activate" ELSE "clean")
      [] req[r].op = "destroy" -> IF err \in {Nil, NotFound} THEN Then(r, "release") ELSE End(r)
      [] req[r].op = "exec" ->      \* reconcile
            IF err = NotFound THEN req' = [req EXCEPT ![r].pc = "get", ![r].op = "destroy"] ELSE End(r)

CleanupAnswered(r, err) ==
    CASE req[r].op = "provision" -> Then(r, "fail")
      [] req[r].op = "resume" -> IF err = Nil THEN Then(r, "cancel") ELSE End(r)

Reply(r) ==
    /\ req[r].pc = "wait" /\ task[Main(r)].pc = "done"
    /\ Answered(r, task[Main(r)].err)
    /\ task' = [task EXCEPT ![Main(r)] = IdleTask]
    /\ UNCHANGED <<sandboxes, worker_hosts, admission, sess>>

CleanupReply(r) ==
    /\ req[r].pc = "clean_wait" /\ task[Cleanup(r)].pc = "done"
    /\ CleanupAnswered(r, task[Cleanup(r)].err)
    /\ task' = [task EXCEPT ![Cleanup(r)] = IdleTask]
    /\ UNCHANGED <<sandboxes, worker_hosts, admission, sess>>

-----------------------------------------------------------------------------
(***************************************************************************)
(* Transactions of Provision.                                              *)
(***************************************************************************)
Place(r) ==
    /\ At(r, "place")
    /\ LET eligible == Eligible(worker_hosts, req[r].excluded)
       IN  \E w \in IF eligible = {} THEN {NoHost} ELSE eligible :
              /\ Write(r, ReservePlacementRow(Target(r), w))
              /\ IF ReservePlacementErr(Target(r), w) = Nil
                 THEN req' = [req EXCEPT ![r].pc = "call", ![r].w = ReservePlacementWorker(Target(r), w)]
                 ELSE Then(r, "unscheduled")
    /\ StoreOnly

\* The placement failed for good, or the cleanup of a failed boot is over.
MarkError(r) ==
    /\ At(r, "unscheduled") \/ At(r, "fail")
    /\ Write(r, ReleasePlacementRow(Target(r), NoHost, "error"))
    /\ End(r)
    /\ StoreOnly

\* Mutant: the row is released without the state it goes back to.
RejectWithoutState(r) ==
    /\ At(r, "reject")
    /\ Write(r, Updated("", NoHost))
    /\ Then(r, "place")
    /\ StoreOnly

\* The worker had no capacity: back to scheduling, without that worker.
Reject(r) ==
    /\ At(r, "reject")
    /\ Write(r, ReleasePlacementRow(Target(r), NoHost, "scheduling"))
    /\ Then(r, "place")
    /\ StoreOnly

\* Mutant: a paused row is activated as well.
ActivatePaused(r) ==
    /\ At(r, "activate")
    /\ Write(r, UpdatePlacementStateRow(Target(r), req[r].w, {"provisioning", "resuming", "paused"}, "active"))
    /\ End(r)
    /\ StoreOnly

\* The last step of Provision and of Resume.
Activate(r) ==
    /\ At(r, "activate")
    /\ LET from == IF req[r].op = "provision" THEN {"provisioning"} ELSE {"resuming"}
       IN  Write(r, UpdatePlacementStateRow(Target(r), req[r].w, from, "active"))
    /\ End(r)
    /\ StoreOnly

(***************************************************************************)
(* Transactions of Pause, Resume and Destroy.                              *)
(***************************************************************************)
MarkRowPaused(r) ==
    /\ At(r, "paused")
    /\ Write(r, PausePlacementRow(Target(r), req[r].w))
    /\ End(r)
    /\ StoreOnly

ReserveResume(r) ==
    /\ At(r, "reserve")
    /\ Write(r, ReserveResumeRow(Target(r), req[r].w, worker_hosts))
    /\ IF ReserveResumeErr(Target(r), req[r].w, worker_hosts) = Nil THEN Then(r, "call") ELSE End(r)
    /\ StoreOnly

CancelResume(r) ==
    /\ At(r, "cancel")
    /\ Write(r, CancelResumeRow(Target(r), req[r].w))
    /\ End(r)
    /\ StoreOnly

MarkDestroying(r) ==
    /\ At(r, "destroying")
    /\ LET row == UpdatePlacementStateRow(Target(r), req[r].w,
                     {"active", "error", "provisioning", "resuming"}, "destroying")
       IN  Write(r, row) /\ Then(r, IF row # Target(r) THEN "call" ELSE "recheck")
    /\ StoreOnly

\* The read UpdatePlacementState makes when its UPDATE matched no row.
RecheckDestroying(r) ==
    /\ At(r, "recheck")
    /\ IF UpdatePlacementStateErr(Target(r), req[r].w, {}, "destroying") = Nil
       THEN Then(r, "call") ELSE End(r)
    /\ UNCHANGED sandboxes /\ StoreOnly

ReleaseDestroyed(r) ==
    /\ At(r, "release")
    /\ Write(r, ReleasePlacementRow(Target(r), NoHost, "destroyed"))
    /\ End(r)
    /\ StoreOnly

-----------------------------------------------------------------------------
(***************************************************************************)
(* What goes wrong around a request.                                       *)
(***************************************************************************)
Unwaited(t) == task' = [task EXCEPT ![t] = IF @.pc = "done" THEN IdleTask ELSE [@ EXCEPT !.waited = FALSE]]

\* The HTTP client gives up on a call that may still be running.
Timeout(r) ==
    /\ "timeout" \in Faults
    /\ \/ req[r].pc = "wait" /\ Answered(r, Failed) /\ Unwaited(Main(r))
       \/ req[r].pc = "clean_wait" /\ CleanupAnswered(r, Failed) /\ Unwaited(Cleanup(r))
    /\ UNCHANGED <<sandboxes, worker_hosts, admission, sess>>

\* The caller of the request disconnects: its context ends, and with it the call
\* it waits for; a cleanup call goes on.
Disconnect(r) ==
    /\ "cancel" \in Faults
    /\ req[r].live /\ req[r].pc \notin {"idle", "call"}
    /\ LET cancelled == [req EXCEPT ![r].live = FALSE]
       IN  IF req[r].pc # "wait" THEN req' = cancelled /\ UNCHANGED task
           ELSE /\ Unwaited(Main(r))
                /\ req' = IF req[r].op \in {"provision", "resume"}
                          THEN [cancelled EXCEPT ![r].pc = "clean"]
                          ELSE [req EXCEPT ![r] = IdleReq]
    /\ UNCHANGED <<sandboxes, worker_hosts, admission, sess>>

\* A store call on an ended context fails, and so does the request.
StoreCallFails(r) ==
    /\ ~req[r].live
    /\ req[r].pc \notin {"wait", "clean", "clean_wait"}
    /\ End(r)
    /\ UNCHANGED <<sandboxes, worker_hosts, task, admission, sess>>

\* The orchestrator process dies: its requests and their cleanups are forgotten.
OrchestratorStops(r) ==
    /\ "orchestrator" \in Faults
    /\ req[r].pc # "idle"
    /\ End(r)
    /\ task' = [t \in Tasks |->
                  IF t[1] # r THEN task[t]
                  ELSE IF task[t].pc \in {"idle", "done"} THEN IdleTask
                  ELSE [task[t] EXCEPT !.waited = FALSE]]
    /\ UNCHANGED <<sandboxes, worker_hosts, admission, sess>>

-----------------------------------------------------------------------------
(***************************************************************************)
(* The orchestrator's ticker and the registry.                             *)
(***************************************************************************)
RowAges(s) ==
    /\ sandboxes[s].state = "scheduling" /\ ~sandboxes[s].stale
    /\ sandboxes' = [sandboxes EXCEPT ![s].stale = TRUE]
    /\ UNCHANGED req /\ StoreOnly

FailStaleUnplacedSandboxes ==
    /\ \E s \in Sandboxes : FailStaleRow(sandboxes[s]) # sandboxes[s]
    /\ sandboxes' = [s \in Sandboxes |-> FailStaleRow(sandboxes[s])]
    /\ UNCHANGED req /\ StoreOnly

HeartbeatAges(w) ==
    /\ "heartbeat" \in Faults
    /\ worker_hosts[w].heartbeat
    /\ worker_hosts' = [worker_hosts EXCEPT ![w].heartbeat = FALSE, ![w].capacity = FALSE]
    /\ UNCHANGED <<sandboxes, req, task, admission, sess>>

RecordHeartbeat(w) ==
    /\ ~worker_hosts[w].heartbeat
    /\ worker_hosts' = [worker_hosts EXCEPT ![w] = RecordHeartbeatHost(@)]
    /\ UNCHANGED <<sandboxes, req, task, admission, sess>>

-----------------------------------------------------------------------------
RequestStep(r) ==
    \/ GetPlacement(r) \/ Call(r) \/ Reply(r) \/ CleanupCall(r) \/ CleanupReply(r)
    \/ Place(r) \/ MarkError(r) \/ Reject(r) \/ Activate(r)
    \/ MarkRowPaused(r) \/ ReserveResume(r) \/ CancelResume(r)
    \/ MarkDestroying(r) \/ RecheckDestroying(r) \/ ReleaseDestroyed(r)
    \/ StoreCallFails(r)

WorkerStep(t) == TaskStep(t) /\ UNCHANGED <<worker_hosts, req>>

Next ==
    \/ \E r \in Requests, s \in Sandboxes : Create(r, s) \/ Accept(r, s)
    \/ \E r \in Requests : RequestStep(r)
    \/ \E r \in Requests : Timeout(r) \/ Disconnect(r) \/ OrchestratorStops(r)
    \/ \E t \in Tasks : WorkerStep(t)
    \/ \E w \in Workers, s \in Sandboxes : Reap(w, s) /\ UNCHANGED <<worker_hosts, req>>
    \/ \E w \in Workers : Crash(w) /\ UNCHANGED <<worker_hosts, req>>
    \/ \E s \in Sandboxes : RowAges(s)
    \/ FailStaleUnplacedSandboxes
    \/ \E w \in Workers : HeartbeatAges(w) \/ RecordHeartbeat(w)

Spec == Init /\ [][Next]_vars

\* Goroutines run: a request or a task that can take a step takes one in the
\* end.  sync.Mutex hands a contended lock to a waiter that has waited for a
\* millisecond, so a task that keeps waiting for a session lock gets it: strong
\* fairness.  The ticker ticks and time passes.  Clients, reapers and faults
\* are not obliged to anything.
FairSpec ==
    /\ Spec
    /\ \A r \in Requests : WF_vars(RequestStep(r))
    /\ \A t \in Tasks : SF_vars(WorkerStep(t))
    /\ \A s \in Sandboxes : WF_vars(RowAges(s))
    /\ WF_vars(FailStaleUnplacedSandboxes)

-----------------------------------------------------------------------------
(* Properties *)

\* Nothing is in flight: what is there now is what the services live with.
Settled ==
    /\ \A r \in Requests : req[r].pc = "idle"
    /\ \A t \in Tasks : task[t].pc = "idle"

\* A sandbox never exists on two workers, nor on a worker other than the one its
\* row names, nor while its row still waits for a worker: Provision moves on to
\* another worker only after a refusal, which leaves nothing behind, and never
\* after a failure whose outcome it does not know.
OneWorkerPerSandbox ==
    \A s \in Sandboxes :
        LET on == {w \in Workers : sess[w][s].stored \/ sess[w][s].vm}
        IN  /\ Cardinality(on) <= 1
            /\ on # {} => sandboxes[s].host \in on \/ sandboxes[s].state \in {"error", "destroyed"}

\* "A sandbox cannot be reported active until the worker confirms the guest agent
\* is ready": no row becomes active while the create call for it is still running.
ActiveAfterBoot ==
    [][\A s \in Sandboxes :
          sandboxes[s].state # "active" /\ sandboxes'[s].state = "active"
             => \A t \in Tasks : ~(/\ task[t].op = "create" /\ task[t].s = s
                                   /\ task[t].pc \notin {"idle", "done"})]_vars

\* A destroyed sandbox stays destroyed, whatever calls and reports are still on
\* their way when its row is closed.
DestroyedIsFinal ==
    [][\A s \in Sandboxes :
          sandboxes[s].state = "destroyed" => sandboxes'[s].state = "destroyed"]_vars

\* Once nothing is in flight, the row and the worker agree on what costs: an
\* active row has a session that can serve it, a paused row one with its snapshot,
\* no VM and no compute, and a closed row has nothing at all on any worker.
RowsMatchWorkers ==
    Settled => \A s \in Sandboxes, w \in Workers :
        /\ sandboxes[s].host = w /\ sandboxes[s].state = "active"
              => sess[w][s].stored /\ (sess[w][s].vm \/ sess[w][s].files)
        /\ sandboxes[s].host = w /\ sandboxes[s].state = "paused"
              => /\ sess[w][s].stored /\ sess[w][s].files
                 /\ ~sess[w][s].vm /\ admission[w][s] = "paused"
        /\ sandboxes[s].state \in {"error", "destroyed"}
              => ~sess[w][s].stored /\ ~sess[w][s].vm /\ admission[w][s] = "none"

\* "The worker's mutex-protected admission map is the final authority": the VMs of
\* a worker never outnumber what its admission allows to run.
RunningWithinCompute ==
    \A w \in Workers : Cardinality({s \in Sandboxes : sess[w][s].vm}) <= Compute

\* The reservations of a worker never outnumber its slots, however creates,
\* refusals, failed boots, cleanup deletes and restarts interleave (ReserveCreate).
ReservedWithinSlots == \A w \in Workers : Cardinality(Reserved(w)) <= MaxSandboxes

\* A session that is not active has a VM only while the task that restores it
\* holds its lock, or while the create that acquired it has not added the session
\* yet: two resumes, or a resume and a pause, never leave a second VM behind.
PausedHasNoVM ==
    \A w \in Workers, s \in Sandboxes :
        sess[w][s].vm /\ sess[w][s].state # "active"
           => \E t \in Tasks : /\ task[t].w = w /\ task[t].s = s
                              /\ \/ task[t].pc = "r_commit" /\ sess[w][s].lock = t
                                 \/ task[t].pc = "c_add"

\* "Destroy is idempotent and releases VM, terminal, capacity, placement, and
\* writable-disk state": once nothing is in flight, a destroyed sandbox has no VM.
DestroyReleasesVM ==
    Settled => \A w \in Workers, s \in Sandboxes :
        sandboxes[s].state = "destroyed" => ~sess[w][s].vm

\* "CancelResume returns a failed restore to paused": once nothing is in flight,
\* no row is left in resuming.
FailedResumeReturnsToPaused ==
    Settled => \A s \in Sandboxes : sandboxes[s].state # "resuming"

\* Every request is answered, whatever other requests, reapers and faults do: no
\* cycle of session lock, report and worker call blocks.
RequestsFinish == \A r \in Requests : req[r].pc # "idle" ~> req[r].pc = "idle"

\* A row does not wait for a worker for ever, not even when the orchestrator
\* that was placing it died.
SchedulingResolves ==
    \A s \in Sandboxes : sandboxes[s].state = "scheduling" ~> sandboxes[s].state # "scheduling"

\* What the services do to the rows is what Placement allows its callers.
P == INSTANCE Placement

RefinesPlacement == P!Spec
=============================================================================
