------------------------------ MODULE Placement ------------------------------
(***************************************************************************)
(* The durable placement of every sandbox, as its callers may change it.   *)
(* The orchestrator runs several requests at once, workers report state on *)
(* their own, and nothing orders the calls of different callers: any       *)
(* transaction may run at any time, for any worker a caller remembers from *)
(* an earlier GetPlacement.  Arguments are those the code passes           *)
(* (internal/orchestrator/orchestrator.go); errors change no row.          *)
(***************************************************************************)
EXTENDS PlacementStore

CONSTANT Sandboxes      \* sandboxes.id

VARIABLES
    sandboxes,          \* the sandboxes table: a row per sandbox id
    worker_hosts        \* the worker_hosts table: a row per worker id

vars == <<sandboxes, worker_hosts>>

\* Both tables keep their column types: no transaction writes a state the schema
\* does not know, an empty one included.
TypeOK ==
    /\ sandboxes \in [Sandboxes -> Rows]
    /\ worker_hosts \in [Workers -> HostRows]

\* No sandbox yet; the registry may hold workers that registered earlier.
Init ==
    /\ sandboxes = [s \in Sandboxes |-> NoRow]
    /\ worker_hosts \in [Workers -> {h \in HostRows : h.known \/ h = UnknownHost}]

WriteRow(s, r) ==
    /\ sandboxes' = [sandboxes EXCEPT ![s] = r]
    /\ UNCHANGED worker_hosts

WriteHost(w, h) ==
    /\ worker_hosts' = [worker_hosts EXCEPT ![w] = h]
    /\ UNCHANGED sandboxes

-----------------------------------------------------------------------------
(* sandboxes *)

\* The control plane writes the scheduling row of a fresh UUID.
InsertSandbox(s) ==
    /\ sandboxes[s].state = "none"
    /\ WriteRow(s, InsertRow)

\* Place: excluded are the workers that already refused this request.
ReservePlacement(s, w) ==
    /\ \E excluded \in SUBSET Workers : w \in Eligible(worker_hosts, excluded)
    /\ ReservePlacementErr(sandboxes[s], w) = Nil
    /\ WriteRow(s, ReservePlacementRow(sandboxes[s], w))

\* Mutant: a worker's "active" report is accepted for a paused row as well.
TransitionsFromPaused ==
    { [from |-> {"provisioning"}, to |-> "active"],
      [from |-> {"resuming"}, to |-> "active"],
      [from |-> {"active", "error", "provisioning", "resuming"}, to |-> "destroying"],
      [from |-> {"resuming", "provisioning", "paused"}, to |-> "active"] }

\* The transitions UpdatePlacementState is called with: the end of Provision,
\* the end of Resume, the start of Destroy and a worker's "active" report.
Transitions ==
    { [from |-> {"provisioning"}, to |-> "active"],
      [from |-> {"resuming"}, to |-> "active"],
      [from |-> {"active", "error", "provisioning", "resuming"}, to |-> "destroying"],
      [from |-> {"resuming", "provisioning"}, to |-> "active"] }

UpdatePlacementState(s, w) ==
    \E t \in Transitions :
        WriteRow(s, UpdatePlacementStateRow(sandboxes[s], w, t.from, t.to))

PausePlacement(s, w) == WriteRow(s, PausePlacementRow(sandboxes[s], w))

ReserveResume(s, w) == WriteRow(s, ReserveResumeRow(sandboxes[s], w, worker_hosts))

CancelResume(s, w) == WriteRow(s, CancelResumeRow(sandboxes[s], w))

\* The final states of ReleasePlacement: Provision gives up ("error"), a worker
\* refuses ("scheduling"), Destroy ends ("destroyed"), DELETE /internal/placements ("").
ReleasePlacement(s) ==
    \E final \in {"error", "scheduling", "destroyed", ""} :
        WriteRow(s, ReleasePlacementRow(sandboxes[s], NoHost, final))

\* A worker reports a sandbox destroyed.
ReleaseWorkerPlacement(s, w) ==
    WriteRow(s, ReleasePlacementRow(sandboxes[s], w, "destroyed"))

\* The orchestrator's minute ticker.
FailStaleUnplacedSandboxes ==
    /\ sandboxes' = [s \in Sandboxes |-> FailStaleRow(sandboxes[s])]
    /\ UNCHANGED worker_hosts

\* Time passes: five minutes without an update of an unplaced scheduling row
\* (the only rows whose age is ever read).
RowAges(s) ==
    /\ sandboxes[s].state = "scheduling"
    /\ sandboxes[s].host = NoHost
    /\ WriteRow(s, [sandboxes[s] EXCEPT !.stale = TRUE])

-----------------------------------------------------------------------------
(* worker_hosts *)

RegisterWorker(w) == WriteHost(w, RegisterWorkerHost(worker_hosts[w]))

RecordHeartbeat(w) == WriteHost(w, RecordHeartbeatHost(worker_hosts[w]))

SetWorkerDraining(w) ==
    \E draining \in BOOLEAN : WriteHost(w, SetWorkerDrainingHost(worker_hosts[w], draining))

\* Time passes: the last capacity report, or the last heartbeat with it, grows
\* older than the heartbeat TTL.
HeartbeatAges(w) ==
    \E fresh \in BOOLEAN :
        WriteHost(w, [worker_hosts[w] EXCEPT !.heartbeat = fresh /\ @, !.capacity = FALSE])

-----------------------------------------------------------------------------
RowStep(s) ==
    \/ InsertSandbox(s)
    \/ ReleasePlacement(s)
    \/ RowAges(s)
    \/ \E w \in Workers :
          \/ ReservePlacement(s, w)
          \/ UpdatePlacementState(s, w)
          \/ PausePlacement(s, w)
          \/ ReserveResume(s, w)
          \/ CancelResume(s, w)
          \/ ReleaseWorkerPlacement(s, w)

HostStep(w) == RegisterWorker(w) \/ RecordHeartbeat(w) \/ SetWorkerDraining(w) \/ HeartbeatAges(w)

Next ==
    \/ \E s \in Sandboxes : RowStep(s)
    \/ FailStaleUnplacedSandboxes
    \/ \E w \in Workers : HostStep(w)

Spec == Init /\ [][Next]_vars

-----------------------------------------------------------------------------
(* Properties *)

\* A row that names a host is in a state in which a worker may hold the sandbox,
\* and a row that was closed ("error", "destroyed") or waits for a worker names
\* none: no transaction closes a row and leaves its host behind, in whatever
\* order callers that remember stale placements run them.
HostOnlyWhilePlaced ==
    \A s \in Sandboxes : sandboxes[s].host # NoHost => sandboxes[s].state \in PlacedStates

\* A placement is never handed from one worker to another: between two hosts a
\* row is always unplaced first (ReservePlacement never overwrites host_id).
HostNeverSwaps ==
    [][\A s \in Sandboxes :
          sandboxes[s].host # NoHost /\ sandboxes'[s].host # NoHost
             => sandboxes'[s].host = sandboxes[s].host]_vars

\* "A paused sandbox cannot become active until Resume has atomically reacquired
\* compute capacity and moved it to resuming" (ReportWorkerState): no caller, and
\* no late report, takes a row from paused to active in one step.
PausedWakesThroughResuming ==
    [][\A s \in Sandboxes :
          sandboxes[s].state = "paused" => sandboxes'[s].state # "active"]_vars
=============================================================================
