--------------------------- MODULE PlacementStore ---------------------------
(***************************************************************************)
(* The sandboxes and worker_hosts tables, and the SQL transactions of      *)
(* internal/platform/orchestration.go as operators on one row.  Every      *)
(* transaction locks the sandbox row it works on (SELECT ... FOR UPDATE),  *)
(* so it is one atomic function of that row:                               *)
(*    XErr(r, ...)  the error the call returns (Nil when it commits),      *)
(*    XRow(r, ...)  the row after the call (r itself when it fails).       *)
(* A sandbox that has no row yet is the row whose state is "none".  The    *)
(* columns kept are state, host_id, and stale: whether updated_at is older *)
(* than the threshold of the scheduling clean-up.                          *)
(***************************************************************************)

CONSTANTS
    Workers,    \* worker_hosts.id
    NoHost      \* host_id IS NULL

ASSUME NoHostIsNoWorker == NoHost \notin Workers

UnplacedStates == {"scheduling", "error", "destroyed"}
PlacedStates   == {"provisioning", "active", "paused", "resuming", "destroying"}
RowStates      == {"none"} \cup UnplacedStates \cup PlacedStates

Rows == [state : RowStates, host : Workers \cup {NoHost}, stale : BOOLEAN]

\* The columns of worker_hosts that a transaction reads.  status is 'active'
\* exactly when draining is false, so it needs no column of its own.
\* heartbeat and capacity: last_heartbeat_at and capacity_reported_at are not
\* older than healthyAfter.
HostRows == [known : BOOLEAN, draining : BOOLEAN, heartbeat : BOOLEAN, capacity : BOOLEAN]

UnknownHost == [known |-> FALSE, draining |-> FALSE, heartbeat |-> FALSE, capacity |-> FALSE]

Nil             == "nil"
SandboxNotFound == "sandbox_not_found"
PlacementBusy   == "scheduler_busy"
NoCapacity      == "no_capacity"
InvalidState    == "invalid_sandbox_state"
StoreErrors     == {Nil, SandboxNotFound, PlacementBusy, NoCapacity, InvalidState}

NoRow == [state |-> "none", host |-> NoHost, stale |-> FALSE]

\* An UPDATE of state and host_id; every UPDATE sets updated_at=now().
Updated(state, host) == [state |-> state, host |-> host, stale |-> FALSE]

InsertRow == Updated("scheduling", NoHost)

-----------------------------------------------------------------------------
\* The workers ReservePlacement may return: active, not draining, heartbeat and
\* capacity report fresh, not excluded.  The best-of-K sample and the score only
\* rank them, and the static shape (vCPUs, memory, disk, image) fits.
Eligible(hosts, excluded) ==
    {w \in Workers \ excluded :
        hosts[w].known /\ ~hosts[w].draining /\ hosts[w].heartbeat /\ hosts[w].capacity}

\* The readiness query of ReserveResume: no capacity report is asked for.
Ready(hosts, w) == hosts[w].known /\ ~hosts[w].draining /\ hosts[w].heartbeat

\* w is the worker the query picked, NoHost when it returned no row.
ReservePlacementErr(r, w) ==
    CASE r.state = "none" -> SandboxNotFound
      [] r.host # NoHost /\ r.state \in {"provisioning", "resuming", "destroying"} -> PlacementBusy
      [] r.host # NoHost /\ r.state \notin {"none", "active", "provisioning", "resuming", "destroying"} -> InvalidState
      [] r.state # "none" /\ r.host = NoHost /\ w = NoHost -> NoCapacity
      [] OTHER -> Nil

\* Mutant: an existing host_id is overwritten.
ReservePlacementRowOverwrites(r, w) ==
    IF r.state # "none" /\ w # NoHost THEN Updated("provisioning", w) ELSE r

ReservePlacementRow(r, w) ==
    IF ReservePlacementErr(r, w) = Nil /\ r.host = NoHost
    THEN Updated("provisioning", w)
    ELSE r

\* The worker of the placement it returns: an existing one is returned as it is.
ReservePlacementWorker(r, w) == IF r.host = NoHost THEN w ELSE r.host

\* GetPlacement joins worker_hosts on host_id: a row without a host is not found.
Placed(r) == r.host # NoHost

UpdatePlacementStateErr(r, w, from, to) ==
    CASE r.host = w /\ (r.state \in from \/ r.state = to) -> Nil
      [] r.state = "none" -> SandboxNotFound
      [] OTHER -> InvalidState

UpdatePlacementStateRow(r, w, from, to) ==
    IF r.host = w /\ r.state \in from THEN Updated(to, w) ELSE r

PausePlacementErr(r, w) ==
    CASE r.state = "none" -> SandboxNotFound
      [] r.host = w /\ r.state \in {"paused", "active"} -> Nil
      [] OTHER -> InvalidState

\* Mutant: the row is paused wherever it is by now.
PausePlacementRowUnchecked(r, w) ==
    IF r.state # "none" THEN Updated("paused", w) ELSE r

PausePlacementRow(r, w) ==
    IF r.host = w /\ r.state = "active" THEN Updated("paused", w) ELSE r

ReserveResumeErr(r, w, hosts) ==
    CASE r.state = "none" -> SandboxNotFound
      [] r.host = w /\ r.state \in {"active", "resuming"} -> Nil
      [] r.host = w /\ r.state = "paused" -> IF Ready(hosts, w) THEN Nil ELSE NoCapacity
      [] OTHER -> InvalidState

ReserveResumeRow(r, w, hosts) ==
    IF r.host = w /\ r.state = "paused" /\ Ready(hosts, w) THEN Updated("resuming", w) ELSE r

CancelResumeErr(r, w) ==
    CASE r.state = "none" -> SandboxNotFound
      [] r.host = w /\ r.state \in {"paused", "resuming"} -> Nil
      [] OTHER -> InvalidState

CancelResumeRow(r, w) ==
    IF r.host = w /\ r.state = "resuming" THEN Updated("paused", w) ELSE r

\* releasePlacement.  expected is NoHost for ReleasePlacement (no worker is
\* expected) and the reporting worker for ReleaseWorkerPlacement; an empty
\* final keeps the state.
ReleasePlacementErr(r, expected, final) ==
    CASE r.state = "none" -> SandboxNotFound
      [] expected = NoHost \/ r.host = expected -> Nil
      [] r.host = NoHost /\ r.state = final -> Nil
      [] OTHER -> InvalidState

\* Mutant: host_id is not cleared.
ReleasePlacementRowKeepsHost(r, expected, final) ==
    IF /\ r.state # "none"
       /\ expected = NoHost \/ r.host = expected
       /\ r.host # NoHost \/ final # ""
    THEN Updated(IF final = "" THEN r.state ELSE final, r.host)
    ELSE r

\* Mutant: an empty final state is written as it is.
ReleasePlacementRowWritesEmpty(r, expected, final) ==
    IF r.state # "none" /\ (expected = NoHost \/ r.host = expected)
    THEN Updated(final, NoHost)
    ELSE r

ReleasePlacementRow(r, expected, final) ==
    IF /\ r.state # "none"
       /\ expected = NoHost \/ r.host = expected
       /\ r.host # NoHost \/ final # ""
    THEN Updated(IF final = "" THEN r.state ELSE final, NoHost)
    ELSE r

\* Mutant: the query looks for rows in the wrong state.
FailStaleRowProvisioning(r) ==
    IF r.state = "provisioning" /\ r.host = NoHost /\ r.stale THEN Updated("error", NoHost) ELSE r

\* FailStaleUnplacedSandboxes, on one row it selects.
FailStaleRow(r) ==
    IF r.state = "scheduling" /\ r.host = NoHost /\ r.stale THEN Updated("error", NoHost) ELSE r

-----------------------------------------------------------------------------
RegisterWorkerHost(h) == [known |-> TRUE, draining |-> FALSE, heartbeat |-> TRUE, capacity |-> h.capacity]

RecordHeartbeatHost(h) == IF h.known THEN [h EXCEPT !.heartbeat = TRUE, !.capacity = TRUE] ELSE h

SetWorkerDrainingHost(h, draining) == IF h.known THEN [h EXCEPT !.draining = draining] ELSE h
=============================================================================
