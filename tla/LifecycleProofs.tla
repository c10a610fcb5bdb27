--------------------------- MODULE LifecycleProofs ---------------------------
(***************************************************************************)
(* Lifecycle for any number of workers, sandboxes and requests: every      *)
(* variable keeps its type, and what the services do to the rows is what   *)
(* Placement allows.                                                       *)
(* The frames of the steps are in LifecycleFrames.                         *)
(***************************************************************************)
EXTENDS LifecycleFrames

-----------------------------------------------------------------------------
(* Placement allows it. *)

RowWrite(s, row) == sandboxes' = [sandboxes EXCEPT ![s] = row] /\ UNCHANGED worker_hosts

\* The store's operators are the same in both specifications.
LEMMA SameStore ==
    /\ \A row, w : P!ReservePlacementRow(row, w) = ReservePlacementRow(row, w)
    /\ \A row, w : P!PausePlacementRow(row, w) = PausePlacementRow(row, w)
    /\ \A row, w, hosts : P!ReserveResumeRow(row, w, hosts) = ReserveResumeRow(row, w, hosts)
    /\ \A row, w : P!CancelResumeRow(row, w) = CancelResumeRow(row, w)
    /\ \A row, w, from, to : P!UpdatePlacementStateRow(row, w, from, to) = UpdatePlacementStateRow(row, w, from, to)
    /\ \A row, x, final : P!ReleasePlacementRow(row, x, final) = ReleasePlacementRow(row, x, final)
    /\ \A row : P!FailStaleRow(row) = FailStaleRow(row)
    /\ P!InsertRow = InsertRow
<1>1. \A st, h : P!Updated(st, h) = Updated(st, h)
  BY DEF P!Updated, Updated
<1>2. \A row, w : P!ReservePlacementErr(row, w) = ReservePlacementErr(row, w)
  BY DEF P!ReservePlacementErr, ReservePlacementErr, P!SandboxNotFound, SandboxNotFound, P!PlacementBusy, PlacementBusy,
     P!InvalidState, InvalidState, P!NoCapacity, NoCapacity, P!Nil, Nil
<1>3. \A row, w : P!ReservePlacementRow(row, w) = ReservePlacementRow(row, w)
  BY <1>1, <1>2 DEF P!ReservePlacementRow, ReservePlacementRow, P!Nil, Nil
<1>4. \A row, w : /\ P!PausePlacementRow(row, w) = PausePlacementRow(row, w)
                  /\ P!CancelResumeRow(row, w) = CancelResumeRow(row, w)
  BY <1>1 DEF P!PausePlacementRow, PausePlacementRow, P!CancelResumeRow, CancelResumeRow
<1>5. \A row, w, hosts : P!ReserveResumeRow(row, w, hosts) = ReserveResumeRow(row, w, hosts)
  BY <1>1 DEF P!ReserveResumeRow, ReserveResumeRow, P!Ready, Ready
<1>6. \A row, w, from, to : P!UpdatePlacementStateRow(row, w, from, to) = UpdatePlacementStateRow(row, w, from, to)
  BY <1>1 DEF P!UpdatePlacementStateRow, UpdatePlacementStateRow
<1>7. \A row, x, final : P!ReleasePlacementRow(row, x, final) = ReleasePlacementRow(row, x, final)
  BY Zenon, <1>1 DEF P!ReleasePlacementRow, ReleasePlacementRow
<1>8. (\A row : P!FailStaleRow(row) = FailStaleRow(row)) /\ P!InsertRow = InsertRow
  BY <1>1 DEF P!FailStaleRow, FailStaleRow, P!InsertRow, InsertRow
<1> QED BY <1>3, <1>4, <1>5, <1>6, <1>7, <1>8

\* Every transaction that the services run is one that Placement has.
LEMMA Allowed ==
    ASSUME NEW s \in Sandboxes, NEW w \in Workers,
           \/ sandboxes[s].state = "none" /\ RowWrite(s, InsertRow)
           \/ RowWrite(s, PausePlacementRow(sandboxes[s], w))
           \/ RowWrite(s, ReserveResumeRow(sandboxes[s], w, worker_hosts))
           \/ RowWrite(s, CancelResumeRow(sandboxes[s], w))
           \/ RowWrite(s, UpdatePlacementStateRow(sandboxes[s], w, {"provisioning"}, "active"))
           \/ RowWrite(s, UpdatePlacementStateRow(sandboxes[s], w, {"resuming"}, "active"))
           \/ RowWrite(s, UpdatePlacementStateRow(sandboxes[s], w, {"resuming", "provisioning"}, "active"))
           \/ RowWrite(s, UpdatePlacementStateRow(sandboxes[s], w,
                            {"active", "error", "provisioning", "resuming"}, "destroying"))
           \/ RowWrite(s, ReleasePlacementRow(sandboxes[s], w, "destroyed"))
    PROVE  P!RowStep(s)
<1>1. CASE sandboxes[s].state = "none" /\ RowWrite(s, InsertRow)
  BY <1>1, SameStore DEF P!RowStep, P!InsertSandbox, P!WriteRow, RowWrite
<1>2. CASE RowWrite(s, PausePlacementRow(sandboxes[s], w))
  BY Zenon, <1>2, SameStore DEF P!RowStep, P!PausePlacement, P!WriteRow, RowWrite
<1>3. CASE RowWrite(s, ReserveResumeRow(sandboxes[s], w, worker_hosts))
  BY Zenon, <1>3, SameStore DEF P!RowStep, P!ReserveResume, P!WriteRow, RowWrite
<1>4. CASE RowWrite(s, CancelResumeRow(sandboxes[s], w))
  BY Zenon, <1>4, SameStore DEF P!RowStep, P!CancelResume, P!WriteRow, RowWrite
<1>5. ASSUME NEW tr \in P!Transitions, RowWrite(s, UpdatePlacementStateRow(sandboxes[s], w, tr.from, tr.to))
      PROVE  P!RowStep(s)
  BY Zenon, <1>5, SameStore DEF P!RowStep, P!UpdatePlacementState, P!WriteRow, RowWrite
<1>6. /\ [from |-> {"provisioning"}, to |-> "active"] \in P!Transitions
      /\ [from |-> {"resuming"}, to |-> "active"] \in P!Transitions
      /\ [from |-> {"active", "error", "provisioning", "resuming"}, to |-> "destroying"] \in P!Transitions
      /\ [from |-> {"resuming", "provisioning"}, to |-> "active"] \in P!Transitions
  BY DEF P!Transitions
<1>7. CASE \/ RowWrite(s, UpdatePlacementStateRow(sandboxes[s], w, {"provisioning"}, "active"))
           \/ RowWrite(s, UpdatePlacementStateRow(sandboxes[s], w, {"resuming"}, "active"))
           \/ RowWrite(s, UpdatePlacementStateRow(sandboxes[s], w, {"resuming", "provisioning"}, "active"))
           \/ RowWrite(s, UpdatePlacementStateRow(sandboxes[s], w,
                            {"active", "error", "provisioning", "resuming"}, "destroying"))
  <2> DEFINE T(f, x) == [from |-> f, to |-> x]
  <2>1. \A f, x : T(f, x).from = f /\ T(f, x).to = x
    OBVIOUS
  <2>2. ASSUME NEW f, NEW x, T(f, x) \in P!Transitions, RowWrite(s, UpdatePlacementStateRow(sandboxes[s], w, f, x))
        PROVE  P!RowStep(s)
    BY <1>5, <2>1, <2>2
  <2> QED BY <1>6, <1>7, <2>2
<1>8. CASE RowWrite(s, ReleasePlacementRow(sandboxes[s], w, "destroyed"))
  BY Zenon, <1>8, SameStore DEF P!RowStep, P!ReleaseWorkerPlacement, P!WriteRow, RowWrite
<1> QED BY <1>1, <1>2, <1>3, <1>4, <1>7, <1>8

\* ReleasePlacement asks for no worker.
LEMMA AllowedRelease ==
    ASSUME NEW s \in Sandboxes, NEW final \in {"error", "scheduling", "destroyed"},
           RowWrite(s, ReleasePlacementRow(sandboxes[s], NoHost, final))
    PROVE  P!RowStep(s)
BY Zenon, SameStore DEF P!RowStep, P!ReleasePlacement, P!WriteRow, RowWrite

\* ReservePlacement picks an eligible worker, and commits.
LEMMA AllowedReserve ==
    ASSUME NEW s \in Sandboxes, NEW excluded \in SUBSET Workers, NEW w \in Eligible(worker_hosts, excluded),
           RowWrite(s, ReservePlacementRow(sandboxes[s], w)),
           ReservePlacementErr(sandboxes[s], w) = Nil
    PROVE  P!RowStep(s)
<1>1. w \in Workers /\ w \in P!Eligible(worker_hosts, excluded)
  BY DEF Eligible, P!Eligible
<1>2. P!ReservePlacementErr(sandboxes[s], w) = P!Nil
  BY DEF P!ReservePlacementErr, ReservePlacementErr, P!SandboxNotFound, SandboxNotFound, P!PlacementBusy, PlacementBusy,
     P!InvalidState, InvalidState, P!NoCapacity, NoCapacity, P!Nil, Nil
<1>3. P!ReservePlacement(s, w)
  BY Zenon, <1>1, <1>2, SameStore DEF P!ReservePlacement, P!WriteRow, RowWrite
<1> QED BY <1>1, <1>3 DEF P!RowStep

-----------------------------------------------------------------------------
(* One step. *)

TasksOK == \A t \in Tasks : TaskOK(t, task[t])
ReqsOK  == \A r \in Requests : ReqOK(req[r])
RowsOK  == \A s \in Sandboxes : RowOK(sandboxes[s])

\* What Placement says of a step.
Refined == [P!Next]_(P!vars)

\* A step that writes one row, as Placement allows it.
LEMMA RowKept ==
    ASSUME Types, RowsOK, NEW s \in Sandboxes, NEW row, RowOK(row), sandboxes' = [sandboxes EXCEPT ![s] = row]
    PROVE  sandboxes' \in [Sandboxes -> Rows] /\ RowsOK'
BY DEF Types, RowsOK, RowOK

\* The parts that a step leaves alone.
LEMMA SameKept ==
    ASSUME ControlInv
    PROVE  /\ UNCHANGED sandboxes => sandboxes' \in [Sandboxes -> Rows] /\ RowsOK'
           /\ UNCHANGED task => task' \in [Tasks -> TaskRec] /\ TasksOK'
           /\ UNCHANGED req => req' \in [Requests -> ReqRec] /\ ReqsOK'
           /\ UNCHANGED admission => admission' \in [Workers -> [Sandboxes -> AdmRec]]
           /\ UNCHANGED sess => sess' \in [Workers -> [Sandboxes -> SessRec]]
           /\ UNCHANGED worker_hosts => worker_hosts' \in [Workers -> HostRows]
BY DEF ControlInv, Types, RowsOK, TasksOK, ReqsOK

\* A step of one request, or of one task.
LEMMA ReqKept ==
    ASSUME ReqsOK, NEW r \in Requests, ReqPart(r), ReqOK(req'[r])
    PROVE  req' \in [Requests -> ReqRec] /\ ReqsOK'
BY DEF ReqsOK, ReqPart

LEMMA TaskKept ==
    ASSUME TasksOK, NEW t \in Tasks, TaskPart(t), TaskOK(t, task'[t])
    PROVE  task' \in [Tasks -> TaskRec] /\ TasksOK'
BY DEF TasksOK, TaskPart

\* The parts make up the invariant.
LEMMA Parts ==
    /\ ControlInv <=> Types /\ RowsOK /\ TasksOK /\ ReqsOK
    /\ ControlInv' <=> /\ sandboxes' \in [Sandboxes -> Rows] /\ RowsOK'
                       /\ task' \in [Tasks -> TaskRec] /\ TasksOK'
                       /\ req' \in [Requests -> ReqRec] /\ ReqsOK'
                       /\ admission' \in [Workers -> [Sandboxes -> AdmRec]]
                       /\ sess' \in [Workers -> [Sandboxes -> SessRec]]
                       /\ worker_hosts' \in [Workers -> HostRows]
BY DEF ControlInv, Types, RowsOK, TasksOK, ReqsOK

\* A step that touches no row and no host stutters in Placement.
LEMMA Stutters == UNCHANGED <<sandboxes, worker_hosts>> => Refined
BY DEF Refined, P!vars

LEMMA RowStepRefines == ASSUME NEW s \in Sandboxes, P!RowStep(s) PROVE Refined
BY DEF Refined, P!Next

\* A row written with its own value.
LEMMA SameRow ==
    ASSUME Types, NEW s \in Sandboxes, sandboxes' = [sandboxes EXCEPT ![s] = sandboxes[s]]
    PROVE  UNCHANGED sandboxes
BY DEF Types

\* A client's request starts.
LEMMA StartControl ==
    ASSUME ControlInv, NEW r \in Requests, NEW s \in Sandboxes, Create(r, s) \/ Accept(r, s)
    PROVE  ControlInv' /\ Refined
<1>  Types /\ RowsOK /\ TasksOK /\ ReqsOK
  BY Parts
<1>1. UNCHANGED <<worker_hosts, task, admission, sess>>
  BY Zenon DEF Create, Accept, StoreOnly
<1>2. ASSUME NEW pc \in {"place", "get"}, NEW op \in AllOps, Passes(op, pc),
             req' = [req EXCEPT ![r] = [IdleReq EXCEPT !.pc = pc, !.op = op, !.s = s]]
      PROVE  req' \in [Requests -> ReqRec] /\ ReqsOK'
  <2> DEFINE k == [IdleReq EXCEPT !.pc = pc, !.op = op, !.s = s]
  <2>1. k \in ReqRec
    BY Zenon, IdleReqType DEF ReqRec, ReqPcs
  <2>2. k.pc = pc /\ k.op = op /\ k.s = s
    BY IdleReqType DEF ReqRec
  <2>3. req' = [req EXCEPT ![r] = k]
    BY <1>2
  <2> HIDE DEF k
  <2>4. ReqPart(r) /\ req'[r] = k
    BY <2>1, <2>3 DEF Types, ReqPart
  <2>5. ReqOK(req'[r])
    BY <1>2, <2>2, <2>4 DEF ReqOK, Unplaced
  <2> QED BY <2>4, <2>5, ReqKept
<1>3. CASE Create(r, s)
  <2>1. "provision" \in AllOps /\ Passes("provision", "place")
    BY DEF AllOps, Passes
  <2>2. req' \in [Requests -> ReqRec] /\ ReqsOK'
    BY Zenon, <1>2, <1>3, <2>1 DEF Create
  <2>3. sandboxes' = [sandboxes EXCEPT ![s] = InsertRow] /\ sandboxes[s].state = "none"
    BY <1>3 DEF Create
  <2>4. RowOK(InsertRow)
    BY NoHostIsNoWorker DEF InsertRow, Updated, RowOK, Rows, RowStates, UnplacedStates
  <2>5. sandboxes' \in [Sandboxes -> Rows] /\ RowsOK'
    BY Zenon, <2>3, <2>4, RowKept
  <2>6. Refined
    <3>1. P!InsertSandbox(s)
      BY <1>1, <2>3, SameStore DEF P!InsertSandbox, P!WriteRow
    <3> QED BY <3>1, RowStepRefines DEF P!RowStep
  <2> QED BY <1>1, <2>2, <2>5, <2>6, SameKept, Parts
<1>4. CASE Accept(r, s)
  <2>1. PICK op \in Ops \ {"provision"} :
          req' = [req EXCEPT ![r] = [IdleReq EXCEPT !.pc = "get", !.op = op, !.s = s]]
    BY Zenon, <1>4 DEF Accept
  <2>2. op \in AllOps /\ Passes(op, "get")
    BY LifecycleConstants DEF AllOps, Passes
  <2>3. req' \in [Requests -> ReqRec] /\ ReqsOK'
    BY Zenon, <1>2, <2>1, <2>2
  <2>4. UNCHANGED sandboxes
    BY Zenon, <1>4 DEF Accept
  <2> QED BY <1>1, <2>3, <2>4, SameKept, Parts, Stutters
<1> QED BY <1>3, <1>4

\* A request that goes on is well formed, and so is one that ends.
LEMMA GoesOn ==
    ASSUME ControlInv, NEW r \in Requests, ReqPart(r), req[r].pc # "idle",
           \/ req'[r] = IdleReq
           \/ \E op, pc, w : Leads(r, op, pc, w) /\ (w \in Workers \/ pc \in Unplaced)
    PROVE  req' \in [Requests -> ReqRec] /\ ReqsOK'
<1>1. Types /\ ReqsOK /\ ReqOK(req[r])
  BY Parts DEF ReqsOK
<1>2. req[r].s \in Sandboxes
  BY <1>1, ReqFacts
<1>3. CASE req'[r] = IdleReq
  BY <1>1, <1>3, IdleReqOK, ReqKept
<1>4. CASE \E op, pc, w : Leads(r, op, pc, w) /\ (w \in Workers \/ pc \in Unplaced)
  <2>1. PICK op, pc, w : Leads(r, op, pc, w) /\ (w \in Workers \/ pc \in Unplaced)
    BY <1>4
  <2>2. ReqOK(req'[r])
    BY <1>2, <2>1, LeadsOK
  <2> QED BY <1>1, <2>2, ReqKept
<1> QED BY <1>3, <1>4

\* Place.
LEMMA PlaceControl ==
    ASSUME ControlInv, NEW r \in Requests, Place(r)
    PROVE  ControlInv' /\ Refined
<1> DEFINE s == req[r].s
<1>  Types /\ RowsOK /\ TasksOK /\ ReqsOK /\ ReqOK(req[r])
  BY Parts DEF ReqsOK
<1>1. ReqPart(r) /\ StoreOnly /\ req[r].pc = "place" /\ s \in Sandboxes /\ req[r] \in ReqRec
  <2>1. ReqPart(r) /\ StoreOnly /\ req[r].pc = "place"
    BY PlaceMoves
  <2> QED BY <2>1, ReqFacts
<1>2. \/ UNCHANGED sandboxes /\ \E pc, w : Leads(r, "provision", pc, w) /\ (w \in Workers \/ pc \in Unplaced)
      \/ \E w \in Eligible(worker_hosts, req[r].excluded) :
            /\ w \in Workers /\ Leads(r, "provision", "call", w)
            /\ ReservePlacementErr(Target(r), w) = Nil
            /\ Write(r, ReservePlacementRow(Target(r), w))
  <2>1. Write(r, Target(r)) => UNCHANGED sandboxes
    BY Zenon, <1>1, SameRow DEF Write, Target
  <2>2. "unscheduled" \in Unplaced
    BY DEF Unplaced
  <2> QED BY <2>1, <2>2, PlaceMoves
<1>3. req' \in [Requests -> ReqRec] /\ ReqsOK'
  BY <1>1, <1>2, GoesOn
<1>4. CASE UNCHANGED sandboxes
  BY <1>1, <1>3, <1>4, SameKept, Parts, Stutters DEF StoreOnly
<1>5. ASSUME NEW w \in Eligible(worker_hosts, req[r].excluded),
             w \in Workers, ReservePlacementErr(Target(r), w) = Nil,
             Write(r, ReservePlacementRow(Target(r), w))
      PROVE  ControlInv' /\ Refined
  <2>1. RowOK(ReservePlacementRow(Target(r), w))
    BY Zenon, <1>1, <1>5, StoreOps DEF RowsOK, Target
  <2>2. sandboxes' \in [Sandboxes -> Rows] /\ RowsOK'
    BY Zenon, <1>1, <1>5, <2>1, RowKept DEF Write
  <2>3. req[r].excluded \in SUBSET Workers
    BY <1>1 DEF ReqRec
  <2>4. RowWrite(s, ReservePlacementRow(sandboxes[s], w)) /\ ReservePlacementErr(sandboxes[s], w) = Nil
    BY <1>1, <1>5 DEF Write, Target, RowWrite, StoreOnly
  <2>5. P!RowStep(s)
    BY <1>1, <1>5, <2>3, <2>4, AllowedReserve
  <2> QED BY <1>1, <1>3, <2>2, <2>5, SameKept, Parts, RowStepRefines DEF StoreOnly
<1> QED BY <1>2, <1>4, <1>5

\* The other transactions.
LEMMA StoreControl ==
    ASSUME ControlInv, NEW r \in Requests, OtherStoreStep(r)
    PROVE  ControlInv' /\ Refined
<1> DEFINE s == req[r].s
<1>  Types /\ RowsOK /\ TasksOK /\ ReqsOK /\ ReqOK(req[r])
  BY Parts DEF ReqsOK
<1>1. /\ ReqPart(r) /\ StoreOnly /\ Transacts(r) /\ req[r].pc # "idle"
      /\ req[r].w \in Workers \/ req[r].pc \in {"unscheduled", "release"}
  BY StoreMoves
<1>2. s \in Sandboxes /\ RowOK(sandboxes[s]) /\ Passes(req[r].op, req[r].pc)
  BY <1>1, ReqFacts DEF RowsOK
<1>3. req' \in [Requests -> ReqRec] /\ ReqsOK'
  <2>1. \/ req'[r] = IdleReq
        \/ Leads(r, "provision", "place", req[r].w)
        \/ req[r].op = "resume" /\ Leads(r, "resume", "call", req[r].w)
        \/ req[r].op = "destroy" /\ \E pc \in {"call", "recheck"} : Leads(r, "destroy", pc, req[r].w)
    BY <1>1 DEF Transacts
  <2>2. "place" \in Unplaced
    BY DEF Unplaced
  <2>3. CASE req[r].w \in Workers
    BY <1>1, <2>1, <2>2, <2>3, GoesOn
  <2>4. CASE req[r].pc \in {"unscheduled", "release"}
    <3>1. CASE req'[r] = IdleReq \/ Leads(r, "provision", "place", req[r].w)
      BY <1>1, <3>1, <2>2, GoesOn
    <3>2. CASE req[r].op = "destroy" /\ req[r].pc = "release" /\ req'[r] # IdleReq
      <4>1. ReleaseDestroyed(r)
        BY <3>2 DEF OtherStoreStep, MarkError, Reject, Activate, MarkRowPaused, ReserveResume, CancelResume,
           MarkDestroying, RecheckDestroying, ReleaseDestroyed, At
      <4>2. End(r)
        BY <4>1 DEF ReleaseDestroyed
      <4> QED BY <3>2, <4>2, EndMoves
    <3>3. req[r].op = "resume" => req[r].pc \notin {"unscheduled", "release"}
      BY <1>2 DEF Passes
    <3>4. req[r].op = "destroy" => req[r].pc # "unscheduled"
      BY <1>2 DEF Passes
    <3> QED BY <2>1, <2>4, <3>1, <3>2, <3>3, <3>4
  <2> QED BY <1>1, <2>3, <2>4
<1>4. ASSUME NEW row, RowOK(row), P!RowStep(s), sandboxes' = [sandboxes EXCEPT ![s] = row]
      PROVE  ControlInv' /\ Refined
  <2>1. sandboxes' \in [Sandboxes -> Rows] /\ RowsOK'
    BY Zenon, <1>2, <1>4, RowKept
  <2> QED BY <1>1, <1>2, <1>3, <1>4, <2>1, SameKept, Parts, RowStepRefines DEF StoreOnly
<1>5. ASSUME NEW final \in {"error", "scheduling", "destroyed"}, Write(r, ReleasePlacementRow(Target(r), NoHost, final))
      PROVE  ControlInv' /\ Refined
  <2>1. RowOK(ReleasePlacementRow(sandboxes[s], NoHost, final))
    <3>1. \A st \in {"scheduling", "error", "destroyed"} : RowOK(Updated(st, NoHost))
      BY UpdatedRow, NoHostIsNoWorker DEF RowStates, UnplacedStates
    <3> QED BY Zenon, <1>2, <3>1 DEF ReleasePlacementRow
  <2>2. RowWrite(s, ReleasePlacementRow(sandboxes[s], NoHost, final))
    BY <1>1, <1>5 DEF Write, Target, RowWrite, StoreOnly
  <2>3. P!RowStep(s)
    BY <1>2, <2>2, AllowedRelease
  <2> QED BY Zenon, <1>4, <2>1, <2>2, <2>3 DEF RowWrite
<1>6. CASE UNCHANGED sandboxes
  BY <1>1, <1>3, <1>6, SameKept, Parts, Stutters DEF StoreOnly
<1>7. ASSUME req[r].w \in Workers,
             \/ Write(r, UpdatePlacementStateRow(Target(r), req[r].w, {"provisioning"}, "active"))
             \/ Write(r, UpdatePlacementStateRow(Target(r), req[r].w, {"resuming"}, "active"))
             \/ Write(r, UpdatePlacementStateRow(Target(r), req[r].w,
                     {"active", "error", "provisioning", "resuming"}, "destroying"))
             \/ Write(r, PausePlacementRow(Target(r), req[r].w))
             \/ Write(r, ReserveResumeRow(Target(r), req[r].w, worker_hosts))
             \/ Write(r, CancelResumeRow(Target(r), req[r].w))
      PROVE  ControlInv' /\ Refined
  <2> DEFINE row == sandboxes[s]
             w == req[r].w
  <2>1. \E x : RowOK(x) /\ sandboxes' = [sandboxes EXCEPT ![s] = x]
    BY Zenon, <1>2, <1>7, StoreOps DEF Write, Target
  <2>2. \/ RowWrite(s, UpdatePlacementStateRow(row, w, {"provisioning"}, "active"))
        \/ RowWrite(s, UpdatePlacementStateRow(row, w, {"resuming"}, "active"))
        \/ RowWrite(s, UpdatePlacementStateRow(row, w, {"active", "error", "provisioning", "resuming"}, "destroying"))
        \/ RowWrite(s, PausePlacementRow(row, w))
        \/ RowWrite(s, ReserveResumeRow(row, w, worker_hosts))
        \/ RowWrite(s, CancelResumeRow(row, w))
    BY Zenon, <1>1, <1>7 DEF Write, Target, RowWrite, StoreOnly
  <2>3. P!RowStep(s)
    BY <1>2, <1>7, <2>2, Allowed
  <2> QED BY Zenon, <1>4, <2>1, <2>3
<1>8. \/ UNCHANGED sandboxes
      \/ \E final \in {"error", "scheduling", "destroyed"} : Write(r, ReleasePlacementRow(Target(r), NoHost, final))
      \/ /\ req[r].pc \notin {"unscheduled", "release"}
         /\ \/ Write(r, UpdatePlacementStateRow(Target(r), req[r].w, {"provisioning"}, "active"))
            \/ Write(r, UpdatePlacementStateRow(Target(r), req[r].w, {"resuming"}, "active"))
            \/ Write(r, UpdatePlacementStateRow(Target(r), req[r].w,
                     {"active", "error", "provisioning", "resuming"}, "destroying"))
            \/ Write(r, PausePlacementRow(Target(r), req[r].w))
            \/ Write(r, ReserveResumeRow(Target(r), req[r].w, worker_hosts))
            \/ Write(r, CancelResumeRow(Target(r), req[r].w))
  BY Zenon DEF OtherStoreStep, MarkError, Reject, Activate, MarkRowPaused, ReserveResume, CancelResume,
         MarkDestroying, RecheckDestroying, ReleaseDestroyed, At
<1> QED BY <1>1, <1>5, <1>6, <1>7, <1>8

\* A placement is read, or the request fails on its ended context.
LEMMA ReadControl ==
    ASSUME ControlInv, NEW r \in Requests, GetPlacement(r) \/ StoreCallFails(r)
    PROVE  ControlInv' /\ Refined
<1>  Types /\ ReqOK(req[r])
  BY Parts DEF ReqsOK
<1>1. CASE GetPlacement(r)
  <2>1. UNCHANGED <<sandboxes, worker_hosts, task, admission, sess>> /\ req[r].pc = "get"
    BY <1>1 DEF GetPlacement, StoreOnly, At
  <2>2. "release" \in Unplaced
    BY DEF Unplaced
  <2>3. req' \in [Requests -> ReqRec] /\ ReqsOK'
    BY <1>1, <2>1, <2>2, GetPlacementMoves, GoesOn
  <2> QED BY <2>1, <2>3, SameKept, Parts, Stutters
<1>2. CASE StoreCallFails(r)
  <2>1. UNCHANGED <<sandboxes, worker_hosts, task, admission, sess>> /\ End(r)
    BY <1>2 DEF StoreCallFails
  <2>2. req' \in [Requests -> ReqRec] /\ ReqsOK'
    BY <2>1, EndMoves, ReqKept, IdleReqOK, Parts
  <2> QED BY <2>1, <2>2, SameKept, Parts, Stutters
<1> QED BY <1>1, <1>2

\* The calls that a request makes.
LEMMA WorkerOps ==
    /\ \A op \in AllOps : WorkerOp(op) \in TaskOps /\ RunBy("main", WorkerOp(op)) /\ (WorkerOp(op) = "create" <=> op = "provision")
    /\ \A op : CleanupOp(op) \in TaskOps /\ RunBy("cleanup", CleanupOp(op)) /\ CleanupOp(op) # "create"
<1>1. ASSUME NEW op \in AllOps
      PROVE  \/ op = "provision" /\ WorkerOp(op) = "create"
             \/ op = "destroy" /\ WorkerOp(op) = "delete"
             \/ op \in {"pause", "resume", "exec"} /\ WorkerOp(op) = op
  BY Zenon DEF WorkerOp, AllOps
<1>2. \A op \in AllOps : WorkerOp(op) \in TaskOps /\ RunBy("main", WorkerOp(op)) /\ (WorkerOp(op) = "create" <=> op = "provision")
  BY <1>1 DEF TaskOps, RunBy
<1>3. \A op : CleanupOp(op) \in TaskOps /\ RunBy("cleanup", CleanupOp(op)) /\ CleanupOp(op) # "create"
  BY DEF CleanupOp, TaskOps, RunBy
<1> QED BY <1>2, <1>3

\* Calls to the worker.
LEMMA CallControl ==
    ASSUME ControlInv, NEW r \in Requests, Call(r) \/ CleanupCall(r)
    PROVE  ControlInv' /\ Refined
<1>  Types /\ TasksOK /\ ReqsOK /\ ReqOK(req[r])
  BY Parts DEF ReqsOK
<1>1. UNCHANGED <<sandboxes, worker_hosts, admission, sess>> /\ req[r].pc \in {"call", "clean"}
  BY DEF Call, CleanupCall
<1>2. req[r].s \in Sandboxes /\ req[r].w \in Workers /\ req[r].op \in AllOps /\ Passes(req[r].op, req[r].pc)
  BY <1>1, ReqFacts DEF Unplaced
<1>3. Main(r) \in Tasks /\ Main(r)[2] = "main" /\ Cleanup(r) \in Tasks /\ Cleanup(r)[2] = "cleanup"
  BY TaskNames
<1>4. req' \in [Requests -> ReqRec] /\ ReqsOK'
  <2>1. \/ req[r].pc = "call" /\ Then(r, "wait")
        \/ req[r].pc = "clean" /\ Then(r, "clean_wait")
    BY DEF Call, CleanupCall
  <2>2. {"wait", "clean_wait"} \subseteq ReqPcs
    BY DEF ReqPcs
  <2>3. ReqPart(r) /\ \E pc \in {"wait", "clean_wait"} : Leads(r, req[r].op, pc, req[r].w)
    BY <1>2, <2>1, <2>2, ThenMoves DEF Leads, Passes
  <2> QED BY <1>1, <1>2, <2>3, GoesOn
<1>5. task' \in [Tasks -> TaskRec] /\ TasksOK'
  <2>1. CASE Call(r)
    <3> DEFINE op == WorkerOp(req[r].op)
    <3>0. op \in TaskOps /\ RunBy(Main(r)[2], op) /\ task' = [task EXCEPT ![Main(r)] = Called(op, req[r].w, req[r].s)]
      BY <1>2, <1>3, <2>1, WorkerOps DEF Call
    <3> HIDE DEF op
    <3>1. TaskPart(Main(r)) /\ TaskOK(Main(r), task'[Main(r)])
      BY Zenon, <1>2, <1>3, <3>0, CallMoves
    <3> QED BY <1>3, <3>1, TaskKept
  <2>2. CASE CleanupCall(r)
    <3> DEFINE op == CleanupOp(req[r].op)
    <3>0. op \in TaskOps /\ RunBy(Cleanup(r)[2], op) /\ task' = [task EXCEPT ![Cleanup(r)] = Called(op, req[r].w, req[r].s)]
      BY <1>2, <1>3, <2>2, WorkerOps DEF CleanupCall
    <3> HIDE DEF op
    <3>1. TaskPart(Cleanup(r)) /\ TaskOK(Cleanup(r), task'[Cleanup(r)])
      BY Zenon, <1>2, <1>3, <3>0, CallMoves
    <3> QED BY <1>3, <3>1, TaskKept
  <2> QED BY <2>1, <2>2
<1> QED BY <1>1, <1>4, <1>5, SameKept, Parts, Stutters

\* An answer leaves the request well formed.
LEMMA AnswerKept ==
    ASSUME ControlInv, NEW r \in Requests, NEW err,
           (req[r].pc = "wait" /\ Answered(r, err)) \/ (req[r].pc = "clean_wait" /\ CleanupAnswered(r, err))
    PROVE  req' \in [Requests -> ReqRec] /\ ReqsOK'
<1>  Types /\ ReqsOK /\ ReqOK(req[r]) /\ req[r].pc # "idle"
  BY Parts DEF ReqsOK
<1>1. req[r].w \in Workers
  BY ReqFacts DEF Unplaced
<1>2. /\ \A pc \in {"activate", "reject", "clean", "fail"} : Passes("provision", pc)
      /\ Passes("pause", "paused") /\ Passes("destroy", "release") /\ Passes("destroy", "get")
      /\ \A pc \in {"activate", "clean", "cancel"} : Passes("resume", pc)
  BY DEF Passes
<1>3. /\ ReqPart(r)
      /\ req'[r] = IdleReq \/ \E op, pc : Leads(r, op, pc, req[r].w)
  <2>1. CASE req[r].pc = "wait" /\ Answered(r, err)
    BY <1>2, <2>1, AnsweredMoves DEF Leads
  <2>2. CASE req[r].pc = "clean_wait" /\ CleanupAnswered(r, err)
    BY <1>2, <2>2, CleanupAnsweredMoves DEF Leads
  <2> QED BY <2>1, <2>2
<1> QED BY <1>1, <1>3, GoesOn

\* Answers, and answers that nobody waits for any longer.
LEMMA AnswerControl ==
    ASSUME ControlInv, NEW r \in Requests, Reply(r) \/ CleanupReply(r) \/ Timeout(r)
    PROVE  ControlInv' /\ Refined
<1>  Types /\ TasksOK
  BY Parts
<1>1. UNCHANGED <<sandboxes, worker_hosts, admission, sess>>
  BY DEF Reply, CleanupReply, Timeout
<1>2. Main(r) \in Tasks /\ Cleanup(r) \in Tasks
  BY TaskNames
<1>3. req' \in [Requests -> ReqRec] /\ ReqsOK'
  BY AnswerKept DEF Reply, CleanupReply, Timeout
<1>4. \E t \in Tasks : task' = [task EXCEPT ![t] = IdleTask] \/ Unwaited(t)
  BY <1>2 DEF Reply, CleanupReply, Timeout
<1>5. task' \in [Tasks -> TaskRec] /\ TasksOK'
  <2>1. PICK t \in Tasks : task' = [task EXCEPT ![t] = IdleTask] \/ Unwaited(t)
    BY <1>4
  <2>2. TaskPart(t) /\ TaskOK(t, task'[t])
    BY Zenon, <2>1, TakenMoves, UnwaitedMoves DEF TasksOK
  <2> QED BY <2>2, TaskKept
<1> QED BY <1>1, <1>3, <1>5, SameKept, Parts, Stutters

\* What a disconnect does to the request.
LEMMA DisconnectMoves ==
    ASSUME NEW r \in Requests, Types, ReqOK(req[r]), Disconnect(r)
    PROVE  /\ ReqPart(r) /\ req[r].pc # "idle"
           /\ \/ /\ req[r].pc # "wait" /\ UNCHANGED task
                 /\ Leads(r, req[r].op, req[r].pc, req[r].w)
              \/ /\ req[r].pc = "wait" /\ Unwaited(Main(r))
                 /\ \/ req[r].op \in {"provision", "resume"} /\ Leads(r, req[r].op, "clean", req[r].w)
                    \/ req'[r] = IdleReq
<1> DEFINE k == [req[r] EXCEPT !.live = FALSE]
           j == [req[r] EXCEPT !.live = FALSE, !.pc = "clean"]
<1>  req[r].pc \notin {"idle", "call"}
  BY DEF Disconnect
<1>1. req[r] \in ReqRec /\ Passes(req[r].op, req[r].pc)
  BY ReqFacts
<1>2. k \in ReqRec /\ k.pc = req[r].pc /\ k.op = req[r].op /\ k.s = req[r].s /\ k.w = req[r].w
  BY Zenon, <1>1 DEF ReqRec
<1>3. j \in ReqRec /\ j.pc = "clean" /\ j.op = req[r].op /\ j.s = req[r].s /\ j.w = req[r].w
  BY Zenon, <1>1 DEF ReqRec, ReqPcs
<1>4. \/ req[r].pc # "wait" /\ UNCHANGED task /\ req' = [req EXCEPT ![r] = k]
      \/ /\ req[r].pc = "wait" /\ Unwaited(Main(r))
         /\ \/ req[r].op \in {"provision", "resume"} /\ req' = [req EXCEPT ![r] = j]
            \/ req' = [req EXCEPT ![r] = IdleReq]
  <2>1. [[req EXCEPT ![r].live = FALSE] EXCEPT ![r].pc = "clean"] = [req EXCEPT ![r] = j]
    BY Zenon DEF Types
  <2>2. [req EXCEPT ![r].live = FALSE] = [req EXCEPT ![r] = k]
    OBVIOUS
  <2> HIDE DEF k, j
  <2> QED BY Zenon, <2>1, <2>2 DEF Disconnect
<1> HIDE DEF k, j
<1>5. ASSUME NEW x \in ReqRec, req' = [req EXCEPT ![r] = x] PROVE ReqPart(r) /\ req'[r] = x
  BY <1>5 DEF Types, ReqPart
<1>6. Passes("provision", "clean") /\ Passes("resume", "clean")
  BY DEF Passes
<1> QED BY <1>1, <1>2, <1>3, <1>4, <1>5, <1>6, IdleReqType DEF Leads, ReqGoes

\* Disconnects and a dead orchestrator.
LEMMA FaultControl ==
    ASSUME ControlInv, NEW r \in Requests, Disconnect(r) \/ OrchestratorStops(r)
    PROVE  ControlInv' /\ Refined
<1>  Types /\ TasksOK /\ ReqsOK /\ ReqOK(req[r])
  BY Parts DEF ReqsOK
<1>1. UNCHANGED <<sandboxes, worker_hosts, admission, sess>>
  BY DEF Disconnect, OrchestratorStops
<1>2. Main(r) \in Tasks
  BY TaskNames
<1>3. CASE Disconnect(r)
  <2>1. /\ ReqPart(r) /\ req[r].pc # "idle"
        /\ \/ req'[r] = IdleReq
           \/ \E op, pc, w : Leads(r, op, pc, w) /\ (w \in Workers \/ pc \in Unplaced)
    <3>1. req[r].pc # "idle" /\ (req[r].w \in Workers \/ req[r].pc \in Unplaced)
      BY <1>3, ReqFacts, DisconnectMoves
    <3>2. req[r].pc = "wait" => req[r].pc \notin Unplaced
      BY DEF Unplaced
    <3> QED BY <1>3, <3>1, <3>2, DisconnectMoves
  <2>2. req' \in [Requests -> ReqRec] /\ ReqsOK'
    BY <2>1, GoesOn
  <2>3. UNCHANGED task \/ Unwaited(Main(r))
    BY <1>3, DisconnectMoves
  <2>4. task' \in [Tasks -> TaskRec] /\ TasksOK'
    <3>1. CASE UNCHANGED task
      BY <3>1, SameKept
    <3>2. CASE Unwaited(Main(r))
      BY Zenon, <1>2, <3>2, UnwaitedMoves, TaskKept DEF TasksOK
    <3> QED BY <2>3, <3>1, <3>2
  <2> QED BY <1>1, <2>2, <2>4, SameKept, Parts, Stutters
<1>4. CASE OrchestratorStops(r)
  <2>1. req' \in [Requests -> ReqRec] /\ ReqsOK'
    BY <1>4, EndMoves, IdleReqOK, ReqKept DEF OrchestratorStops
  <2>2. task' \in [Tasks -> TaskRec] /\ TasksOK'
    BY Zenon, <1>4, StopMoves DEF TasksOK
  <2> QED BY <1>1, <2>1, <2>2, SameKept, Parts, Stutters
<1> QED BY <1>3, <1>4

\* A step within the frame of a task keeps the tasks.
LEMMA FrameKeeps ==
    ASSUME NEW t, Busy(t), Frame(t), TasksOK
    PROVE  task' \in [Tasks -> TaskRec] /\ TasksOK'
<1>  t \in Tasks /\ TaskPart(t)
  BY DEF Busy, Frame
<1>1. task[t].s \in Sandboxes /\ task[t].w \in Workers /\ RunBy(t[2], task[t].op)
  BY BusyTask
<1>2. TaskOK(t, task'[t])
  <2>1. CASE task'[t] = IdleTask
    BY <2>1, IdleTaskType DEF TaskOK
  <2>2. CASE Awaited(t) /\ Continues(t, "done")
    BY <1>1, <2>2 DEF TaskOK, Continues, Awaited
  <2>3. CASE \E pc \in TaskPcs : Runs(task[t].op, pc) /\ Continues(t, pc)
    <3>1. PICK pc \in TaskPcs : Runs(task[t].op, pc) /\ Continues(t, pc)
      BY <2>3
    <3>2. pc # "idle"
      BY <3>1 DEF Runs
    <3> QED BY <1>1, <3>1, <3>2 DEF TaskOK, Continues
  <2> QED BY <2>1, <2>2, <2>3 DEF Frame, Ends
<1> QED BY <1>2, TaskKept

\* What a step of a task does to the row of its sandbox.
TaskRow(t) ==
    \/ UNCHANGED sandboxes
    \/ SetRow(t, Row(t))
    \/ PauseStep(t) /\ SetRow(t, PausePlacementRow(Row(t), task[t].w))
    \/ ResumeStep(t) /\ SetRow(t, ReportedActive(t))
    \/ DeleteStep(t) /\ SetRow(t, ReleasePlacementRow(Row(t), task[t].w, "destroyed"))

\* Every step of a task stays within its frame.
LEMMA TaskFrame == ASSUME NEW t, Busy(t), TaskStep(t) PROVE Frame(t) /\ TaskRow(t)
<1>1. CASE CreateStep(t)
  BY <1>1, CreateFrame DEF TaskRow
<1>2. CASE PauseStep(t)
  BY <1>2, PauseFrame DEF TaskRow
<1>3. CASE ResumeStep(t)
  BY <1>3, ResumeFrame DEF TaskRow
<1>4. CASE ExecStep(t)
  BY <1>4, ExecFrame DEF TaskRow
<1>5. CASE DeleteStep(t)
  BY <1>5, DeleteFrame DEF TaskRow
<1>6. CreateStep(t) \/ PauseStep(t) \/ ResumeStep(t) \/ ExecStep(t) \/ DeleteStep(t)
  BY DEF TaskStep, CreateStep, PauseStep, ResumeStep, ExecStep, DeleteStep
<1> QED BY <1>1, <1>2, <1>3, <1>4, <1>5, <1>6

\* A step of a worker's task.
LEMMA WorkerControl ==
    ASSUME ControlInv, NEW t \in Tasks, WorkerStep(t)
    PROVE  ControlInv' /\ Refined
<1> DEFINE s == task[t].s
           w == task[t].w
<1>  Types /\ RowsOK /\ TasksOK /\ TaskOK(t, task[t]) /\ TaskStep(t) /\ UNCHANGED <<worker_hosts, req>>
  BY Parts DEF TasksOK, WorkerStep
<1>1. Busy(t)
  BY StepIsBusy
<1>2. Frame(t) /\ TaskRow(t)
  BY <1>1, TaskFrame
<1>3. s \in Sandboxes /\ w \in Workers /\ RowOK(sandboxes[s]) /\ Row(t) = sandboxes[s]
  BY <1>1, BusyTask DEF RowsOK, Row
<1>4. task' \in [Tasks -> TaskRec] /\ TasksOK'
  BY <1>1, <1>2, FrameKeeps
<1>5. sess' \in [Workers -> [Sandboxes -> SessRec]] /\ admission' \in [Workers -> [Sandboxes -> AdmRec]]
  BY <1>2 DEF Frame, SessPart, AdmPart
<1>6. CASE UNCHANGED sandboxes
  BY <1>4, <1>5, <1>6, SameKept, Parts, Stutters
<1>7. CASE SetRow(t, Row(t))
  <2>1. UNCHANGED sandboxes
    BY Zenon, <1>3, <1>7, SameRow DEF SetRow
  <2> QED BY <1>6, <2>1
<1>8. CASE \/ SetRow(t, PausePlacementRow(Row(t), w))
           \/ SetRow(t, ReportedActive(t))
           \/ SetRow(t, ReleasePlacementRow(Row(t), w, "destroyed"))
  <2>1. \E row : RowOK(row) /\ sandboxes' = [sandboxes EXCEPT ![s] = row]
    BY Zenon, <1>3, <1>8, StoreOps DEF SetRow, ReportedActive
  <2>2. sandboxes' \in [Sandboxes -> Rows] /\ RowsOK'
    BY Zenon, <1>3, <2>1, RowKept
  <2>3. \/ RowWrite(s, PausePlacementRow(sandboxes[s], w))
        \/ RowWrite(s, UpdatePlacementStateRow(sandboxes[s], w, {"resuming", "provisioning"}, "active"))
        \/ RowWrite(s, ReleasePlacementRow(sandboxes[s], w, "destroyed"))
    BY <1>3, <1>8 DEF SetRow, ReportedActive, RowWrite
  <2>4. P!RowStep(s)
    BY Zenon, <1>3, <2>3, Allowed
  <2> QED BY Zenon, <1>3, <1>4, <1>5, <2>2, <2>4, SameKept, Parts, RowStepRefines
<1> QED BY <1>2, <1>6, <1>7, <1>8 DEF TaskRow

\* The reaper finds a session due.
LEMMA ReapMoves ==
    ASSUME NEW w \in Workers, NEW s \in Sandboxes, Types, Reap(w, s)
    PROVE  LET t == <<w, "reaper">>
           IN  /\ t \in Tasks /\ TaskPart(t) /\ TaskOK(t, task'[t]) /\ task[t].pc = "idle"
               /\ task'[t].op \in {"reap_pause", "reap_destroy"} /\ task'[t].pc \in {"p_get", "d_delete"}
               /\ task'[t].s = s /\ task'[t].w = w
<1> DEFINE t == <<w, "reaper">>
<1>0. t \in Tasks /\ t[2] = "reaper" /\ task[t].pc = "idle"
  BY TaskNames DEF Reap
<1>1. PICK op \in {"reap_pause", "reap_destroy"} : task' = [task EXCEPT ![t] = Called(op, w, s)]
  BY DEF Reap
<1> HIDE DEF t
<1>2. op \in TaskOps /\ RunBy(t[2], op)
  BY <1>0, <1>1 DEF TaskOps, RunBy
<1>3. FirstPc(op) \in {"p_get", "d_delete"}
  BY <1>1, Zenon DEF FirstPc
<1>4. ASSUME NEW u \in Tasks, RunBy(u[2], op), task' = [task EXCEPT ![u] = Called(op, w, s)]
      PROVE  /\ TaskPart(u) /\ TaskOK(u, task'[u])
             /\ task'[u].op = op /\ task'[u].s = s /\ task'[u].w = w /\ task'[u].pc = FirstPc(op)
  BY <1>2, <1>4, CallMoves
<1> QED BY Zenon, <1>0, <1>1, <1>2, <1>3, <1>4 DEF t

\* The sessions and reservations that a restart leaves.
LEMMA CrashSess ==
    ASSUME NEW w \in Workers, Types, Crash(w)
    PROVE  /\ sess' \in [Workers -> [Sandboxes -> SessRec]]
           /\ admission' \in [Workers -> [Sandboxes -> AdmRec]]
           /\ \A v \in Workers \ {w} : sess'[v] = sess[v] /\ admission'[v] = admission[v]
           /\ \A s \in Sandboxes :
                \/ /\ sess[w][s].stored /\ sess[w][s].state = "paused" /\ admission'[w][s] = "paused"
                   /\ sess'[w][s].stored /\ sess'[w][s].state = "paused" /\ ~sess'[w][s].vm /\ sess'[w][s].lock = NoTask
                \/ sess'[w][s] = NoSess /\ admission'[w][s] = "none"
<1> DEFINE X(s) == [NoSess EXCEPT !.stored = TRUE, !.state = "paused", !.files = sess[w][s].files]
           Y(s) == IF sess[w][s].stored /\ sess[w][s].state = "paused" THEN X(s) ELSE NoSess
           A(s) == IF sess[w][s].stored /\ sess[w][s].state = "paused" THEN "paused" ELSE "none"
<1>1. /\ sess' = [sess EXCEPT ![w] = [s \in Sandboxes |-> Y(s)]]
      /\ admission' = [admission EXCEPT ![w] = [s \in Sandboxes |-> A(s)]]
  BY Zenon DEF Crash
<1>2. ASSUME NEW s \in Sandboxes
      PROVE  X(s) \in SessRec /\ X(s).stored /\ X(s).state = "paused" /\ ~X(s).vm /\ X(s).lock = NoTask
  <2>1. sess[w][s] \in SessRec
    BY DEF Types
  <2>2. sess[w][s].files \in BOOLEAN
    BY <2>1 DEF SessRec
  <2> QED BY Zenon, <2>2 DEF NoSess, SessRec
<1>3. NoSess \in SessRec
  BY DEF NoSess, SessRec
<1> HIDE DEF X
<1>4. \A s \in Sandboxes : Y(s) \in SessRec /\ A(s) \in AdmRec
  BY <1>2, <1>3 DEF AdmRec
<1>5. \A s \in Sandboxes :
         \/ sess[w][s].stored /\ sess[w][s].state = "paused" /\ Y(s) = X(s) /\ A(s) = "paused"
         \/ Y(s) = NoSess /\ A(s) = "none"
  OBVIOUS
<1> HIDE DEF Y, A
<1>6. /\ sess' \in [Workers -> [Sandboxes -> SessRec]]
      /\ \A v \in Workers \ {w} : sess'[v] = sess[v]
      /\ \A s \in Sandboxes : sess'[w][s] = Y(s)
  BY <1>1, <1>4 DEF Types
<1>7. /\ admission' \in [Workers -> [Sandboxes -> AdmRec]]
      /\ \A v \in Workers \ {w} : admission'[v] = admission[v]
      /\ \A s \in Sandboxes : admission'[w][s] = A(s)
  BY <1>1, <1>4 DEF Types
<1>8. ASSUME NEW s \in Sandboxes
      PROVE  \/ /\ sess[w][s].stored /\ sess[w][s].state = "paused" /\ admission'[w][s] = "paused"
                /\ sess'[w][s].stored /\ sess'[w][s].state = "paused" /\ ~sess'[w][s].vm /\ sess'[w][s].lock = NoTask
             \/ sess'[w][s] = NoSess /\ admission'[w][s] = "none"
  <2>1. sess'[w][s] = Y(s) /\ admission'[w][s] = A(s)
    BY <1>6, <1>7
  <2> QED BY <1>2, <1>5, <2>1
<1> QED BY <1>6, <1>7, <1>8

\* Reapers and crashes.
LEMMA ReapControl ==
    ASSUME ControlInv, NEW w \in Workers, UNCHANGED <<worker_hosts, req>>,
           (\E s \in Sandboxes : Reap(w, s)) \/ Crash(w)
    PROVE  ControlInv' /\ Refined
<1>  Types /\ TasksOK
  BY Parts
<1>1. CASE \E s \in Sandboxes : Reap(w, s)
  <2>1. PICK s \in Sandboxes : Reap(w, s)
    BY <1>1
  <2> DEFINE t == <<w, "reaper">>
  <2>2. t \in Tasks /\ TaskPart(t) /\ TaskOK(t, task'[t])
    BY <2>1, ReapMoves
  <2> HIDE DEF t
  <2>3. task' \in [Tasks -> TaskRec] /\ TasksOK'
    BY <2>2, TaskKept
  <2>4. UNCHANGED <<sandboxes, admission, sess>>
    BY <2>1 DEF Reap
  <2> QED BY <2>3, <2>4, SameKept, Parts, Stutters
<1>2. CASE Crash(w)
  <2>1. task' \in [Tasks -> TaskRec] /\ TasksOK'
    BY <1>2, CrashMoves DEF TasksOK
  <2>2. sess' \in [Workers -> [Sandboxes -> SessRec]] /\ admission' \in [Workers -> [Sandboxes -> AdmRec]]
    BY <1>2, CrashSess
  <2>3. UNCHANGED sandboxes
    BY Zenon, <1>2 DEF Crash
  <2> QED BY <2>1, <2>2, <2>3, SameKept, Parts, Stutters
<1> QED BY <1>1, <1>2

\* The ticker and the registry.
LEMMA TickControl ==
    ASSUME ControlInv,
           \/ \E s \in Sandboxes : RowAges(s)
           \/ FailStaleUnplacedSandboxes
           \/ \E w \in Workers : HeartbeatAges(w) \/ RecordHeartbeat(w)
    PROVE  ControlInv' /\ Refined
<1>  Types /\ RowsOK
  BY Parts
<1>1. CASE \E s \in Sandboxes : RowAges(s)
  <2>1. PICK s \in Sandboxes : RowAges(s)
    BY <1>1
  <2>2. sandboxes[s].state = "scheduling" /\ UNCHANGED <<worker_hosts, req, task, admission, sess>>
    BY <2>1 DEF RowAges, StoreOnly
  <2>3. sandboxes' = [sandboxes EXCEPT ![s] = [sandboxes[s] EXCEPT !.stale = TRUE]]
    BY <2>1 DEF RowAges
  <2>4. RowOK(sandboxes[s]) /\ sandboxes[s].host = NoHost
    BY <2>2 DEF RowsOK, RowOK, PlacedStates
  <2>5. RowOK([sandboxes[s] EXCEPT !.stale = TRUE])
    BY Zenon, <2>4 DEF RowOK, Rows
  <2>6. sandboxes' \in [Sandboxes -> Rows] /\ RowsOK'
    BY Zenon, <2>3, <2>5, RowKept
  <2>7. P!RowAges(s)
    BY <2>2, <2>3, <2>4 DEF P!RowAges, P!WriteRow
  <2> QED BY <2>2, <2>6, <2>7, SameKept, Parts, RowStepRefines DEF P!RowStep
<1>2. CASE FailStaleUnplacedSandboxes
  <2>1. /\ UNCHANGED <<worker_hosts, req, task, admission, sess>>
        /\ sandboxes' = [s \in Sandboxes |-> FailStaleRow(sandboxes[s])]
    BY <1>2 DEF FailStaleUnplacedSandboxes, StoreOnly
  <2>2. \A s \in Sandboxes : RowOK(FailStaleRow(sandboxes[s]))
    <3>1. RowOK(Updated("error", NoHost))
      BY UpdatedRow, NoHostIsNoWorker DEF RowStates, UnplacedStates
    <3> QED BY <3>1 DEF RowsOK, FailStaleRow
  <2>3. sandboxes' \in [Sandboxes -> Rows] /\ RowsOK'
    BY <2>1, <2>2 DEF RowsOK, RowOK
  <2>4. P!FailStaleUnplacedSandboxes
    BY <2>1, SameStore DEF P!FailStaleUnplacedSandboxes
  <2>5. Refined
    BY <2>4 DEF Refined, P!Next
  <2> QED BY <2>1, <2>3, <2>5, SameKept, Parts
<1>3. ASSUME NEW w \in Workers, HeartbeatAges(w) \/ RecordHeartbeat(w)
      PROVE  ControlInv' /\ Refined
  <2> DEFINE h == worker_hosts[w]
             g == [h EXCEPT !.heartbeat = FALSE, !.capacity = FALSE]
  <2>0. UNCHANGED <<sandboxes, req, task, admission, sess>> /\ h \in HostRows
    BY <1>3 DEF HeartbeatAges, RecordHeartbeat, Types
  <2>1. CASE HeartbeatAges(w)
    <3>1. worker_hosts' = [worker_hosts EXCEPT ![w] = g]
      BY Zenon, <2>1 DEF HeartbeatAges
    <3>2. g \in HostRows
      BY <2>0 DEF HostRows
    <3>3. g = [h EXCEPT !.heartbeat = FALSE /\ @, !.capacity = FALSE]
      BY Zenon, <2>0 DEF HostRows
    <3>4. P!HeartbeatAges(w)
      BY Zenon, <2>0, <3>1, <3>3 DEF P!HeartbeatAges, P!WriteHost
    <3>5. worker_hosts' \in [Workers -> HostRows]
      BY <3>1, <3>2 DEF Types
    <3> QED BY <2>0, <3>4, <3>5, SameKept, Parts DEF Refined, P!Next, P!HostStep
  <2>2. CASE RecordHeartbeat(w)
    <3>1. worker_hosts' = [worker_hosts EXCEPT ![w] = RecordHeartbeatHost(h)]
      BY <2>2 DEF RecordHeartbeat
    <3>2. RecordHeartbeatHost(h) \in HostRows
      BY Zenon, <2>0 DEF HostRows, RecordHeartbeatHost
    <3>3. P!RecordHeartbeat(w)
      BY <2>0, <3>1 DEF P!RecordHeartbeat, P!WriteHost, P!RecordHeartbeatHost, RecordHeartbeatHost
    <3>4. worker_hosts' \in [Workers -> HostRows]
      BY <3>1, <3>2 DEF Types
    <3> QED BY <2>0, <3>3, <3>4, SameKept, Parts DEF Refined, P!Next, P!HostStep
  <2> QED BY <1>3, <2>1, <2>2
<1> QED BY <1>1, <1>2, <1>3

\* Every step keeps the control, and is one of Placement's or leaves its state.
LEMMA StepControl == ControlInv /\ [Next]_vars => ControlInv' /\ Refined
<1> SUFFICES ASSUME ControlInv, [Next]_vars PROVE ControlInv' /\ Refined
  OBVIOUS
<1>1. CASE UNCHANGED vars
  BY <1>1, SameKept, Parts, Stutters DEF vars
<1>2. CASE \E r \in Requests, s \in Sandboxes : Create(r, s) \/ Accept(r, s)
  BY <1>2, StartControl
<1>3. CASE \E r \in Requests : RequestStep(r)
  <2>1. PICK r \in Requests : RequestStep(r)
    BY <1>3
  <2>2. \/ GetPlacement(r) \/ StoreCallFails(r) \/ Call(r) \/ CleanupCall(r) \/ Reply(r) \/ CleanupReply(r)
        \/ Place(r) \/ OtherStoreStep(r)
    BY <2>1 DEF RequestStep, OtherStoreStep
  <2> QED BY <2>2, ReadControl, CallControl, AnswerControl, PlaceControl, StoreControl
<1>4. CASE \E r \in Requests : Timeout(r) \/ Disconnect(r) \/ OrchestratorStops(r)
  BY <1>4, AnswerControl, FaultControl
<1>5. CASE \E t \in Tasks : WorkerStep(t)
  BY <1>5, WorkerControl
<1>6. CASE \E w \in Workers, s \in Sandboxes : Reap(w, s) /\ UNCHANGED <<worker_hosts, req>>
  BY <1>6, ReapControl
<1>7. CASE \E w \in Workers : Crash(w) /\ UNCHANGED <<worker_hosts, req>>
  BY <1>7, ReapControl
<1>8. CASE \/ \E s \in Sandboxes : RowAges(s)
           \/ FailStaleUnplacedSandboxes
           \/ \E w \in Workers : HeartbeatAges(w) \/ RecordHeartbeat(w)
  BY <1>8, TickControl
<1> QED BY <1>1, <1>2, <1>3, <1>4, <1>5, <1>6, <1>7, <1>8 DEF Next

\* The services start with no sandbox, no call and no session.
LEMMA InitControl == Init => ControlInv /\ P!Init
<1> SUFFICES ASSUME Init PROVE ControlInv /\ P!Init
  OBVIOUS
<1>1. /\ sandboxes = [s \in Sandboxes |-> NoRow] /\ task = [t \in Tasks |-> IdleTask]
      /\ admission = [w \in Workers |-> [s \in Sandboxes |-> "none"]]
      /\ sess = [w \in Workers |-> [s \in Sandboxes |-> NoSess]]
      /\ worker_hosts = [w \in Workers |-> [known |-> TRUE, draining |-> FALSE, heartbeat |-> TRUE, capacity |-> TRUE]]
      /\ req = [r \in Requests |-> IdleReq]
  BY DEF Init, WorkerInit
<1>2. RowOK(NoRow)
  BY DEF NoRow, RowOK, Rows, RowStates
<1>3. NoSess \in SessRec /\ "none" \in AdmRec
  BY DEF NoSess, SessRec, AdmRec
<1>4. [known |-> TRUE, draining |-> FALSE, heartbeat |-> TRUE, capacity |-> TRUE] \in HostRows
  BY DEF HostRows
<1>5. Types
  BY <1>1, <1>2, <1>3, <1>4, IdleTaskType, IdleReqType DEF Types, RowOK
<1>6. \A t : TaskOK(t, IdleTask)
  BY IdleTaskType DEF TaskOK
<1>7. ControlInv
  BY <1>1, <1>2, <1>5, <1>6, IdleReqOK DEF ControlInv
<1>8. P!Init
  <2>1. P!NoRow = NoRow
    BY DEF P!NoRow, NoRow
  <2>2. worker_hosts \in [Workers -> {h \in P!HostRows : h.known \/ h = P!UnknownHost}]
    BY <1>1 DEF P!HostRows
  <2> QED BY <1>1, <2>1, <2>2 DEF P!Init
<1> QED BY <1>7, <1>8

\* Every variable keeps its type: no call, report, cleanup or fault ever works on
\* a sandbox or a worker it does not have, or stores a state the schema lacks.
THEOREM LifecycleTypeCorrect == Spec => []TypeOK
<1>1. Init => ControlInv
  BY InitControl
<1>2. ControlInv /\ [Next]_vars => ControlInv'
  BY StepControl
<1>3. ControlInv => TypeOK
  BY TypesIsTypeOK DEF ControlInv
<1> QED BY <1>1, <1>2, <1>3, PTL DEF Spec

\* The services implement Placement: whatever requests, worker calls, reports,
\* reapers and faults interleave, every change of the two tables is one of its
\* transactions.
THEOREM LifecycleRefinesPlacement == Spec => RefinesPlacement
<1>1. Init => ControlInv /\ P!Init
  BY InitControl
<1>2. ControlInv /\ [Next]_vars => ControlInv' /\ [P!Next]_(P!vars)
  BY StepControl DEF Refined
<1> QED BY <1>1, <1>2, PTL DEF Spec, RefinesPlacement, P!Spec
=============================================================================
