--------------------------- MODULE PlacementProofs ---------------------------
(***************************************************************************)
(* Placement for any number of sandboxes and workers.  The row operators   *)
(* get one lemma each: what the transaction may do to a row that satisfies *)
(* the row invariant.  An action writes one row by one such operator (the  *)
(* ticker writes all of them), so the step theorems only select the lemma. *)
(***************************************************************************)
EXTENDS Placement, TLAPS

\* The invariant of one row: well typed, and a host only in a placed state.
RowOK(r) == r \in Rows /\ (r.host # NoHost => r.state \in PlacedStates)

\* What one transaction may do to a row: keep the row invariant, never swap its
\* host for another one, and never wake a paused row without resuming it.
RowMove(r, q) ==
    /\ RowOK(q)
    /\ r.host # NoHost /\ q.host # NoHost => q.host = r.host
    /\ r.state = "paused" => q.state # "active"

\* Updated builds a row of the given state and host (every UPDATE statement).
LEMMA UpdatedType ==
    ASSUME NEW st \in RowStates, NEW h \in Workers \cup {NoHost}
    PROVE  /\ Updated(st, h) \in Rows
           /\ Updated(st, h).state = st
           /\ Updated(st, h).host = h
BY DEF Updated, Rows

\* A call that fails, or that finds nothing to change, is a move.
LEMMA StutterMove == ASSUME NEW r, RowOK(r) PROVE RowMove(r, r)
BY DEF RowMove

\* INSERT of the scheduling row.
LEMMA InsertMove == ASSUME NEW r, RowOK(r), r.state = "none" PROVE RowMove(r, InsertRow)
BY UpdatedType, NoHostIsNoWorker DEF RowMove, RowOK, InsertRow, RowStates, UnplacedStates, PlacedStates

\* ReservePlacement gives a host only to a row that has none.
LEMMA ReservePlacementMove ==
    ASSUME NEW r, RowOK(r), NEW w \in Workers
    PROVE  RowMove(r, ReservePlacementRow(r, w))
<1>1. "provisioning" \in RowStates /\ "provisioning" \in PlacedStates
  BY DEF RowStates, PlacedStates
<1> QED
  BY <1>1, UpdatedType, StutterMove DEF ReservePlacementRow, RowMove, RowOK

\* UpdatePlacementState moves a row only on the host the caller names, and no
\* caller lists paused among the states it may leave for active.
LEMMA UpdatePlacementStateMove ==
    ASSUME NEW r, RowOK(r), NEW w \in Workers, NEW t \in Transitions
    PROVE  RowMove(r, UpdatePlacementStateRow(r, w, t.from, t.to))
<1>1. t.to \in RowStates /\ t.to \in PlacedStates /\ (t.to = "active" => "paused" \notin t.from)
  BY DEF Transitions, RowStates, PlacedStates
<1> QED
  BY <1>1, UpdatedType, StutterMove DEF UpdatePlacementStateRow, RowMove, RowOK

\* PausePlacement, ReserveResume and CancelResume keep the host.
LEMMA PauseResumeMove ==
    ASSUME NEW r, RowOK(r), NEW w \in Workers, NEW hosts
    PROVE  /\ RowMove(r, PausePlacementRow(r, w))
           /\ RowMove(r, ReserveResumeRow(r, w, hosts))
           /\ RowMove(r, CancelResumeRow(r, w))
<1>1. /\ {"paused", "resuming"} \subseteq RowStates
      /\ {"paused", "resuming"} \subseteq PlacedStates
  BY DEF RowStates, PlacedStates
<1>2. RowMove(r, Updated("paused", w)) \/ r.host # w
  BY <1>1, UpdatedType DEF RowMove, RowOK
<1>3. RowMove(r, Updated("resuming", w)) \/ r.host # w
  BY <1>1, UpdatedType DEF RowMove, RowOK
<1> QED
  BY <1>2, <1>3, StutterMove DEF PausePlacementRow, ReserveResumeRow, CancelResumeRow

\* releasePlacement always clears the host of the row it writes.
LEMMA ReleasePlacementMove ==
    ASSUME NEW r, RowOK(r), NEW expected,
           NEW final \in {"error", "scheduling", "destroyed", ""}
    PROVE  RowMove(r, ReleasePlacementRow(r, expected, final))
<1> DEFINE st == IF final = "" THEN r.state ELSE final
<1>1. st \in RowStates
  BY DEF RowOK, Rows, RowStates, UnplacedStates
<1>2. st = "active" => r.state = "active"
  OBVIOUS
<1>3. RowMove(r, Updated(st, NoHost))
  <2> HIDE DEF st
  <2> QED BY <1>1, <1>2, UpdatedType DEF RowMove, RowOK
<1> QED
  BY <1>3, StutterMove DEF ReleasePlacementRow

\* The ticker closes an unplaced row, ageing touches neither state nor host.
LEMMA TickerMove ==
    ASSUME NEW r, RowOK(r)
    PROVE  RowMove(r, FailStaleRow(r)) /\ RowMove(r, [r EXCEPT !.stale = TRUE])
<1>1. "error" \in RowStates
  BY DEF RowStates, UnplacedStates
<1>2. RowMove(r, Updated("error", NoHost))
  BY <1>1, UpdatedType DEF RowMove, RowOK
<1>3. RowMove(r, [r EXCEPT !.stale = TRUE])
  BY DEF RowMove, RowOK, Rows
<1> QED
  BY <1>2, <1>3, StutterMove DEF FailStaleRow

-----------------------------------------------------------------------------
\* The inductive invariant: both tables are well typed and every row is RowOK.
\* HostOnlyWhilePlaced alone is not inductive: nothing would say that the new
\* row of an action is a row at all.
IInv == TypeOK /\ \A s \in Sandboxes : RowOK(sandboxes[s])

\* Init establishes the invariant: no row names a host.
LEMMA InitIInv == Init => IInv
BY NoHostIsNoWorker DEF Init, IInv, TypeOK, RowOK, NoRow, Rows, RowStates, UnplacedStates, PlacedStates, HostRows

\* Every transaction on a row is a RowMove of that row and leaves the others.
LEMMA RowStepMoves ==
    ASSUME IInv, NEW s \in Sandboxes, RowStep(s)
    PROVE  /\ \E q : RowMove(sandboxes[s], q) /\ sandboxes' = [sandboxes EXCEPT ![s] = q]
           /\ UNCHANGED worker_hosts
<1> DEFINE r == sandboxes[s]
<1>0. RowOK(r)
  BY DEF IInv
<1>1. CASE InsertSandbox(s)
  BY <1>0, <1>1, InsertMove DEF InsertSandbox, WriteRow
<1>2. CASE ReleasePlacement(s)
  BY <1>0, <1>2, ReleasePlacementMove DEF ReleasePlacement, WriteRow
<1>3. CASE RowAges(s)
  BY <1>0, <1>3, TickerMove DEF RowAges, WriteRow
<1>4. CASE \E w \in Workers : ReservePlacement(s, w)
  BY <1>0, <1>4, ReservePlacementMove DEF ReservePlacement, WriteRow
<1>5. CASE \E w \in Workers : UpdatePlacementState(s, w)
  BY <1>0, <1>5, UpdatePlacementStateMove DEF UpdatePlacementState, WriteRow
<1>6. CASE \E w \in Workers : PausePlacement(s, w) \/ ReserveResume(s, w) \/ CancelResume(s, w)
  BY <1>0, <1>6, PauseResumeMove DEF PausePlacement, ReserveResume, CancelResume, WriteRow
<1>7. CASE \E w \in Workers : ReleaseWorkerPlacement(s, w)
  BY <1>0, <1>7, ReleasePlacementMove DEF ReleaseWorkerPlacement, WriteRow
<1> QED
  BY <1>1, <1>2, <1>3, <1>4, <1>5, <1>6, <1>7 DEF RowStep

\* Registration, heartbeats, draining and ageing write a well-typed worker row.
LEMMA HostStepType ==
    ASSUME NEW w \in Workers, worker_hosts[w] \in HostRows, HostStep(w)
    PROVE  \E h \in HostRows : WriteHost(w, h)
<1> DEFINE h == worker_hosts[w]
<1>1. RegisterWorkerHost(h) \in HostRows
  BY Zenon DEF RegisterWorkerHost, HostRows
<1>2. RecordHeartbeatHost(h) \in HostRows
  BY DEF RecordHeartbeatHost, HostRows
<1>3. ASSUME NEW draining \in BOOLEAN PROVE SetWorkerDrainingHost(h, draining) \in HostRows
  BY DEF SetWorkerDrainingHost, HostRows
<1>4. ASSUME NEW fresh \in BOOLEAN
      PROVE  [h EXCEPT !.heartbeat = fresh /\ @, !.capacity = FALSE] \in HostRows
  BY DEF HostRows
<1> QED
  BY <1>1, <1>2, <1>3, <1>4
     DEF HostStep, RegisterWorker, RecordHeartbeat, SetWorkerDraining, HeartbeatAges

\* So under any step, each row either makes a RowMove or is left alone.
LEMMA NextMoves ==
    ASSUME IInv, [Next]_vars
    PROVE  /\ \A s \in Sandboxes : RowMove(sandboxes[s], sandboxes'[s])
           /\ sandboxes' \in [Sandboxes -> Rows]
           /\ worker_hosts' \in [Workers -> HostRows]
<1>0. /\ sandboxes \in [Sandboxes -> Rows]
      /\ worker_hosts \in [Workers -> HostRows]
      /\ \A s \in Sandboxes : RowOK(sandboxes[s])
  BY DEF IInv, TypeOK
<1>1. ASSUME NEW s \in Sandboxes, RowStep(s)
      PROVE  \A x \in Sandboxes : RowMove(sandboxes[x], sandboxes'[x])
  <2>1. PICK q : RowMove(sandboxes[s], q) /\ sandboxes' = [sandboxes EXCEPT ![s] = q]
    BY <1>1, RowStepMoves
  <2>2. ASSUME NEW x \in Sandboxes PROVE RowMove(sandboxes[x], sandboxes'[x])
    <3>1. CASE x = s BY <1>0, <2>1, <3>1
    <3>2. CASE x # s BY <1>0, <2>1, <3>2, StutterMove
    <3> QED BY <3>1, <3>2
  <2> QED BY <2>2
<1>2. ASSUME NEW s \in Sandboxes, RowStep(s)
      PROVE  sandboxes' \in [Sandboxes -> Rows] /\ UNCHANGED worker_hosts
  BY <1>0, <1>2, RowStepMoves DEF RowMove, RowOK
<1>3. ASSUME FailStaleUnplacedSandboxes
      PROVE  /\ \A x \in Sandboxes : RowMove(sandboxes[x], sandboxes'[x])
             /\ sandboxes' \in [Sandboxes -> Rows]
             /\ UNCHANGED worker_hosts
  <2>1. \A x \in Sandboxes : RowMove(sandboxes[x], FailStaleRow(sandboxes[x]))
    BY <1>0, TickerMove
  <2> QED BY <1>3, <2>1 DEF FailStaleUnplacedSandboxes, RowMove, RowOK
<1>4. ASSUME NEW w \in Workers, HostStep(w)
      PROVE  worker_hosts' \in [Workers -> HostRows] /\ UNCHANGED sandboxes
  <2>1. PICK h \in HostRows : WriteHost(w, h)
    BY <1>0, <1>4, HostStepType
  <2> QED BY <1>0, <2>1 DEF WriteHost
<1>5. UNCHANGED sandboxes => \A s \in Sandboxes : RowMove(sandboxes[s], sandboxes'[s])
  BY <1>0, StutterMove
<1> QED
  BY <1>0, <1>1, <1>2, <1>3, <1>4, <1>5 DEF Next, vars

\* A step preserves the invariant: RowMove ends in a RowOK row.
LEMMA NextIInv == IInv /\ [Next]_vars => IInv'
BY NextMoves DEF IInv, TypeOK, RowMove

\* The invariant holds in every reachable state.
LEMMA Invariant == Spec => []IInv
BY InitIInv, NextIInv, PTL DEF Spec

\* Both tables keep their types under every interleaving of the callers.
THEOREM TypeCorrect == Spec => []TypeOK
<1>1. IInv => TypeOK
  BY DEF IInv
<1> QED BY <1>1, Invariant, PTL

\* A row names a host only in a placed state, for any number of sandboxes,
\* workers and concurrent callers.
THEOREM HostOnlyWhilePlacedHolds == Spec => []HostOnlyWhilePlaced
<1>1. IInv => HostOnlyWhilePlaced
  BY DEF IInv, RowOK, HostOnlyWhilePlaced
<1> QED BY <1>1, Invariant, PTL

\* No transaction hands a placement from one worker to another.
THEOREM HostNeverSwapsHolds == Spec => HostNeverSwaps
<1>1. IInv /\ [Next]_vars =>
        [\A s \in Sandboxes :
          sandboxes[s].host # NoHost /\ sandboxes'[s].host # NoHost
             => sandboxes'[s].host = sandboxes[s].host]_vars
  BY NextMoves DEF RowMove
<1> QED BY <1>1, Invariant, PTL DEF Spec, HostNeverSwaps

\* No transaction, and no late worker report, wakes a paused row directly.
THEOREM PausedWakesThroughResumingHolds == Spec => PausedWakesThroughResuming
<1>1. IInv /\ [Next]_vars =>
        [\A s \in Sandboxes :
          sandboxes[s].state = "paused" => sandboxes'[s].state # "active"]_vars
  BY NextMoves DEF RowMove
<1> QED BY <1>1, Invariant, PTL DEF Spec, PausedWakesThroughResuming
=============================================================================
