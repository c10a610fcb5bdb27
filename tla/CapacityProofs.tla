--------------------------- MODULE CapacityProofs ----------------------------
(***************************************************************************)
(* What Lifecycle's workers hold, counted: a worker never reserves more    *)
(* than its slots.                                                         *)
(***************************************************************************)
EXTENDS LifecycleProofs, FiniteSetTheorems

-----------------------------------------------------------------------------
(* Slots. *)

\* The reservations alone are not inductive: a restarted worker restores them
\* from its manifest, so the stored sessions must fit as well.
Fits(S) == IsFiniteSet(S) /\ Cardinality(S) <= MaxSandboxes
SlotsInv == \A w \in Workers : Fits(Reserved(w)) /\ Fits(Stored(w))

\* Fewer fit too, and so does one more when there was room.
LEMMA FitsSubset == ASSUME NEW S, Fits(S), NEW T, T \subseteq S PROVE Fits(T)
<1>1. IsFiniteSet(T) /\ Cardinality(T) <= Cardinality(S) /\ Cardinality(T) \in Nat /\ Cardinality(S) \in Nat
  BY FS_Subset, FS_CardinalityType DEF Fits
<1> QED BY <1>1, WorkerConstants DEF Fits

LEMMA FitsOneMore ==
    ASSUME NEW S, Fits(S), Cardinality(S) < MaxSandboxes, NEW x, NEW T, T \subseteq S \cup {x}
    PROVE  Fits(T)
<1>1. IsFiniteSet(S \cup {x}) /\ Cardinality(S) \in Nat
      /\ (Cardinality(S \cup {x}) = Cardinality(S) \/ Cardinality(S \cup {x}) = Cardinality(S) + 1)
  BY FS_AddElement, FS_CardinalityType DEF Fits
<1>2. Fits(S \cup {x})
  BY <1>1, WorkerConstants DEF Fits
<1> QED BY <1>2, FitsSubset

\* A reservation or a session is only added when there is room for it.
Admits(t) ==
    /\ admission'[task[t].w][task[t].s] # "none" =>
          Adm(t) # "none" \/ Cardinality(Reserved(task[t].w)) < MaxSandboxes
    /\ sess'[task[t].w][task[t].s].stored =>
          Sess(t).stored \/ Cardinality(Stored(task[t].w)) < MaxSandboxes

\* What an update of the admission map or of a session leaves of its entry.
LEMMA AdmKeeps ==
    ASSUME NEW t, Busy(t), NEW a \in AdmRec, SetAdm(t, a)
    PROVE  admission'[task[t].w][task[t].s] = a
BY AdmMoves DEF AdmPart

LEMMA SessKeeps ==
    ASSUME NEW t, Busy(t), NEW x \in SessRec, SetSess(t, x)
    PROVE  sess'[task[t].w][task[t].s] = x
BY SessMoves DEF SessPart

\* Only ReserveCreate and the session store's Add take a slot.
LEMMA TaskAdmits == ASSUME NEW t, Busy(t), TaskStep(t) PROVE Admits(t)
<1> DEFINE w == task[t].w
           s == task[t].s
<1>  t \in Tasks /\ Sess(t) \in SessRec /\ Adm(t) \in AdmRec
  BY BusyTask DEF Busy
<1>1. \/ UNCHANGED admission \/ SetAdm(t, "none")
      \/ SetAdm(t, MarkPaused(Adm(t))) \/ SetAdm(t, MarkActive(Adm(t)))
      \/ SetAdm(t, "active") /\ (Adm(t) = "paused" \/ Cardinality(Reserved(w)) < MaxSandboxes)
  BY Zenon DEF TaskStep, CreateAdmit, CreateAcquire, CreateAdd, CreateConnect, CreateRelease,
       PauseGet, PauseLock, PauseSnap, PauseTeardown, PauseCommit, PauseMark, PauseReport, PauseEnd,
       ResumeAdmit, ResumeGet, ResumeLock, ResumeRestore, ResumeCommit, ResumeMark, ResumeReport,
       ResumeRecheck, ResumeFail, ExecEnsureActive, ExecGet, ExecLock, ExecRun,
       DeleteStored, DeleteTeardown, DeleteMark, DeleteReport, DeleteRelease
<1>2. admission'[w][s] # "none" => Adm(t) # "none" \/ Cardinality(Reserved(w)) < MaxSandboxes
  <2>1. CASE UNCHANGED admission
    BY <2>1 DEF Adm
  <2>2. CASE SetAdm(t, "none")
    BY <2>2, AdmKeeps, AdmValues
  <2>3. CASE SetAdm(t, MarkPaused(Adm(t))) \/ SetAdm(t, MarkActive(Adm(t)))
    <3>1. admission'[w][s] \in {MarkPaused(Adm(t)), MarkActive(Adm(t))}
      BY <2>3, AdmKeeps, MarkType
    <3> QED BY <3>1, MarkType
  <2>4. CASE Adm(t) = "paused" \/ Cardinality(Reserved(w)) < MaxSandboxes
    BY <2>4
  <2> QED BY Zenon, <1>1, <2>1, <2>2, <2>3, <2>4
<1>3. \/ UNCHANGED sess \/ SetSess(t, NoSess)
      \/ \E x \in SessRec : SetSess(t, x) /\ (x.stored => Sess(t).stored)
      \/ Cardinality(Stored(w)) < MaxSandboxes
  <2>1. CASE CreateStep(t)
    <3>1. \/ UNCHANGED sess \/ SetSess(t, NoSess) \/ Cardinality(Stored(w)) < MaxSandboxes
          \/ SetSess(t, [Sess(t) EXCEPT !.vm = TRUE, !.pooled = TRUE])
          \/ SetSess(t, [Sess(t) EXCEPT !.conn = TRUE])
          \/ SetSess(t, [Sess(t) EXCEPT !.vm = FALSE, !.stored = FALSE])
      BY <2>1 DEF CreateStep, CreateAdmit, CreateAcquire, CreateAdd, CreateConnect, CreateRelease
    <3>2. /\ [Sess(t) EXCEPT !.vm = TRUE, !.pooled = TRUE].stored = Sess(t).stored
          /\ [Sess(t) EXCEPT !.conn = TRUE].stored = Sess(t).stored
          /\ [Sess(t) EXCEPT !.vm = FALSE, !.stored = FALSE].stored = FALSE
      BY DEF SessRec
    <3>3. /\ [Sess(t) EXCEPT !.vm = TRUE, !.pooled = TRUE] \in SessRec
          /\ [Sess(t) EXCEPT !.conn = TRUE] \in SessRec
          /\ [Sess(t) EXCEPT !.vm = FALSE, !.stored = FALSE] \in SessRec
      BY Zenon, SessUpdates
    <3> QED BY <3>1, <3>2, <3>3
  <2>2. CASE PauseStep(t)
    <3>1. \/ UNCHANGED sess
          \/ \E l \in {t, NoTask}, c \in BOOLEAN : SetSess(t, [Sess(t) EXCEPT !.lock = l, !.conn = c])
          \/ \E l \in {t, NoTask} : SetSess(t, [Sess(t) EXCEPT !.lock = l])
          \/ SetSess(t, [Sess(t) EXCEPT !.vm = FALSE])
          \/ SetSess(t, [Sess(t) EXCEPT !.state = "paused", !.files = TRUE, !.pooled = FALSE])
      BY Zenon, <2>2 DEF PauseStep, PauseGet, PauseLock, PauseSnap, PauseTeardown, PauseCommit, PauseMark, PauseReport, PauseEnd
    <3>2. /\ \A l, c : [Sess(t) EXCEPT !.lock = l, !.conn = c].stored = Sess(t).stored
          /\ \A l : [Sess(t) EXCEPT !.lock = l].stored = Sess(t).stored
          /\ [Sess(t) EXCEPT !.vm = FALSE].stored = Sess(t).stored
          /\ [Sess(t) EXCEPT !.state = "paused", !.files = TRUE, !.pooled = FALSE].stored = Sess(t).stored
      BY DEF SessRec
    <3>3. /\ \A l \in {t, NoTask}, c \in BOOLEAN : [Sess(t) EXCEPT !.lock = l, !.conn = c] \in SessRec
          /\ \A l \in {t, NoTask} : [Sess(t) EXCEPT !.lock = l] \in SessRec
          /\ [Sess(t) EXCEPT !.vm = FALSE] \in SessRec
          /\ [Sess(t) EXCEPT !.state = "paused", !.files = TRUE, !.pooled = FALSE] \in SessRec
      BY Zenon, SessUpdates
    <3> QED BY Zenon, <3>1, <3>2, <3>3
  <2>3. CASE ResumeStep(t)
    <3>1. \/ UNCHANGED sess
          \/ \E l \in {t, NoTask} : SetSess(t, [Sess(t) EXCEPT !.lock = l])
          \/ SetSess(t, [Sess(t) EXCEPT !.vm = TRUE])
          \/ SetSess(t, [Sess(t) EXCEPT !.state = "active", !.conn = TRUE, !.files = FALSE])
      BY <2>3 DEF ResumeStep, ResumeAdmit, ResumeGet, ResumeLock, ResumeRestore, ResumeCommit, ResumeMark,
         ResumeReport, ResumeRecheck, ResumeFail
    <3>2. /\ \A l : [Sess(t) EXCEPT !.lock = l].stored = Sess(t).stored
          /\ [Sess(t) EXCEPT !.vm = TRUE].stored = Sess(t).stored
          /\ [Sess(t) EXCEPT !.state = "active", !.conn = TRUE, !.files = FALSE].stored = Sess(t).stored
      BY DEF SessRec
    <3> QED BY Zenon, <3>1, <3>2, SessUpdates
  <2>4. CASE ExecStep(t)
    <3>1. UNCHANGED sess \/ \E l \in {t, NoTask} : SetSess(t, [Sess(t) EXCEPT !.lock = l])
      BY <2>4 DEF ExecStep, ExecEnsureActive, ExecGet, ExecLock, ExecRun
    <3>2. \A l : [Sess(t) EXCEPT !.lock = l].stored = Sess(t).stored
      BY DEF SessRec
    <3> QED BY Zenon, <3>1, <3>2, SessUpdates
  <2>5. CASE DeleteStep(t)
    <3>1. \/ UNCHANGED sess
          \/ SetSess(t, [Sess(t) EXCEPT !.stored = FALSE])
          \/ SetSess(t, [Sess(t) EXCEPT !.files = FALSE])
          \/ SetSess(t, [Sess(t) EXCEPT !.conn = FALSE, !.vm = FALSE])
      BY Zenon, <2>5 DEF DeleteStep, DeleteStored, DeleteTeardown, DeleteMark, DeleteReport, DeleteRelease
    <3>2. /\ [Sess(t) EXCEPT !.stored = FALSE].stored = FALSE
          /\ [Sess(t) EXCEPT !.files = FALSE].stored = Sess(t).stored
          /\ [Sess(t) EXCEPT !.conn = FALSE, !.vm = FALSE].stored = Sess(t).stored
      BY DEF SessRec
    <3> QED BY Zenon, <3>1, <3>2, SessUpdates
  <2> QED BY <2>1, <2>2, <2>3, <2>4, <2>5 DEF TaskStep, CreateStep, PauseStep, ResumeStep, ExecStep, DeleteStep
<1>4. sess'[w][s].stored => Sess(t).stored \/ Cardinality(Stored(w)) < MaxSandboxes
  <2>1. NoSess \in SessRec /\ ~NoSess.stored
    BY DEF NoSess, SessRec
  <2> QED BY Zenon, <1>3, <2>1, SessKeeps DEF Sess
<1> QED BY <1>2, <1>4 DEF Admits

\* The sets after a step of t.
LEMMA SlotSets ==
    ASSUME NEW t, Busy(t), Frame(t), SlotsInv, Admits(t)
    PROVE  SlotsInv'
<1> DEFINE w == task[t].w
           s == task[t].s
<1>  w \in Workers /\ s \in Sandboxes
  BY BusyTask
<1>1. /\ \A v \in Workers, z \in Sandboxes : v # w \/ z # s => sess'[v][z] = sess[v][z]
      /\ \A v \in Workers, z \in Sandboxes : v # w \/ z # s => admission'[v][z] = admission[v][z]
  BY Zenon DEF Frame, SessPart, AdmPart
<1>2. ASSUME NEW v \in Workers, v # w PROVE Fits(Reserved(v))' /\ Fits(Stored(v))'
  <2>1. Reserved(v)' = Reserved(v) /\ Stored(v)' = Stored(v)
    BY <1>1, <1>2 DEF Reserved, Stored
  <2> QED BY <2>1 DEF SlotsInv, Fits
<1>3. ASSUME NEW v \in Workers, v = w PROVE Fits(Reserved(v))'
  <2>1. Reserved(v)' \subseteq Reserved(v) \/ (Reserved(v)' \subseteq Reserved(v) \cup {s} /\ Cardinality(Reserved(v)) < MaxSandboxes)
    <3>1. \A z \in Sandboxes : z # s => admission'[v][z] = admission[v][z]
      BY <1>1
    <3>2. admission'[v][s] # "none" => admission[v][s] # "none" \/ Cardinality(Reserved(v)) < MaxSandboxes
      BY <1>3 DEF Admits, Adm
    <3> QED BY <3>1, <3>2 DEF Reserved
  <2>2. Fits(Reserved(v)) /\ (Fits(Reserved(v)')  <=> Fits(Reserved(v))')
    BY DEF SlotsInv, Fits
  <2> QED BY Zenon, <2>1, <2>2, FitsSubset, FitsOneMore
<1>4. ASSUME NEW v \in Workers, v = w PROVE Fits(Stored(v))'
  <2>1. Stored(v)' \subseteq Stored(v) \/ (Stored(v)' \subseteq Stored(v) \cup {s} /\ Cardinality(Stored(v)) < MaxSandboxes)
    <3>1. \A z \in Sandboxes : z # s => sess'[v][z] = sess[v][z]
      BY <1>1
    <3>2. sess'[v][s].stored => sess[v][s].stored \/ Cardinality(Stored(v)) < MaxSandboxes
      BY <1>4 DEF Admits, Sess
    <3> QED BY <3>1, <3>2 DEF Stored
  <2>2. Fits(Stored(v)) /\ (Fits(Stored(v)')  <=> Fits(Stored(v))')
    BY DEF SlotsInv, Fits
  <2> QED BY Zenon, <2>1, <2>2, FitsSubset, FitsOneMore
<1> QED BY <1>2, <1>3, <1>4 DEF SlotsInv

\* A restart restores one reservation for each paused session of the manifest.
LEMMA SlotsCrash ==
    ASSUME NEW w \in Workers, Types, SlotsInv, Crash(w)
    PROVE  SlotsInv'
<1>1. /\ \A v \in Workers \ {w} : sess'[v] = sess[v] /\ admission'[v] = admission[v]
      /\ \A s \in Sandboxes : sess'[w][s].stored \/ admission'[w][s] # "none" => sess[w][s].stored
  <2>1. ~NoSess.stored
    BY DEF NoSess
  <2> QED BY <2>1, CrashSess
<1>2. ASSUME NEW v \in Workers, v # w PROVE Fits(Reserved(v))' /\ Fits(Stored(v))'
  <2>1. Reserved(v)' = Reserved(v) /\ Stored(v)' = Stored(v)
    BY <1>1, <1>2 DEF Reserved, Stored
  <2> QED BY <2>1 DEF SlotsInv, Fits
<1>3. Fits(Reserved(w))' /\ Fits(Stored(w))'
  <2>1. Reserved(w)' \subseteq Stored(w) /\ Stored(w)' \subseteq Stored(w)
    BY <1>1 DEF Reserved, Stored
  <2>2. Fits(Stored(w)) /\ (Fits(Stored(w)') <=> Fits(Stored(w))') /\ (Fits(Reserved(w)') <=> Fits(Reserved(w))')
    BY DEF SlotsInv, Fits
  <2> QED BY <2>1, <2>2, FitsSubset
<1> QED BY <1>2, <1>3 DEF SlotsInv

\* No other step changes a reservation or a session.
LEMMA OthersLeaveWorkers ==
    ASSUME [Next]_vars
    PROVE  \/ UNCHANGED <<admission, sess>>
           \/ \E t \in Tasks : TaskStep(t)
           \/ \E w \in Workers : Crash(w)
<1>1. CASE \E r \in Requests, s \in Sandboxes : Create(r, s) \/ Accept(r, s)
  BY Zenon, <1>1 DEF Create, Accept, StoreOnly
<1>2. CASE \E r \in Requests : RequestStep(r)
  <2>1. PICK r \in Requests : RequestStep(r)
    BY <1>2
  <2>2. CASE Call(r) \/ Reply(r) \/ CleanupCall(r) \/ CleanupReply(r) \/ StoreCallFails(r)
    BY Zenon, <2>2 DEF Call, Reply, CleanupCall, CleanupReply, StoreCallFails
  <2>3. CASE GetPlacement(r) \/ Place(r) \/ MarkError(r) \/ Reject(r) \/ Activate(r)
    BY <2>3 DEF GetPlacement, Place, MarkError, Reject, Activate, StoreOnly
  <2>4. CASE MarkRowPaused(r) \/ ReserveResume(r) \/ CancelResume(r)
    BY <2>4 DEF MarkRowPaused, ReserveResume, CancelResume, StoreOnly
  <2>5. CASE MarkDestroying(r) \/ RecheckDestroying(r) \/ ReleaseDestroyed(r)
    BY <2>5 DEF MarkDestroying, RecheckDestroying, ReleaseDestroyed, StoreOnly
  <2> QED BY <2>1, <2>2, <2>3, <2>4, <2>5 DEF RequestStep
<1>3. CASE \E r \in Requests : Timeout(r) \/ Disconnect(r) \/ OrchestratorStops(r)
  BY <1>3 DEF Timeout, Disconnect, OrchestratorStops
<1>4. CASE \E t \in Tasks : WorkerStep(t)
  BY <1>4 DEF WorkerStep
<1>5. CASE \E w \in Workers, s \in Sandboxes : Reap(w, s)
  BY Zenon, <1>5 DEF Reap
<1>6. CASE \/ \E s \in Sandboxes : RowAges(s)
           \/ FailStaleUnplacedSandboxes
           \/ \E w \in Workers : HeartbeatAges(w) \/ RecordHeartbeat(w)
  BY Zenon, <1>6 DEF RowAges, FailStaleUnplacedSandboxes, HeartbeatAges, RecordHeartbeat, StoreOnly
<1> QED BY <1>1, <1>2, <1>3, <1>4, <1>5, <1>6 DEF Next, vars

\* ReserveCreate is the only way into the admission map, and it counts: however
\* creates, refusals, failed boots, cleanup deletes and restarts interleave, the
\* reservations of a worker never outnumber its slots.
THEOREM SlotsNeverOverbooked == Spec => []ReservedWithinSlots
<1>1. Init => ControlInv /\ SlotsInv
  <2> SUFFICES ASSUME Init PROVE SlotsInv
    BY InitControl
  <2>1. \A w \in Workers : Reserved(w) = {} /\ Stored(w) = {}
    BY Zenon DEF Init, WorkerInit, Reserved, Stored, NoSess
  <2>2. Fits({})
    BY FS_EmptySet, WorkerConstants DEF Fits
  <2> QED BY Zenon, <2>1, <2>2 DEF SlotsInv
<1>2. ControlInv /\ SlotsInv /\ [Next]_vars => ControlInv' /\ SlotsInv'
  <2> SUFFICES ASSUME ControlInv, SlotsInv, [Next]_vars PROVE SlotsInv'
    BY StepControl
  <2>1. Types /\ TasksOK
    BY Parts
  <2>2. CASE UNCHANGED <<admission, sess>>
    <3>1. \A w \in Workers : Reserved(w)' = Reserved(w) /\ Stored(w)' = Stored(w)
      BY <2>2 DEF Reserved, Stored
    <3> QED BY <3>1 DEF SlotsInv, Fits
  <2>3. ASSUME NEW t \in Tasks, TaskStep(t) PROVE SlotsInv'
    <3>1. Busy(t)
      BY <2>1, <2>3, StepIsBusy DEF TasksOK
    <3> QED BY <2>3, <3>1, TaskFrame, TaskAdmits, SlotSets
  <2>4. ASSUME NEW w \in Workers, Crash(w) PROVE SlotsInv'
    BY <2>1, <2>4, SlotsCrash
  <2> QED BY <2>2, <2>3, <2>4, OthersLeaveWorkers
<1>3. SlotsInv => ReservedWithinSlots
  BY Zenon DEF SlotsInv, Fits, ReservedWithinSlots
<1> QED BY <1>1, <1>2, <1>3, PTL DEF Spec
=============================================================================
