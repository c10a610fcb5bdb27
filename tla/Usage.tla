-------------------------------- MODULE Usage ---------------------------------
(***************************************************************************)
(* One sandbox on one worker, as its usage is measured and charged: the    *)
(* per-minute meterTicker, the metering that Pause, Resume and Destroy do,  *)
(* the flush before a placement is released (cmd/worker/main.go), a worker *)
(* crash, and the wall-clock charge of platform.BillSandboxRuntime.        *)
(*                                                                         *)
(* ticker is None or [now, sample]: the time read at the tick, and what    *)
(* meterSession returned (None before it ran).  The ticker holds sess.mu   *)
(* while it has a sample, as Pause and Resume do; Destroy takes no lock.    *)
(***************************************************************************)
EXTENDS Metering

CONSTANTS
    Billers         \* BillSandboxRuntime calls that may be in flight

VARIABLES
    st,             \* the session and its row: "active", "paused", "gone"
    ticker,
    destroy,        \* where Destroy is
    final,          \* what Destroy's meterSession returned
    pausedAt,       \* sandboxes.paused_at
    lastBilled,     \* metadata.last_billed_at
    detailed,       \* UpdateSandboxDetails has run
    bill,           \* per biller: its open transaction, or None
    used,           \* what was really used while the worker owned the sandbox
    rewound,        \* by how much stale ticks have moved meterLast back
    due,            \* used when Destroy took the final reading
    missed,         \* final usage that could not be reported in time
    charged,        \* seconds debited
    erased          \* the last_billed_at that UpdateSandboxDetails erased

lifeVars == <<st, ticker, destroy, final, used, rewound, due, missed>>
billVars == <<pausedAt, lastBilled, detailed, bill, charged, erased>>
vars == <<meterVars, lifeVars, billVars>>

TypeOK ==
    /\ MeteringTypeOK
    /\ st \in {"active", "paused", "gone"}
    /\ ticker = None \/ (ticker.now \in Times /\ (ticker.sample = None \/ ticker.sample \in Seq(Samples)))
    /\ destroy \in {"no", "meter", "record", "flush", "release", "forget", "failed", "done"}
    /\ final \in Seq(Samples) /\ used \in Usage /\ (due = None \/ due \in Usage)
    /\ rewound \in Nat /\ missed \in BOOLEAN /\ detailed \in BOOLEAN
    /\ {pausedAt, lastBilled} \subseteq Times \cup {None}
    /\ \A b \in Billers : bill[b] = None \/ (bill[b].start \in Times /\ bill[b].end \in Times)
    /\ charged \in Nat /\ erased \in Times

Init ==
    /\ MeteringInit
    /\ st = "active" /\ ticker = None /\ destroy = "no" /\ final = <<>>
    /\ used = [vcpu |-> 0, disk |-> 0] /\ rewound = 0 /\ due = None /\ missed = FALSE
    /\ pausedAt = None /\ lastBilled = None /\ detailed = FALSE
    /\ bill = [b \in Billers |-> None] /\ charged = 0 /\ erased = 0

\* Time passes; what it uses is used as long as the worker has the sandbox.
Tick ==
    /\ clock < MaxTime
    /\ clock' = clock + 1
    /\ used' = IF ~host \/ st = "gone" THEN used
               ELSE [vcpu |-> used.vcpu + (IF st = "active" THEN 1 ELSE 0), disk |-> used.disk + 1]
    /\ UNCHANGED <<meterLast, meterTotals, input, flushed, host, meters, budget>>
    /\ UNCHANGED <<st, ticker, destroy, final, rewound, due, missed, billVars>>

Rewind(now) == rewound' = rewound + (IF now < LastReading THEN LastReading - now ELSE 0)

Locked == ticker # None /\ ticker.sample # None

\* FOR UPDATE: the row is locked by an open billing transaction.
RowLocked == \E b \in Billers : bill[b] # None

-----------------------------------------------------------------------------
(* meterTicker.                                                            *)

\* The time and store.All(), read once for the whole round.
TickerStart ==
    /\ ticker = None /\ st # "gone" /\ destroy = "no" /\ Spend("rounds")
    /\ ticker' = [now |-> clock, sample |-> None]
    /\ UNCHANGED <<clock, meterLast, meterTotals, input, flushed, host, meters>>
    /\ UNCHANGED <<billVars, st, destroy, final, used, rewound, due, missed>>

\* sess.mu taken, which an exec or a pause may have held for long.
TickerMeter ==
    /\ ticker # None /\ ticker.sample = None
    /\ ticker' = [ticker EXCEPT !.sample = Emitted(st = "active", ticker.now)]
    /\ MeterSession(st = "active", ticker.now) /\ Rewind(ticker.now)
    /\ UNCHANGED <<clock, input, flushed, host, meters, budget>>
    /\ UNCHANGED <<billVars, st, destroy, final, used, due, missed>>

\* onMeter, outside meterMu.
TickerRecord ==
    /\ Locked
    /\ Record(ticker.sample)
    /\ ticker' = None
    /\ UNCHANGED <<clock, meterLast, meterTotals, flushed, host, meters, budget>>
    /\ UNCHANGED <<billVars, st, destroy, final, used, rewound, due, missed>>

-----------------------------------------------------------------------------
(* Pause and Resume, once the VM is down or up, and Destroy.               *)

\* The row's paused_at is PausePlacement's.
Pause ==
    /\ st = "active" /\ destroy = "no" /\ Spend("turns") /\ ~Locked /\ ~RowLocked
    /\ MeterSession(TRUE, clock) /\ Record(Emitted(TRUE, clock))
    /\ st' = "paused" /\ pausedAt' = clock
    /\ UNCHANGED <<clock, flushed, host, meters>>
    /\ UNCHANGED <<ticker, destroy, final, used, rewound, due, missed>>
    /\ UNCHANGED <<lastBilled, detailed, bill, charged, erased>>

Resume ==
    /\ st = "paused" /\ destroy = "no" /\ Spend("turns") /\ ~Locked /\ ~RowLocked
    /\ MeterSession(FALSE, clock) /\ Record(Emitted(FALSE, clock))
    /\ st' = "active" /\ pausedAt' = None
    /\ UNCHANGED <<clock, flushed, host, meters>>
    /\ UNCHANGED <<ticker, destroy, final, used, rewound, due, missed>>
    /\ UNCHANGED <<lastBilled, detailed, bill, charged, erased>>

\* store.Delete.
DestroyStart ==
    /\ st # "gone" /\ destroy = "no"
    /\ destroy' = "meter"
    /\ UNCHANGED <<meterVars, billVars, st, ticker, final, used, rewound, due, missed>>

DestroyMeter ==
    /\ destroy = "meter"
    /\ MeterSession(st = "active", clock)
    /\ final' = Emitted(st = "active", clock) /\ due' = used
    /\ destroy' = "record"
    /\ UNCHANGED <<clock, input, flushed, host, meters, budget>>
    /\ UNCHANGED <<billVars, st, ticker, used, rewound, missed>>

DestroyRecordUnflushed ==
    /\ destroy = "record"
    /\ Record(final)
    /\ final' = <<>> /\ destroy' = "release" /\ missed' = (missed \/ Locked)
    /\ UNCHANGED <<clock, meterLast, meterTotals, flushed, host, meters, budget>>
    /\ UNCHANGED <<billVars, st, ticker, used, rewound, due>>

\* Record, the teardown, and the Flush that the state hook puts behind it.
DestroyRecord ==
    /\ destroy = "record"
    /\ Record(Append(final, FlushCommand))
    /\ final' = <<>> /\ destroy' = "flush" /\ missed' = (missed \/ Locked)
    /\ UNCHANGED <<clock, meterLast, meterTotals, flushed, host, meters, budget>>
    /\ UNCHANGED <<billVars, st, ticker, used, rewound, due>>

\* The answer, or the ten seconds' timeout; an error is only logged.
DestroyFlushed ==
    /\ destroy = "flush"
    /\ missed' = (missed \/ flushed # TRUE)
    /\ destroy' = "release"
    /\ UNCHANGED <<meterVars, billVars, st, ticker, final, used, rewound, due>>

\* ReportWorkerState: releasePlacement clears host_id.
DestroyRelease ==
    /\ destroy = "release"
    /\ \/ destroy' = "forget" /\ host' = FALSE /\ ~RowLocked
       \/ destroy' = "failed" /\ host' \in (IF RowLocked THEN {host} ELSE {host, FALSE})
    /\ UNCHANGED <<clock, meterLast, meterTotals, input, flushed, meters, budget>>
    /\ UNCHANGED <<billVars, st, ticker, final, used, rewound, due, missed>>

DestroyForget ==
    /\ destroy = "forget"
    /\ ForgetMeter
    /\ destroy' = "done"
    /\ UNCHANGED <<clock, input, flushed, host, meters, budget>>
    /\ UNCHANGED <<billVars, st, ticker, final, used, rewound, due, missed>>

\* The worker dies: NewManager starts a recovered session's meter anew, and
\* an active session is gone.
Crash ==
    /\ st # "gone" /\ destroy = "no" /\ ~missed
    /\ missed' = TRUE
    /\ st' = IF st = "paused" THEN "paused" ELSE "gone"
    /\ meterLast' = IF st = "paused" THEN clock ELSE None
    /\ meterTotals' = None
    /\ input' = <<>> /\ ticker' = None
    /\ UNCHANGED <<clock, flushed, host, meters, budget>>
    /\ UNCHANGED <<billVars, destroy, final, used, rewound, due>>

-----------------------------------------------------------------------------
(* The control plane's wall-clock charge.                                  *)

\* Where the charge ends: now, the pause, or for a destroyed sandbox the last
\* use or update of its row, some time ago.
EndTimes ==
    IF ~host THEN 0..clock
    ELSE IF st = "paused" THEN {pausedAt} ELSE {clock}

\* The unbilled time, of which less than a second costs nothing.
BillOpen(b) ==
    /\ \E end \in EndTimes :
        LET start == IF lastBilled = None THEN CreatedAt ELSE lastBilled
        IN  end > start /\ bill' = [bill EXCEPT ![b] = [start |-> start, end |-> end]]
    /\ UNCHANGED <<clock, meterLast, meterTotals, input, flushed, host, meters>>
    /\ UNCHANGED <<lifeVars, pausedAt, lastBilled, detailed, charged, erased>>

BillReadUnlocked(b) ==
    /\ bill[b] = None /\ Spend("bills")
    /\ BillOpen(b)

\* SELECT ... FOR UPDATE.
BillRead(b) ==
    /\ ~RowLocked /\ Spend("bills")
    /\ BillOpen(b)

\* The debit and the stamp, committed together or rolled back.
BillEnds(b) ==
    /\ bill[b] # None
    /\ bill' = [bill EXCEPT ![b] = None]
    /\ \/ /\ charged' = charged + (bill[b].end - bill[b].start)
          /\ lastBilled' = bill[b].end
       \/ UNCHANGED <<charged, lastBilled>>
    /\ UNCHANGED <<meterVars, lifeVars, pausedAt, detailed, erased>>

\* The create handler replaces the row's metadata, last_billed_at with it.
UpdateSandboxDetails ==
    /\ ~detailed /\ ~RowLocked /\ Spend("bills")
    /\ detailed' = TRUE /\ lastBilled' = None
    /\ erased' = IF lastBilled = None THEN 0 ELSE lastBilled
    /\ UNCHANGED <<clock, meterLast, meterTotals, input, flushed, host, meters>>
    /\ UNCHANGED <<lifeVars, pausedAt, bill, charged>>

-----------------------------------------------------------------------------
Worker == TickerStart \/ TickerMeter \/ TickerRecord \/ Pause \/ Resume \/ DestroyStart \/ DestroyMeter
          \/ DestroyRecord \/ DestroyFlushed \/ DestroyRelease \/ DestroyForget \/ Crash
Report == Reporter /\ UNCHANGED <<lifeVars, billVars>>
Billing == UpdateSandboxDetails \/ \E b \in Billers : BillRead(b) \/ BillEnds(b)

Next == Tick \/ Worker \/ Report \/ Billing

\* run never stops serving its channel and its ticker.
Spec == Init /\ [][Next]_vars /\ WF_vars(Report)

-----------------------------------------------------------------------------
Metered(f) == MapThenSumSet(LAMBDA b : meters[b][f], Buckets)

\* usage_meters never holds more than was used, whatever is resubmitted,
\* reordered, metered after Destroy or recovered after a crash; except for
\* what a tick with an old reading makes the meter count again
\* (meterSession, forgetMeter, Reporter.flush, AccrueUsageMeters).
MetersWithinUse ==
    /\ Metered("vcpu") <= used.vcpu + rewound
    /\ Metered("disk") <= used.disk + rewound

\* When Destroy has released the placement, after which the worker's samples
\* are rejected, all that was used up to its final reading is in
\* usage_meters; unless the worker crashed, the flush failed or timed out, or
\* the ticker was about to record (the state hook of cmd/worker/main.go).
FinalUsageReported ==
    (destroy \in {"forget", "done"} /\ ~missed)
        => Metered("vcpu") >= due.vcpu /\ Metered("disk") >= due.disk

\* No second is charged twice: what was debited is at most the time from the
\* creation to last_billed_at (BillSandboxRuntime), plus what
\* UpdateSandboxDetails erased.
ChargedOnce == charged <= erased + (IF lastBilled = None THEN CreatedAt ELSE lastBilled)

\* The samples waiting on the worker are all taken by the control plane in the
\* end, however often a submission fails (Reporter.flush, flushAll).
QueueDrains == (input # <<>>) ~> (input = <<>>)
=============================================================================
