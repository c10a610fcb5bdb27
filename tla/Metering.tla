------------------------------- MODULE Metering -------------------------------
(***************************************************************************)
(* Raw usage of one sandbox on its way to usage_meters: meterSession of    *)
(* session.Manager, the worker's Reporter (metering/reporter.go), and      *)
(* AccrueUsageMeters behind the control plane's ingestion endpoint.        *)
(*                                                                         *)
(* Time is a clock of ticks, BucketLen of them to a bucket (a minute in    *)
(* the code); a sandbox has one vCPU and one GB of disk, so usage counts   *)
(* ticks.  A reading later in the same tick is a later reading: only one   *)
(* older than the last takes the early return of meterSession.             *)
(***************************************************************************)
EXTENDS Naturals, Sequences, FiniteSetsExt, SequencesExt

CONSTANTS
    None,
    FlushCommand,   \* a reporterCommand with flush set
    BucketLen,
    MaxTime,        \* bound: ticks of a behaviour
    MaxBatchSize,
    Budgets         \* bound: how much of each kind a behaviour may do

ASSUME MeteringConstants ==
    /\ BucketLen \in Nat \ {0} /\ MaxTime \in Nat /\ MaxBatchSize \in Nat \ {0}
    /\ Budgets \subseteq [rounds : Nat, turns : Nat, faults : Nat, bills : Nat]
    /\ None # FlushCommand /\ None \notin Nat

VARIABLES
    clock,
    meterLast,      \* meterLast[sess.ID], or None
    meterTotals,    \* meterTotals[sess.ID], or None
    input,          \* the samples run has pending, then the channel Reporter.input
    flushed,        \* the answer to the Flush: None, TRUE or FALSE for an error
    host,           \* sandboxes.host_id is this worker
    meters,         \* usage_meters
    budget          \* what is left of the behaviour's budget

meterVars == <<clock, meterLast, meterTotals, input, flushed, host, meters, budget>>

CreatedAt == 0
Times == 0..MaxTime
Bucket(t) == t \div BucketLen
Buckets == {Bucket(t) : t \in Times}
Usage == [vcpu : Nat, disk : Nat]
Samples == [bucket : Buckets, use : Usage]

MeteringTypeOK ==
    /\ clock \in Times /\ meterLast \in Times \cup {None} /\ (meterTotals = None \/ meterTotals \in Samples)
    /\ \A i \in DOMAIN input : input[i] = FlushCommand \/ input[i] \in Samples
    /\ flushed \in {None, TRUE, FALSE} /\ host \in BOOLEAN
    /\ meters \in [Buckets -> Usage] /\ budget \in [rounds : Nat, turns : Nat, faults : Nat, bills : Nat]

MeteringInit ==
    /\ clock = 0 /\ meterLast = CreatedAt /\ meterTotals = None
    /\ input = <<>> /\ flushed = None
    /\ host = TRUE /\ meters = [b \in Buckets |-> [vcpu |-> 0, disk |-> 0]]
    /\ budget \in Budgets

-----------------------------------------------------------------------------
(* meterSession.                                                           *)

LastReading == IF meterLast = None THEN CreatedAt ELSE meterLast

\* The total of now's bucket with the time since the last reading, all of
\* which counts for that bucket.
Total(active, now) ==
    LET old == IF meterTotals # None /\ meterTotals.bucket = Bucket(now)
               THEN meterTotals.use ELSE [vcpu |-> 0, disk |-> 0]
    IN  [bucket |-> Bucket(now),
         use |-> [vcpu |-> old.vcpu + (IF active THEN now - LastReading ELSE 0), disk |-> old.disk + (now - LastReading)]]

\* What meterSession hands to onMeter.
Emitted(active, now) == IF now < LastReading THEN <<>> ELSE <<Total(active, now)>>

MeterSessionUnguarded(active, now) ==
    /\ meterLast' = now
    /\ meterTotals' = Total(active, now)

\* A reading older than the last one still replaces it.
MeterSession(active, now) ==
    /\ meterLast' = now
    /\ meterTotals' = IF now < LastReading THEN meterTotals ELSE Total(active, now)

ForgetMeter == meterLast' = None /\ meterTotals' = None

Spend(kind) ==
    /\ budget[kind] > 0
    /\ budget' = [budget EXCEPT ![kind] = @ - 1]

Record(commands) == input' = input \o commands

-----------------------------------------------------------------------------
(* Reporter.run and the control plane.  A sample that run has taken from   *)
(* the channel and one still in it differ only in that a Flush waits for   *)
(* those before it, so the two make one sequence.                          *)

\* What a flush may send: samples recorded before any Flush still waiting.
Pending == SelectInSeq(Append(input, FlushCommand), LAMBDA c : c = FlushCommand) - 1
Batch == SubSeq(input, 1, Min({MaxBatchSize, Pending}))

AccrueSummed(batch) ==
    meters' = [b \in Buckets |->
        LET S == {i \in DOMAIN batch : batch[i].bucket = b}
        IN  IF host THEN [vcpu |-> meters[b].vcpu + MapThenSumSet(LAMBDA i : batch[i].use.vcpu, S),
                          disk |-> meters[b].disk + MapThenSumSet(LAMBDA i : batch[i].use.disk, S)]
            ELSE meters[b]]

\* One transaction: the greatest total of each bucket, from the owning worker.
AccrueUsageMeters(batch) ==
    meters' = [b \in Buckets |->
        LET S == {batch[i].use : i \in {i \in DOMAIN batch : batch[i].bucket = b}} \cup {meters[b]}
        IN  IF host THEN [vcpu |-> Max({s.vcpu : s \in S}), disk |-> Max({s.disk : s \in S})]
            ELSE meters[b]]

SubmittedKept ==
    /\ Pending > 0
    /\ AccrueUsageMeters(Batch)
    /\ input' = SubSeq(input, Len(Batch), Len(input))
    /\ UNCHANGED <<clock, meterLast, meterTotals, flushed, host, budget>>

\* flush, by the ticker, for a full batch, or within a Flush.
Submitted ==
    /\ Pending > 0
    /\ AccrueUsageMeters(Batch)
    /\ input' = SubSeq(input, Len(Batch) + 1, Len(input))
    /\ UNCHANGED <<clock, meterLast, meterTotals, flushed, host, budget>>

\* Submit returns an error, before or after the transaction, and the batch
\* stays; flushAll gives up and answers the Flush with the error.
SubmitFails ==
    /\ Pending > 0 /\ Spend("faults")
    /\ AccrueUsageMeters(Batch) \/ UNCHANGED meters
    /\ \/ UNCHANGED <<input, flushed>>
       \/ /\ Contains(input, FlushCommand)
          /\ input' = Remove(input, FlushCommand)
          /\ flushed' = FALSE
    /\ UNCHANGED <<clock, meterLast, meterTotals, host>>

\* flushAll has emptied what was recorded before the Flush.
FlushAnswered ==
    /\ input # <<>> /\ Head(input) = FlushCommand
    /\ input' = Tail(input)
    /\ flushed' = TRUE
    /\ UNCHANGED <<clock, meterLast, meterTotals, host, meters, budget>>

Reporter == Submitted \/ SubmitFails \/ FlushAnswered
=============================================================================
