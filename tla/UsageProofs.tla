------------------------------ MODULE UsageProofs ------------------------------
(***************************************************************************)
(* No second is charged twice, for any number of bills in flight.  What    *)
(* makes it so is the row lock: the start a bill has read is still where   *)
(* the last charge ended when the bill is committed.                       *)
(***************************************************************************)
EXTENDS Usage, TLAPS

\* Where the next charge starts (BillSandboxRuntime's start).
BilledUpTo == IF lastBilled = None THEN CreatedAt ELSE lastBilled

\* The times that charges are made of.
TimesOK ==
    /\ clock \in Nat
    /\ st = "paused" => pausedAt \in Nat
    /\ lastBilled \in Nat \cup {None}
    /\ charged \in Nat /\ erased \in Nat
    /\ ~detailed => erased = 0

\* A bill in flight is the only one and starts where the last one ended.
BillsOK ==
    \A b \in Billers : bill[b] # None =>
        /\ bill[b].start = BilledUpTo
        /\ bill[b].end \in Nat /\ bill[b].end > bill[b].start
        /\ \A c \in Billers : bill[c] # None => c = b

ChargeInv ==
    /\ DOMAIN bill = Billers
    /\ TimesOK /\ BillsOK /\ ChargedOnce

\* What the other steps may touch: the clock, and a pause with its time.
LEMMA ChargeInvElsewhere ==
    ASSUME ChargeInv, clock' \in Nat, st' = "paused" => pausedAt' \in Nat,
           UNCHANGED <<lastBilled, detailed, bill, charged, erased>>
    PROVE  ChargeInv'
BY DEF ChargeInv, TimesOK, BillsOK, ChargedOnce, BilledUpTo

\* Metering, the ticker, Destroy, a crash and the Reporter charge nothing.
LEMMA ChargeInvMetering ==
    ASSUME ChargeInv, Tick \/ Worker \/ Report
    PROVE  ChargeInv'
<1>1. CASE Tick
  <2>1. clock' = clock + 1 /\ UNCHANGED <<st, pausedAt, lastBilled, detailed, bill, charged, erased>>
    BY <1>1 DEF Tick, billVars
  <2>2. clock' \in Nat
    BY <2>1 DEF ChargeInv, TimesOK
  <2>3. QED
    BY <2>1, <2>2, ChargeInvElsewhere DEF ChargeInv, TimesOK
<1>2. CASE Pause
  BY <1>2, ChargeInvElsewhere DEF ChargeInv, TimesOK, Pause
<1>3. CASE Resume
  BY <1>3, ChargeInvElsewhere DEF ChargeInv, TimesOK, Resume
<1>4. CASE Crash
  BY <1>4, ChargeInvElsewhere DEF ChargeInv, TimesOK, Crash, billVars
<1>5. CASE TickerStart \/ TickerMeter \/ TickerRecord
  BY <1>5, ChargeInvElsewhere DEF ChargeInv, TimesOK, TickerStart, TickerMeter, TickerRecord, billVars
<1>6. CASE DestroyStart \/ DestroyMeter \/ DestroyRecord \/ DestroyFlushed \/ DestroyRelease \/ DestroyForget
  BY <1>6, ChargeInvElsewhere DEF ChargeInv, TimesOK, DestroyStart, DestroyMeter, DestroyRecord,
         DestroyFlushed, DestroyRelease, DestroyForget, billVars, meterVars
<1>7. CASE Report
  BY <1>7, ChargeInvElsewhere DEF ChargeInv, TimesOK, Report, Reporter, Submitted, SubmitFails, FlushAnswered,
         billVars, lifeVars
<1> QED
  BY <1>1, <1>2, <1>3, <1>4, <1>5, <1>6, <1>7 DEF Worker

\* SELECT ... FOR UPDATE: no other bill is in flight.
LEMMA ChargeInvRead ==
    ASSUME ChargeInv, NEW b \in Billers, BillRead(b)
    PROVE  ChargeInv'
<1>1. PICK end \in EndTimes :
        end > BilledUpTo /\ bill' = [bill EXCEPT ![b] = [start |-> BilledUpTo, end |-> end]]
  BY DEF BillRead, BillOpen, BilledUpTo
<1>2. \A c \in Billers : bill[c] = None
  BY DEF BillRead, RowLocked
<1>3. end \in Nat
  BY DEF EndTimes, ChargeInv, TimesOK
<1>4. UNCHANGED <<clock, st, pausedAt, lastBilled, detailed, charged, erased>>
  BY DEF BillRead, BillOpen, lifeVars
<1>5. DOMAIN bill' = Billers /\ TimesOK' /\ ChargedOnce'
  BY <1>1, <1>4 DEF ChargeInv, TimesOK, ChargedOnce
<1>6. BillsOK'
  BY <1>1, <1>2, <1>3, <1>4 DEF ChargeInv, BillsOK, BilledUpTo
<1> QED
  BY <1>5, <1>6 DEF ChargeInv

\* The commit debits the time from the last charge to the new stamp.
LEMMA ChargeInvEnds ==
    ASSUME ChargeInv, NEW b \in Billers, BillEnds(b)
    PROVE  ChargeInv'
<1>1. /\ bill[b] # None /\ bill' = [bill EXCEPT ![b] = None]
      /\ UNCHANGED <<clock, st, pausedAt, detailed, erased>>
  BY DEF BillEnds, meterVars, lifeVars
<1>2. /\ bill[b].start = BilledUpTo /\ bill[b].end \in Nat /\ bill[b].end > bill[b].start
      /\ \A c \in Billers : bill'[c] = None
  BY <1>1 DEF ChargeInv, BillsOK
<1>3. CASE UNCHANGED <<charged, lastBilled>>
  BY <1>1, <1>2, <1>3 DEF ChargeInv, TimesOK, BillsOK, ChargedOnce
<1>4. CASE charged' = charged + (bill[b].end - bill[b].start) /\ lastBilled' = bill[b].end
  <2>1. BilledUpTo \in Nat /\ charged <= erased + BilledUpTo /\ charged \in Nat /\ erased \in Nat
    BY DEF ChargeInv, TimesOK, ChargedOnce, BilledUpTo, CreatedAt
  <2>2. charged' \in Nat /\ charged' <= erased + bill[b].end
    BY <1>2, <1>4, <2>1
  <2>3. lastBilled' \in Nat /\ lastBilled' # None
    BY <1>2, <1>4, MeteringConstants
  <2> QED
    BY <1>1, <1>2, <1>4, <2>2, <2>3 DEF ChargeInv, TimesOK, BillsOK, ChargedOnce
<1> QED
  BY <1>3, <1>4 DEF BillEnds

\* UpdateSandboxDetails runs once, outside any bill, and erases the stamp.
LEMMA ChargeInvDetails ==
    ASSUME ChargeInv, UpdateSandboxDetails
    PROVE  ChargeInv'
<1>1. /\ lastBilled' = None /\ detailed' = TRUE /\ ~detailed
      /\ erased' = BilledUpTo
      /\ UNCHANGED <<clock, st, pausedAt, bill, charged>>
      /\ \A c \in Billers : bill[c] = None
  BY DEF UpdateSandboxDetails, RowLocked, BilledUpTo, CreatedAt, lifeVars
<1>2. BilledUpTo \in Nat /\ charged \in Nat /\ charged <= BilledUpTo
  BY <1>1 DEF ChargeInv, TimesOK, ChargedOnce, BilledUpTo, CreatedAt
<1> QED
  BY <1>1, <1>2 DEF ChargeInv, TimesOK, BillsOK, ChargedOnce, CreatedAt

\* BillSandboxRuntime (platform/profile.go) debits no second twice, however many
\* bills of the sandbox overlap and whatever else happens to it; only what
\* UpdateSandboxDetails erased may be charged again.
THEOREM ChargedOnceHolds == Spec => []ChargedOnce
<1>1. Init => ChargeInv
  BY MeteringConstants DEF Init, MeteringInit, ChargeInv, TimesOK, BillsOK, ChargedOnce, CreatedAt
<1>2. ChargeInv /\ [Next]_vars => ChargeInv'
  <2> SUFFICES ASSUME ChargeInv, [Next]_vars PROVE ChargeInv'
    OBVIOUS
  <2>1. CASE Tick \/ Worker \/ Report
    BY <2>1, ChargeInvMetering
  <2>2. CASE Billing
    BY <2>2, ChargeInvRead, ChargeInvEnds, ChargeInvDetails DEF Billing
  <2>3. CASE UNCHANGED vars
    BY <2>3, ChargeInvElsewhere DEF vars, meterVars, lifeVars, billVars, ChargeInv, TimesOK
  <2> QED
    BY <2>1, <2>2, <2>3 DEF Next
<1>3. ChargeInv => ChargedOnce
  BY DEF ChargeInv
<1> QED
  BY <1>1, <1>2, <1>3, PTL DEF Spec
=============================================================================
