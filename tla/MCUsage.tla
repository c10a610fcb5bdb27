------------------------------- MODULE MCUsage --------------------------------
(***************************************************************************)
(* Usage for TLC: a behaviour exercises the meter, or the charges.         *)
(***************************************************************************)
EXTENDS Usage

MCBudgets == {
    [rounds |-> 1, turns |-> 2, faults |-> 1, bills |-> 0],
    [rounds |-> 2, turns |-> 0, faults |-> 1, bills |-> 0],
    [rounds |-> 0, turns |-> 1, faults |-> 0, bills |-> 3] }
=============================================================================
