----------------------------- MODULE MCRecovery -----------------------------
(* Recovery for TLC: a disk of two chunks, each zero or not.               *)
EXTENDS Recovery

MCIndices == 1..2
MCContents == 1..1
=============================================================================
