------------------------------ MODULE MCTerminal ------------------------------
(* Terminal with two browsers that hold the token. *)
EXTENDS Terminal
=============================================================================
