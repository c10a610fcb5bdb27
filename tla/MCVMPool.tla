------------------------------ MODULE MCVMPool ------------------------------
EXTENDS VMPool

\* A host on which slots and the gate are scarce, and one on which two restores
\* overlap and meet at restoreMu.
MCHosts == {[slots |-> 1, provisions |-> 1], [slots |-> 2, provisions |-> 2]}
=============================================================================
