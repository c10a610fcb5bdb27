-------------------------- MODULE CheckpointStore --------------------------
(***************************************************************************)
(* What durable checkpoints promise of one sandbox, without uploads: a     *)
(* generation is the whole image the sandbox had when it was frozen, it    *)
(* appears at once, it never changes, and the active generation is a       *)
(* committed one and only moves forward.  Recovery.tla implements it.      *)
(***************************************************************************)
EXTENDS Naturals

CONSTANTS
    Generations,    \* generation numbers, in the order the pauses made them
    None            \* a generation that is not committed

VARIABLES
    image,          \* the image of the latest freeze
    committed,      \* committed[g]: the image generation g holds, or None
    current         \* the active generation, 0 when there is none

vars == <<image, committed, current>>

Init ==
    /\ image = None
    /\ committed = [g \in Generations |-> None]
    /\ current = 0

Freeze ==
    /\ image' # None
    /\ UNCHANGED <<committed, current>>

Commit(g) ==
    /\ committed[g] = None
    /\ committed' = [committed EXCEPT ![g] = image]
    /\ UNCHANGED <<image, current>>

Activate(g) ==
    /\ committed[g] # None
    /\ g > current
    /\ current' = g
    /\ UNCHANGED <<image, committed>>

Next == Freeze \/ \E g \in Generations : Commit(g) \/ Activate(g)

Spec == Init /\ [][Next]_vars
=============================================================================
