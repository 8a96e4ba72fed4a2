------------------------------ MODULE Versions ------------------------------
(***************************************************************************)
(* What the managed state service promises of the version it publishes:    *)
(* one version is current, and it changes only by being succeeded.         *)
(***************************************************************************)
EXTENDS Naturals

CONSTANTS Roots,   \* what a version may be
          NoRoot   \* the version of a store nothing was published in

VARIABLES generation, root

Init == generation = 0 /\ root = NoRoot

\* The next version succeeds the current one.
Succeed ==
    /\ generation' = generation + 1
    /\ root' \in Roots

Spec == Init /\ [][Succeed]_<<generation, root>>
=============================================================================
