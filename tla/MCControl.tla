------------------------------ MODULE MCControl ------------------------------
(***************************************************************************)
(* The machine lock, and the scope table that is judged under it.  A       *)
(* behaviour is one of one of the two, chosen at the start; the other's    *)
(* variables stay as they were, where no fair action of the lock is        *)
(* enabled.                                                                *)
(***************************************************************************)
EXTENDS BrLock, ScopeLifecycle

VARIABLE part

all == <<part, lock_vars, vars>>

ControlInit == part \in {"lock", "scopes"} /\ LockInit /\ Init

Lock == part = "lock" /\ LockNext /\ UNCHANGED <<part, vars>>
Scopes == part = "scopes" /\ Next /\ UNCHANGED <<part, lock_vars>>

ControlSpec == ControlInit /\ [][Lock \/ Scopes]_all /\ LockFairness
=============================================================================
