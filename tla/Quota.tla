------------------------------- MODULE Quota --------------------------------
(***************************************************************************)
(* What a scope's ceiling promises (kernel/src/scope.rs, module comment):  *)
(* a reservation is admitted in its scope and in every ancestor or not at  *)
(* all, what is admitted never exceeds a ceiling on the way to the root,   *)
(* and a closed scope admits nothing.  ScopeAccounts.tla implements this   *)
(* with counters that processors move one atomic access at a time.         *)
(***************************************************************************)
EXTENDS Naturals, FiniteSets

CONSTANTS Scopes,        \* the scopes of one resource tree
          Path,          \* Path[s]: s and its ancestors, s first
          Reservations,  \* what can be outstanding at once
          MaxAmount,     \* bound: the largest amount one reservation asks
          Ceilings       \* bound: the ceilings a scope may be given

VARIABLES open,   \* the scopes that admit work
          limit,  \* the ceiling of each scope
          grant   \* grant[r]: <<scope, amount>>, or Free

qvars == <<open, limit, grant>>

Free == <<>>

Chain(s) == {Path[s][i] : i \in DOMAIN Path[s]}

\* The units admitted in n: one pair per unit of each reservation below n.
Held(n) ==
  {u \in Reservations \X (1..MaxAmount) :
     /\ grant[u[1]] # Free
     /\ n \in Chain(grant[u[1]][1])
     /\ u[2] <= grant[u[1]][2]}

QInit ==
  /\ open = Scopes
  /\ limit \in [Scopes -> Nat]
  /\ grant = [r \in Reservations |-> Free]

Admit(r, s, a) ==
  /\ grant[r] = Free
  /\ Chain(s) \subseteq open
  /\ grant' = [grant EXCEPT ![r] = <<s, a>>]
  /\ \A n \in Chain(s) : Cardinality(Held(n)') <= limit[n]
  /\ UNCHANGED <<open, limit>>

GiveBack(r) ==
  /\ grant[r] # Free
  /\ grant' = [grant EXCEPT ![r] = Free]
  /\ UNCHANGED <<open, limit>>

Close(n) ==
  /\ open' = {s \in open : n \notin Chain(s)}
  /\ UNCHANGED <<limit, grant>>

Retune(n, l) ==
  /\ n \in open
  /\ Cardinality(Held(n)) <= l
  /\ limit' = [limit EXCEPT ![n] = l]
  /\ UNCHANGED <<open, grant>>

QNext ==
  \/ \E r \in Reservations, s \in Scopes, a \in 1..MaxAmount : Admit(r, s, a)
  \/ \E r \in Reservations : GiveBack(r)
  \/ \E n \in Scopes : Close(n)
  \/ \E n \in Scopes, l \in Ceilings : Retune(n, l)

QSpec == QInit /\ [][QNext]_qvars
=============================================================================
