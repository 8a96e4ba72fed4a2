--------------------------- MODULE ScopeAccounts ----------------------------
(***************************************************************************)
(* Reservations over the scope tree (kernel/src/scope.rs, reserve,         *)
(* bounded_add and release).  One resource of the three; each account is   *)
(* one atomic counter and one step is one access to it.                    *)
(*                                                                         *)
(* A reservation runs in a shared hold of the machine, so any number of    *)
(* processors are somewhere inside one at once.  The tree, the states and  *)
(* the ceilings change in an exclusive hold, which BrLock shows is never   *)
(* alongside a shared one: Fence and SetLimits find every walk complete.   *)
(***************************************************************************)
EXTENDS Naturals, Sequences, FiniteSets

CONSTANTS Scopes,        \* the scopes of one resource tree
          Path,          \* Chain::of(s): s and its ancestors, s first
          Reservations,  \* bound: reservations outstanding at once
          MaxAmount,     \* bound: the largest amount one reservation asks
          NCpu,          \* bound: processors inside a walk at once
          Ceilings,      \* bound: the ceilings set_limits is asked for
          Limit0         \* the ceilings the scopes are created with

\* The root always exists.  A chain starts at its scope and meets no scope twice, because a parent
\* link is written once, at creation, to a scope that already exists.
ASSUME PathAssumption ==
  /\ Scopes # {}
  /\ Path \in [Scopes -> Seq(Scopes)]
  /\ \A s \in Scopes :
       /\ Len(Path[s]) > 0
       /\ Path[s][1] = s
       /\ \A i, j \in 1..Len(Path[s]) : Path[s][i] = Path[s][j] => i = j

ASSUME BoundAssumption ==
  /\ IsFiniteSet(Reservations)
  /\ MaxAmount \in Nat \ {0}
  /\ NCpu \in Nat \ {0}
  /\ Ceilings \subseteq Nat
  /\ Limit0 \in [Scopes -> Nat]

VARIABLES state,    \* state[n]: "Open", or "Fenced" and never Open again
          limit,    \* limit[n]: the ceiling of n
          used,     \* used[n]: the account of n
          pc,       \* where the walk of each reservation stands
          leaf,     \* the scope it was made in
          amount,   \* how much it asked for
          level,    \* the index in Path[leaf] the walk is at
          done      \* how many levels a refused walk has to undo

vars == <<state, limit, used, pc, leaf, amount, level, done>>

Walking == {"charge", "over", "undo", "release"}

TypeOK ==
  /\ state \in [Scopes -> {"Open", "Fenced"}]
  /\ limit \in [Scopes -> Nat]
  /\ used \in [Scopes -> Nat]
  /\ pc \in [Reservations -> {"idle", "held"} \union Walking]
  /\ leaf \in [Reservations -> Scopes]
  /\ amount \in [Reservations -> 1..MaxAmount]
  /\ level \in [Reservations -> Nat \ {0}]
  /\ done \in [Reservations -> Nat]

Chain(s) == {Path[s][i] : i \in 1..Len(Path[s])}

Init ==
  /\ state = [n \in Scopes |-> "Open"]
  /\ limit = Limit0
  /\ used = [n \in Scopes |-> 0]
  /\ pc = [r \in Reservations |-> "idle"]
  /\ leaf = [r \in Reservations |-> CHOOSE s \in Scopes : TRUE]
  /\ amount = [r \in Reservations |-> 1]
  /\ level = [r \in Reservations |-> 1]
  /\ done = [r \in Reservations |-> 0]

Busy == {r \in Reservations : pc[r] \in Walking}

Goto(r, from, to) == pc[r] = from /\ pc' = [pc EXCEPT ![r] = to]

Node(r) == Path[leaf[r]][level[r]]

Last(r) == level[r] = Len(Path[leaf[r]])

\* u64::saturating_sub.
Less(x, a) == IF x >= a THEN x - a ELSE 0

-----------------------------------------------------------------------------
(* reserve(): the walk up the chain, and down again when a level refuses.  *)

Begin(r, s, a) ==
  /\ Goto(r, "idle", "charge")
  /\ Cardinality(Busy) < NCpu
  /\ leaf' = [leaf EXCEPT ![r] = s]
  /\ amount' = [amount EXCEPT ![r] = a]
  /\ UNCHANGED <<state, limit, used, level, done>>

\* Where a refused walk goes: to the undo of the levels below, if any.
Unwind(r, from) ==
  /\ Goto(r, from, IF level[r] = 1 THEN "idle" ELSE "undo")
  /\ done' = [done EXCEPT ![r] = level[r] - 1]
  /\ level' = [level EXCEPT ![r] = 1]

\* The state is read before the account is touched.
Refuse(r) ==
  /\ state[Node(r)] # "Open"
  /\ Unwind(r, "charge")
  /\ UNCHANGED <<state, limit, used, leaf, amount>>

\* bounded_add's fetch_add, and the check of what it returned.
Charge(r) ==
  LET n == Node(r) IN
  /\ state[n] = "Open"
  /\ used' = [used EXCEPT ![n] = @ + amount[r]]
  /\ IF used[n] + amount[r] > limit[n]
       THEN Goto(r, "charge", "over") /\ UNCHANGED level
       ELSE /\ Goto(r, "charge", IF Last(r) THEN "held" ELSE "charge")
            /\ level' = [level EXCEPT ![r] = IF Last(r) THEN 1 ELSE @ + 1]
  /\ UNCHANGED <<state, limit, leaf, amount, done>>

\* bounded_add's fetch_sub: the level that refused takes its add back.
Over(r) ==
  /\ used' = [used EXCEPT ![Node(r)] = @ - amount[r]]
  /\ Unwind(r, "over")
  /\ UNCHANGED <<state, limit, leaf, amount>>

\* An undo that stops one level short.
UndoShort(r) ==
  /\ used' = [used EXCEPT ![Node(r)] = @ - amount[r]]
  /\ Goto(r, "undo", IF level[r] + 1 >= done[r] THEN "idle" ELSE "undo")
  /\ level' = [level EXCEPT ![r] = IF level[r] + 1 >= done[r] THEN 1 ELSE @ + 1]
  /\ done' = [done EXCEPT ![r] = IF level[r] + 1 >= done[r] THEN 0 ELSE @]
  /\ UNCHANGED <<state, limit, leaf, amount>>

\* One level of reserve's own undo of nodes[..done], the leaf first.
Undo(r) ==
  /\ used' = [used EXCEPT ![Node(r)] = @ - amount[r]]
  /\ Goto(r, "undo", IF level[r] = done[r] THEN "idle" ELSE "undo")
  /\ level' = [level EXCEPT ![r] = IF level[r] = done[r] THEN 1 ELSE @ + 1]
  /\ done' = [done EXCEPT ![r] = IF level[r] = done[r] THEN 0 ELSE @]
  /\ UNCHANGED <<state, limit, leaf, amount>>

-----------------------------------------------------------------------------
(* release(): one saturating subtraction per level.                        *)

BeginRelease(r) ==
  /\ Goto(r, "held", "release")
  /\ Cardinality(Busy) < NCpu
  /\ UNCHANGED <<state, limit, used, leaf, amount, level, done>>

Release(r) ==
  /\ used' = [used EXCEPT ![Node(r)] = Less(@, amount[r])]
  /\ Goto(r, "release", IF Last(r) THEN "idle" ELSE "release")
  /\ level' = [level EXCEPT ![r] = IF Last(r) THEN 1 ELSE @ + 1]
  /\ UNCHANGED <<state, limit, leaf, amount, done>>

-----------------------------------------------------------------------------
(* The operations that hold the machine exclusively.                       *)

\* A barrier that closes the scope itself and forgets its descendants.
FenceOne(n) ==
  /\ Busy = {}
  /\ state' = [state EXCEPT ![n] = "Fenced"]
  /\ UNCHANGED <<limit, used, pc, leaf, amount, level, done>>

Fence(n) ==
  /\ Busy = {}
  /\ state' = [s \in Scopes |-> IF n \in Chain(s) THEN "Fenced" ELSE state[s]]
  /\ UNCHANGED <<limit, used, pc, leaf, amount, level, done>>

SetLimits(n, l) ==
  /\ Busy = {}
  /\ state[n] = "Open"
  /\ Len(Path[n]) > 1 => l <= limit[Path[n][2]]
  /\ used[n] <= l
  /\ limit' = [limit EXCEPT ![n] = l]
  /\ UNCHANGED <<state, used, pc, leaf, amount, level, done>>

-----------------------------------------------------------------------------
Walk(r) ==
  \/ \E s \in Scopes, a \in 1..MaxAmount : Begin(r, s, a)
  \/ Refuse(r) \/ Charge(r) \/ Over(r) \/ Undo(r)
  \/ BeginRelease(r) \/ Release(r)

Next ==
  \/ \E r \in Reservations : Walk(r)
  \/ \E n \in Scopes : Fence(n)
  \/ \E n \in Scopes, l \in Ceilings : SetLimits(n, l)

Spec == Init /\ [][Next]_vars

-----------------------------------------------------------------------------
\* The levels of its chain whose account holds r's amount now.
Levels(r) ==
  CASE pc[r] = "idle"    -> {}
    [] pc[r] = "charge"  -> 1..(level[r] - 1)
    [] pc[r] = "over"    -> 1..level[r]
    [] pc[r] = "undo"    -> level[r]..done[r]
    [] pc[r] = "held"    -> 1..Len(Path[leaf[r]])
    [] pc[r] = "release" -> level[r]..Len(Path[leaf[r]])

Charged(r) == {Path[leaf[r]][i] : i \in Levels(r)}

\* The units of every reservation whose amount sits in the account of n.
Units(n) ==
  {u \in Reservations \X (1..MaxAmount) :
     n \in Charged(u[1]) /\ u[2] <= amount[u[1]]}

\* The units of the reservations that passed the check of n: all but the ones
\* whose fetch_add went past the ceiling and is about to be taken back.
Passed(n) == {u \in Units(n) : ~ (pc[u[1]] = "over" /\ n = Node(u[1]))}

\* A walk stands inside its chain, and on the way up in open scopes.
WalkInv ==
  \A r \in Reservations :
    /\ level[r] <= Len(Path[leaf[r]])
    /\ pc[r] \in {"idle", "held"} => level[r] = 1
    /\ pc[r] = "undo" => level[r] <= done[r] /\ done[r] < Len(Path[leaf[r]])
    /\ pc[r] \in {"charge", "over"} =>
         \A n \in Charged(r) : state[n] = "Open"

\* Every account is exactly the units that reservations have in it: a refusal
\* leaves no charge behind, a release takes back all that was charged and
\* never saturates, in any interleaving of the walks.
Conserved == \A n \in Scopes : used[n] = Cardinality(Units(n))

\* What passed the check of a scope fits in its ceiling, however many walks
\* are between their add and their undo.
Fits == \A n \in Scopes : Cardinality(Passed(n)) <= limit[n]

IInv == TypeOK /\ WalkInv /\ Conserved /\ Fits

\* scope.rs promises that a refusal leaves no charge behind and that no
\* counter ends up above its ceiling: once no walk is under way, an account
\* is what the outstanding reservations below it hold, and within its limit.
Settled ==
  Busy = {} =>
    \A n \in Scopes :
      /\ used[n] <= limit[n]
      /\ used[n] = Cardinality({u \in Reservations \X (1..MaxAmount) :
                                  /\ pc[u[1]] = "held"
                                  /\ n \in Chain(leaf[u[1]])
                                  /\ u[2] <= amount[u[1]]})

\* Each walk admits its reservation everywhere or nowhere, in one step that
\* finds every scope of its chain open and every ceiling respected.
Ceiling == INSTANCE Quota WITH
  open <- {n \in Scopes : state[n] = "Open"},
  grant <- [r \in Reservations |->
              IF pc[r] = "held" THEN <<leaf[r], amount[r]>> ELSE <<>>]

Implements == Ceiling!QSpec
=============================================================================
