--------------------------- MODULE AccountsEventsProofs ---------------------------
(***************************************************************************)
(* Proofs about the scopes' accounts and about signals and timers.  The two *)
(* share no state; each has its own inductive invariant and its own theorems. *)
(***************************************************************************)
EXTENDS TLAPS, FiniteSetTheorems, WellFoundedInduction, ScopeAccounts,
        Events

-----------------------------------------------------------------------------
(***************************************************************************)
(* ScopeAccounts.                                                          *)
(* For every tree of scopes, every set of reservations and every ceiling:  *)
(* the accounts are exact, what was admitted fits, and the walks implement *)
(* all-or-nothing admission (Quota).                                       *)
(*                                                                         *)
(* An amount is counted as that many units, pairs of a reservation and a   *)
(* number, so that an account is the cardinality of a set of units and a   *)
(* step adds or takes one reservation's slab of them.                      *)
(***************************************************************************)

Slab(r, a) == {r} \X (1..a)

\* A reservation's amount is the number of its units.
LEMMA SlabSize ==
  ASSUME NEW r \in Reservations, NEW a \in 1..MaxAmount
  PROVE  /\ IsFiniteSet(Slab(r, a))
         /\ Cardinality(Slab(r, a)) = a
<1>1. IsFiniteSet({r}) /\ Cardinality({r}) = 1
  BY FS_Singleton
<1>2. a \in Int /\ 1 \in Int /\ a >= 1
  BY BoundAssumption
<1>3. IsFiniteSet(1..a) /\ Cardinality(1..a) = a
  BY <1>2, FS_Interval
<1>4. /\ IsFiniteSet({r} \X (1..a))
      /\ Cardinality({r} \X (1..a)) = Cardinality({r}) * Cardinality(1..a)
  BY <1>1, <1>3, FS_Product, Zenon
<1> QED BY <1>1, <1>2, <1>3, <1>4 DEF Slab

\* There are finitely many units, so every set of them can be counted.
LEMMA UnitsFinite ==
  ASSUME NEW S \in SUBSET (Reservations \X (1..MaxAmount))
  PROVE  IsFiniteSet(S) /\ Cardinality(S) \in Nat
<1>1. 1 \in Int /\ MaxAmount \in Int
  BY BoundAssumption
<1>2. IsFiniteSet(1..MaxAmount)
  BY <1>1, FS_Interval
<1>3. IsFiniteSet(Reservations \X (1..MaxAmount))
  BY <1>2, BoundAssumption, FS_Product, Zenon
<1>4. IsFiniteSet(S)
  BY <1>3, FS_Subset
<1> QED BY <1>4, FS_CardinalityType

\* Units that join a set they were not in add their number.
LEMMA Joined ==
  ASSUME NEW S \in SUBSET (Reservations \X (1..MaxAmount)),
         NEW r \in Reservations, NEW a \in 1..MaxAmount,
         S \cap Slab(r, a) = {}
  PROVE  Cardinality(S \union Slab(r, a)) = Cardinality(S) + a
<1>1. IsFiniteSet(S) /\ Cardinality(S) \in Nat
  BY UnitsFinite
<1>2. IsFiniteSet(Slab(r, a)) /\ Cardinality(Slab(r, a)) = a
  BY SlabSize
<1>3. Cardinality(S \union Slab(r, a))
        = Cardinality(S) + Cardinality(Slab(r, a)) - Cardinality(S \cap Slab(r, a))
  BY <1>1, <1>2, FS_Union
<1>4. Cardinality(S \cap Slab(r, a)) = 0
  BY FS_EmptySet, Zenon
<1>5. a \in Int
  BY BoundAssumption
<1> QED BY <1>1, <1>2, <1>3, <1>4, <1>5

\* Units that leave a set they were in take their number with them.
LEMMA Parted ==
  ASSUME NEW S \in SUBSET (Reservations \X (1..MaxAmount)),
         NEW r \in Reservations, NEW a \in 1..MaxAmount,
         Slab(r, a) \subseteq S
  PROVE  /\ Cardinality(S \ Slab(r, a)) = Cardinality(S) - a
         /\ Cardinality(S) >= a
<1>1. IsFiniteSet(S) /\ Cardinality(S) \in Nat
  BY UnitsFinite
<1>2. IsFiniteSet(Slab(r, a)) /\ Cardinality(Slab(r, a)) = a
  BY SlabSize
<1>3. S \cap Slab(r, a) = Slab(r, a)
  OBVIOUS
<1>4. Cardinality(S \ Slab(r, a)) = Cardinality(S) - Cardinality(S \cap Slab(r, a))
  BY <1>1, FS_Difference
<1>5. Slab(r, a) \in SUBSET S
  OBVIOUS
<1>6. Cardinality(Slab(r, a)) <= Cardinality(S)
  BY <1>1, <1>5, FS_Subset
<1>7. a \in Int
  BY BoundAssumption
<1> QED BY <1>1, <1>2, <1>3, <1>4, <1>6, <1>7

\* A smaller set of units is not larger in number.
LEMMA Fewer ==
  ASSUME NEW S \in SUBSET (Reservations \X (1..MaxAmount)), NEW T \in SUBSET S
  PROVE  /\ Cardinality(T) <= Cardinality(S)
         /\ Cardinality(T) \in Nat /\ Cardinality(S) \in Nat
<1>1. IsFiniteSet(S)
  BY UnitsFinite
<1>2. T \in SUBSET (Reservations \X (1..MaxAmount))
  OBVIOUS
<1> QED BY <1>1, <1>2, UnitsFinite, FS_Subset

\* The facts about one chain that the walks use.
LEMMA ChainFacts ==
  ASSUME NEW s \in Scopes
  PROVE  /\ Len(Path[s]) \in Nat \ {0}
         /\ DOMAIN Path[s] = 1..Len(Path[s])
         /\ \A i \in 1..Len(Path[s]) : Path[s][i] \in Scopes
         /\ \A i, j \in 1..Len(Path[s]) : Path[s][i] = Path[s][j] => i = j
<1>1. Path[s] \in Seq(Scopes) /\ Len(Path[s]) > 0
  BY PathAssumption
<1>2. /\ Len(Path[s]) \in Nat \ {0}
      /\ DOMAIN Path[s] = 1..Len(Path[s])
      /\ \A i \in 1..Len(Path[s]) : Path[s][i] \in Scopes
  BY <1>1
<1>3. \A i, j \in 1..Len(Path[s]) : Path[s][i] = Path[s][j] => i = j
  BY PathAssumption, Zenon
<1> QED BY <1>2, <1>3, Zenon

LEMMA InitIInv == Init => IInv
<1> SUFFICES ASSUME Init PROVE IInv
  OBVIOUS
<1>1. leaf \in [Reservations -> Scopes]
  BY PathAssumption DEF Init
<1>2. TypeOK
  BY <1>1, BoundAssumption DEF Init, TypeOK, Walking
<1>3. \A r \in Reservations : Levels(r) = {}
  BY DEF Init, Levels
<1>4. WalkInv
  BY <1>1, <1>3, ChainFacts DEF Init, WalkInv, Charged
<1>5. \A n \in Scopes : Units(n) = {} /\ Passed(n) = {}
  BY <1>3 DEF Units, Passed, Charged
<1>6. \A n \in Scopes : Cardinality(Units(n)) = 0 /\ Cardinality(Passed(n)) = 0
  BY <1>5, FS_EmptySet, Zenon
<1>7. Conserved
  BY <1>6 DEF Init, Conserved
<1>8. Fits
  BY <1>6, BoundAssumption DEF Init, Fits
<1> QED BY <1>2, <1>4, <1>7, <1>8 DEF IInv

-----------------------------------------------------------------------------
(* What a step that moves one reservation does to the units of a scope.    *)

\* An add at n brings the reservation's slab there and leaves the rest alone.
LEMMA UnitsAdded ==
  ASSUME TypeOK, NEW r \in Reservations, NEW n \in Scopes,
         n \notin Charged(r), Charged(r)' = Charged(r) \union {n},
         \A q \in Reservations \ {r} : Charged(q)' = Charged(q),
         amount' = amount
  PROVE  /\ Cardinality(Units(n))' = Cardinality(Units(n)) + amount[r]
         /\ \A m \in Scopes \ {n} : Units(m)' = Units(m)
<1>1. amount[r] \in 1..MaxAmount
  BY DEF TypeOK
<1>2. Units(n) \in SUBSET (Reservations \X (1..MaxAmount))
  BY DEF Units
<1>3. Units(n) \cap Slab(r, amount[r]) = {}
  BY DEF Units, Slab
<1>4. Units(n)' = Units(n) \union Slab(r, amount[r])
  BY <1>1, BoundAssumption DEF Units, Slab
<1>5. Cardinality(Units(n) \union Slab(r, amount[r])) = Cardinality(Units(n)) + amount[r]
  BY <1>1, <1>2, <1>3, Joined
<1>6. \A m \in Scopes \ {n} : Units(m)' = Units(m)
  BY DEF Units
<1> QED BY <1>4, <1>5, <1>6

\* A subtraction at n takes the slab away, and there was one to take.
LEMMA UnitsTaken ==
  ASSUME TypeOK, NEW r \in Reservations, NEW n \in Scopes,
         n \in Charged(r), Charged(r)' = Charged(r) \ {n},
         \A q \in Reservations \ {r} : Charged(q)' = Charged(q),
         amount' = amount
  PROVE  /\ Cardinality(Units(n))' = Cardinality(Units(n)) - amount[r]
         /\ Cardinality(Units(n)) >= amount[r]
         /\ \A m \in Scopes \ {n} : Units(m)' = Units(m)
         /\ \A m \in Scopes : Units(m)' \subseteq Units(m)
<1>1. amount[r] \in 1..MaxAmount
  BY DEF TypeOK
<1>2. Units(n) \in SUBSET (Reservations \X (1..MaxAmount))
  BY DEF Units
<1>3. Slab(r, amount[r]) \subseteq Units(n)
  BY <1>1, BoundAssumption DEF Units, Slab
<1>4. Units(n)' = Units(n) \ Slab(r, amount[r])
  BY <1>1, BoundAssumption DEF Units, Slab
<1>5. /\ Cardinality(Units(n) \ Slab(r, amount[r])) = Cardinality(Units(n)) - amount[r]
      /\ Cardinality(Units(n)) >= amount[r]
  BY <1>1, <1>2, <1>3, Parted
<1>6. \A m \in Scopes \ {n} : Units(m)' = Units(m)
  BY DEF Units
<1>7. \A m \in Scopes : Units(m)' \subseteq Units(m)
  BY DEF Units
<1> QED BY <1>4, <1>5, <1>6, <1>7

\* What passed can only have shrunk when no units came.
LEMMA PassedShrinks ==
  ASSUME IInv, TypeOK', limit' = limit,
         \A m \in Scopes : Passed(m)' \subseteq Passed(m)
  PROVE  Fits'
<1> SUFFICES ASSUME NEW m \in Scopes
             PROVE Cardinality(Passed(m)') <= limit[m]
  BY DEF Fits
<1>1. Passed(m) \in SUBSET (Reservations \X (1..MaxAmount))
  BY DEF Passed, Units
<1>2. Passed(m)' \in SUBSET Passed(m)
  OBVIOUS
<1>3. /\ Cardinality(Passed(m)') <= Cardinality(Passed(m))
      /\ Cardinality(Passed(m)') \in Nat /\ Cardinality(Passed(m)) \in Nat
  BY <1>1, <1>2, Fewer
<1>4. Cardinality(Passed(m)) <= limit[m] /\ limit[m] \in Nat
  BY DEF IInv, Fits, TypeOK
<1> QED BY <1>3, <1>4

\* A reservation whose walk does not move keeps its charges and its node.
LEMMA OthersStay ==
  ASSUME NEW q \in Reservations,
         pc'[q] = pc[q], leaf'[q] = leaf[q], level'[q] = level[q],
         done'[q] = done[q]
  PROVE  Charged(q)' = Charged(q) /\ Node(q)' = Node(q)
<1>1. Levels(q)' = Levels(q)
  BY DEF Levels
<1> QED BY <1>1 DEF Charged, Node

\* The conjuncts of WalkInv for one reservation.
WalkOK(r) ==
  /\ level[r] <= Len(Path[leaf[r]])
  /\ pc[r] \in {"idle", "held"} => level[r] = 1
  /\ pc[r] = "undo" => level[r] <= done[r] /\ done[r] < Len(Path[leaf[r]])
  /\ pc[r] \in {"charge", "over"} =>
       \A n \in Charged(r) : state[n] = "Open"

\* A step of one walk leaves the others as they were.
LEMMA OthersOK ==
  ASSUME IInv, NEW r \in Reservations, WalkOK(r)', state' = state,
         \A q \in Reservations \ {r} :
           /\ pc'[q] = pc[q] /\ leaf'[q] = leaf[q]
           /\ level'[q] = level[q] /\ done'[q] = done[q]
  PROVE  WalkInv'
<1>1. \A q \in Reservations \ {r} : WalkOK(q)'
  BY OthersStay DEF IInv, WalkInv, WalkOK
<1> QED BY <1>1 DEF WalkInv, WalkOK

LEMMA BeginIInv ==
  ASSUME IInv, NEW r \in Reservations, NEW s \in Scopes,
         NEW a \in 1..MaxAmount, Begin(r, s, a)
  PROVE  IInv'
<1>1. /\ pc[r] = "idle" /\ pc' = [pc EXCEPT ![r] = "charge"]
      /\ leaf' = [leaf EXCEPT ![r] = s] /\ amount' = [amount EXCEPT ![r] = a]
      /\ UNCHANGED <<state, limit, used, level, done>>
  BY DEF Begin, Goto
<1>2. TypeOK'
  BY <1>1 DEF IInv, TypeOK, Walking
<1>3. level[r] = 1
  BY <1>1 DEF IInv, WalkInv
<1>4. Charged(r) = {} /\ Charged(r)' = {}
  <2>1. Levels(r) = {}
    BY <1>1 DEF Levels
  <2>2. Levels(r)' = {}
    BY <1>1, <1>3 DEF Levels, IInv, TypeOK
  <2> QED BY <2>1, <2>2 DEF Charged
<1>5. \A q \in Reservations \ {r} : Charged(q)' = Charged(q) /\ Node(q)' = Node(q)
  BY <1>1, OthersStay DEF IInv, TypeOK
<1>6. WalkInv'
  <2>1. WalkOK(r)'
    BY <1>1, <1>3, <1>4, ChainFacts DEF WalkOK, IInv, TypeOK
  <2> QED BY <1>1, <2>1, OthersOK DEF IInv, TypeOK
<1>7. \A m \in Scopes : Units(m)' = Units(m)
  BY <1>1, <1>4, <1>5 DEF Units, IInv, TypeOK
<1>8. \A m \in Scopes : Passed(m)' \subseteq Passed(m)
  BY <1>1, <1>4, <1>5, <1>7 DEF Passed, Units, IInv, TypeOK
<1>9. Conserved'
  BY <1>1, <1>7 DEF IInv, Conserved
<1>10. Fits'
  BY <1>1, <1>2, <1>8, PassedShrinks
<1> QED BY <1>2, <1>6, <1>9, <1>10 DEF IInv

LEMMA RefuseIInv ==
  ASSUME IInv, NEW r \in Reservations, Refuse(r)
  PROVE  IInv'
<1>1. /\ pc[r] = "charge"
      /\ pc' = [pc EXCEPT ![r] = IF level[r] = 1 THEN "idle" ELSE "undo"]
      /\ done' = [done EXCEPT ![r] = level[r] - 1]
      /\ level' = [level EXCEPT ![r] = 1]
      /\ UNCHANGED <<state, limit, used, leaf, amount>>
  BY DEF Refuse, Unwind, Goto
<1>2. TypeOK'
  BY <1>1 DEF IInv, TypeOK, Walking
<1>3. Levels(r)' = Levels(r)
  BY <1>1 DEF Levels, IInv, TypeOK
<1>4. Charged(r)' = Charged(r)
  BY <1>1, <1>3 DEF Charged
<1>5. \A q \in Reservations \ {r} : Charged(q)' = Charged(q) /\ Node(q)' = Node(q)
  BY <1>1, OthersStay DEF IInv, TypeOK
<1>6. WalkInv'
  <2>1. WalkOK(r)'
    BY <1>1, ChainFacts DEF WalkOK, IInv, TypeOK, WalkInv
  <2> QED BY <1>1, <2>1, OthersOK DEF IInv, TypeOK
<1>7. \A m \in Scopes : Units(m)' = Units(m)
  BY <1>1, <1>4, <1>5 DEF Units
<1>8. \A m \in Scopes : Passed(m)' \subseteq Passed(m)
  BY <1>1, <1>5, <1>7 DEF Passed, Units, IInv, TypeOK
<1>9. Conserved'
  BY <1>1, <1>7 DEF IInv, Conserved
<1>10. Fits'
  BY <1>1, <1>2, <1>8, PassedShrinks
<1> QED BY <1>2, <1>6, <1>9, <1>10 DEF IInv

\* Where a walk stands in its chain.
LEMMA Standing ==
  ASSUME IInv, NEW r \in Reservations
  PROVE  /\ leaf[r] \in Scopes /\ amount[r] \in Nat
         /\ level[r] \in 1..Len(Path[leaf[r]]) /\ Len(Path[leaf[r]]) \in Nat
         /\ \A i \in 1..Len(Path[leaf[r]]) : Path[leaf[r]][i] \in Scopes
         /\ \A i, j \in 1..Len(Path[leaf[r]]) :
              Path[leaf[r]][i] = Path[leaf[r]][j] => i = j
<1>1. leaf[r] \in Scopes /\ level[r] \in Nat \ {0} /\ amount[r] \in 1..MaxAmount
      /\ level[r] <= Len(Path[leaf[r]])
  BY DEF IInv, TypeOK, WalkInv
<1> QED BY <1>1, ChainFacts, BoundAssumption

\* The add of one level, whether it passes or goes past the ceiling.
LEMMA ChargeIInv ==
  ASSUME IInv, NEW r \in Reservations, Charge(r)
  PROVE  IInv'
<1>1. /\ leaf[r] \in Scopes /\ amount[r] \in Nat
      /\ level[r] \in 1..Len(Path[leaf[r]]) /\ Len(Path[leaf[r]]) \in Nat
      /\ \A i \in 1..Len(Path[leaf[r]]) : Path[leaf[r]][i] \in Scopes
      /\ \A i, j \in 1..Len(Path[leaf[r]]) :
           Path[leaf[r]][i] = Path[leaf[r]][j] => i = j
  BY Standing
<1>2. PICK n \in Scopes : n = Node(r) /\ n = Path[leaf[r]][level[r]]
  BY <1>1 DEF Node
<1>3. /\ pc[r] = "charge" /\ state[n] = "Open"
      /\ used' = [used EXCEPT ![n] = @ + amount[r]]
      /\ UNCHANGED <<state, limit, leaf, amount, done>>
  BY <1>2 DEF Charge, Goto
<1>4. \/ /\ used[n] + amount[r] > limit[n]
         /\ pc' = [pc EXCEPT ![r] = "over"] /\ level' = level
      \/ /\ used[n] + amount[r] <= limit[n]
         /\ Last(r)
         /\ pc' = [pc EXCEPT ![r] = "held"] /\ level' = [level EXCEPT ![r] = 1]
      \/ /\ used[n] + amount[r] <= limit[n]
         /\ ~ Last(r)
         /\ pc' = pc /\ level' = [level EXCEPT ![r] = @ + 1]
  <2>1. used[n] \in Nat /\ limit[n] \in Nat
    BY <1>2 DEF IInv, TypeOK
  <2>2. CASE used[n] + amount[r] > limit[n]
    BY <1>2, <2>2 DEF Charge, Goto
  <2>3. CASE ~ (used[n] + amount[r] > limit[n]) /\ Last(r)
    <3>1. pc' = [pc EXCEPT ![r] = "held"] /\ level' = [level EXCEPT ![r] = 1]
      BY <1>2, <2>3, ZenonT(30) DEF Charge, Goto
    <3> QED BY <1>1, <2>1, <2>3, <3>1
  <2>4. CASE ~ (used[n] + amount[r] > limit[n]) /\ ~ Last(r)
    <3>1. pc' = [pc EXCEPT ![r] = "charge"] /\ level' = [level EXCEPT ![r] = @ + 1]
      BY <1>2, <2>4 DEF Charge, Goto
    <3>2. pc' = pc
      BY <1>3, <3>1 DEF IInv, TypeOK
    <3> QED BY <1>1, <2>1, <2>4, <3>1, <3>2
  <2> QED BY <2>2, <2>3, <2>4
<1>5. TypeOK'
  <2>1. used' \in [Scopes -> Nat]
    BY <1>3, <1>1, <1>2 DEF IInv, TypeOK
  <2>0. /\ level[r] + 1 \in Nat \ {0} /\ level[r] - 1 \in Nat
        /\ level \in [Reservations -> Nat \ {0}] /\ done \in [Reservations -> Nat]
    BY DEF IInv, TypeOK
  <2>2. level' \in [Reservations -> Nat \ {0}]
    BY <1>4, <2>0
  <2>3. pc' \in [Reservations -> {"idle", "held"} \union Walking]
    BY <1>4 DEF IInv, TypeOK, Walking
  <2> QED BY <1>3, <2>1, <2>2, <2>3 DEF IInv, TypeOK
<1>6. Levels(r) = 1..(level[r] - 1) /\ Levels(r)' = 1..level[r]
  BY <1>3, <1>1, <1>4 DEF Levels, Last, IInv, TypeOK
<1>7. Charged(r)' = Charged(r) \union {n} /\ n \notin Charged(r)
  <2>1. Charged(r)' = {Path[leaf[r]][i] : i \in 1..level[r]}
    BY <1>3, <1>6 DEF Charged
  <2>2. Charged(r) = {Path[leaf[r]][i] : i \in 1..(level[r] - 1)}
    BY <1>6 DEF Charged
  <2>3. 1..level[r] = (1..(level[r] - 1)) \union {level[r]}
    BY <1>1
  <2>4. \A i \in 1..(level[r] - 1) : i \in 1..Len(Path[leaf[r]]) /\ i # level[r]
    BY <1>1
  <2> QED BY <1>1, <1>2, <2>1, <2>2, <2>3, <2>4
<1>8. \A q \in Reservations \ {r} : Charged(q)' = Charged(q) /\ Node(q)' = Node(q)
  <2>1. \A q \in Reservations \ {r} : pc'[q] = pc[q] /\ level'[q] = level[q]
                                      /\ leaf'[q] = leaf[q] /\ done'[q] = done[q]
    BY <1>3, <1>4 DEF IInv, TypeOK
  <2> QED BY <2>1, OthersStay
<1>9. /\ Cardinality(Units(n))' = Cardinality(Units(n)) + amount[r]
      /\ \A m \in Scopes \ {n} : Units(m)' = Units(m)
  <2>1. TypeOK /\ amount' = amount
    BY <1>3 DEF IInv
  <2> QED BY <1>2, <1>7, <1>8, <2>1, UnitsAdded
<1>10. Conserved'
  <2>1. used'[n] = Cardinality(Units(n))'
    BY <1>3, <1>2, <1>9 DEF IInv, TypeOK, Conserved
  <2>2. \A m \in Scopes \ {n} : used'[m] = Cardinality(Units(m)')
    BY <1>3, <1>2, <1>9 DEF IInv, TypeOK, Conserved
  <2> QED BY <2>1, <2>2 DEF Conserved
<1>11. WalkInv'
  <2>1. WalkOK(r)'
    <3>1. level'[r] <= Len(Path[leaf[r]]) /\ level'[r] >= 1
      BY <1>1, <1>4 DEF Last, IInv, TypeOK
    <3>2. pc'[r] \in {"idle", "held"} => level'[r] = 1
      BY <1>3, <1>4 DEF IInv, TypeOK
    <3>3. pc'[r] # "undo"
      BY <1>3, <1>4 DEF IInv, TypeOK
    <3>4. \A m \in Charged(r)' : state'[m] = "Open"
      BY <1>3, <1>7 DEF IInv, WalkInv
    <3> QED BY <1>3, <3>1, <3>2, <3>3, <3>4 DEF WalkOK
  <2>2. \A q \in Reservations \ {r} : pc'[q] = pc[q] /\ level'[q] = level[q]
                                      /\ leaf'[q] = leaf[q] /\ done'[q] = done[q]
    BY <1>3, <1>4 DEF IInv, TypeOK
  <2> QED BY <1>3, <2>1, <2>2, OthersOK
<1>12. Fits'
  <2> SUFFICES ASSUME NEW m \in Scopes
               PROVE Cardinality(Passed(m)') <= limit[m]
    BY <1>3 DEF Fits
  <2>1. CASE m = n /\ used[n] + amount[r] <= limit[n]
    <3>1. Passed(n)' \in SUBSET Units(n)'
      BY DEF Passed
    <3>2. Units(n)' \in SUBSET (Reservations \X (1..MaxAmount))
      BY DEF Units
    <3>3. Cardinality(Passed(n)') <= Cardinality(Units(n)')
          /\ Cardinality(Passed(n)') \in Nat /\ Cardinality(Units(n)') \in Nat
      BY <3>1, <3>2, Fewer
    <3>4. Cardinality(Units(n)') = used[n] + amount[r]
      BY <1>2, <1>9 DEF IInv, Conserved
    <3>5. limit[n] \in Nat
      BY <1>2 DEF IInv, TypeOK
    <3> QED BY <2>1, <3>3, <3>4, <3>5
  <2>2. CASE ~ (m = n /\ used[n] + amount[r] <= limit[n])
    <3>1. Passed(m)' \subseteq Passed(m)
      <4> SUFFICES ASSUME NEW u \in Passed(m)' PROVE u \in Passed(m)
        OBVIOUS
      <4>1. u \in Reservations \X (1..MaxAmount) /\ u[2] <= amount[u[1]]
            /\ m \in Charged(u[1])' /\ ~ (pc'[u[1]] = "over" /\ m = Node(u[1])')
            /\ u[1] \in Reservations
        BY <1>3 DEF Passed, Units
      <4>2. CASE u[1] = r
        <5>1. m # n
          <6>1. m = n => pc'[r] = "over" /\ Node(r)' = n
            BY <1>3, <1>2, <1>4, <2>2 DEF Node, IInv, TypeOK
          <6> QED BY <4>1, <4>2, <6>1
        <5>2. m \in Charged(r)
          BY <1>7, <4>1, <4>2, <5>1
        <5> QED BY <1>3, <4>1, <4>2, <5>2 DEF Passed, Units
      <4>3. CASE u[1] # r
        <5>1. pc'[u[1]] = pc[u[1]]
          BY <1>4, <4>1, <4>3 DEF IInv, TypeOK
        <5> QED BY <1>8, <4>1, <4>3, <5>1 DEF Passed, Units
      <4> QED BY <4>2, <4>3
    <3>2. Passed(m) \in SUBSET (Reservations \X (1..MaxAmount))
      BY DEF Passed, Units
    <3>3. Cardinality(Passed(m)') <= Cardinality(Passed(m))
          /\ Cardinality(Passed(m)') \in Nat /\ Cardinality(Passed(m)) \in Nat
      BY <3>1, <3>2, Fewer
    <3>4. Cardinality(Passed(m)) <= limit[m] /\ limit[m] \in Nat
      BY DEF IInv, Fits, TypeOK
    <3> QED BY <3>3, <3>4
  <2> QED BY <2>1, <2>2
<1> QED BY <1>5, <1>10, <1>11, <1>12 DEF IInv

\* The refusing level takes its own add back.
LEMMA OverIInv ==
  ASSUME IInv, NEW r \in Reservations, Over(r)
  PROVE  IInv'
<1>1. /\ leaf[r] \in Scopes /\ amount[r] \in Nat
      /\ level[r] \in 1..Len(Path[leaf[r]]) /\ Len(Path[leaf[r]]) \in Nat
      /\ \A i \in 1..Len(Path[leaf[r]]) : Path[leaf[r]][i] \in Scopes
      /\ \A i, j \in 1..Len(Path[leaf[r]]) :
           Path[leaf[r]][i] = Path[leaf[r]][j] => i = j
  BY Standing
<1>2. PICK n \in Scopes : n = Node(r) /\ n = Path[leaf[r]][level[r]]
  BY <1>1 DEF Node
<1>3. /\ pc[r] = "over"
      /\ used' = [used EXCEPT ![n] = @ - amount[r]]
      /\ UNCHANGED <<state, limit, leaf, amount>>
  BY <1>2 DEF Over, Unwind, Goto
<1>4. /\ pc' = [pc EXCEPT ![r] = IF level[r] = 1 THEN "idle" ELSE "undo"]
      /\ done' = [done EXCEPT ![r] = level[r] - 1]
      /\ level' = [level EXCEPT ![r] = 1]
  BY DEF Over, Unwind, Goto
<1>6. PICK S, T \in SUBSET (1..Len(Path[leaf[r]])) :
        /\ Levels(r) = S /\ Levels(r)' = T
        /\ level[r] \in S /\ T = S \ {level[r]}
  <2>1. Levels(r) = 1..level[r] /\ Levels(r)' = 1..(level[r] - 1)
    BY <1>1, <1>3, <1>4 DEF Levels, Last, IInv, TypeOK, WalkInv
  <2>2. level[r] \in 1..level[r] /\ 1..(level[r] - 1) = (1..level[r]) \ {level[r]}
        /\ 1..level[r] \subseteq 1..Len(Path[leaf[r]])
    BY <1>1, <1>3, <1>4 DEF IInv, TypeOK, WalkInv
  <2> QED BY <2>1, <2>2
<1>7. Charged(r)' = Charged(r) \ {n} /\ n \in Charged(r)
  <2>1. Charged(r)' = {Path[leaf[r]][i] : i \in T}
    BY <1>3, <1>6 DEF Charged
  <2>2. Charged(r) = {Path[leaf[r]][i] : i \in S}
    BY <1>6 DEF Charged
  <2> QED BY <1>1, <1>2, <1>6, <2>1, <2>2
<1>8. \A q \in Reservations \ {r} : pc'[q] = pc[q] /\ level'[q] = level[q]
                                    /\ leaf'[q] = leaf[q] /\ done'[q] = done[q]
  BY <1>3, <1>4 DEF IInv, TypeOK
<1>9. \A q \in Reservations \ {r} : Charged(q)' = Charged(q) /\ Node(q)' = Node(q)
  BY <1>8, OthersStay
<1>10. /\ Cardinality(Units(n))' = Cardinality(Units(n)) - amount[r]
       /\ Cardinality(Units(n)) >= amount[r]
       /\ \A m \in Scopes \ {n} : Units(m)' = Units(m)
       /\ \A m \in Scopes : Units(m)' \subseteq Units(m)
  <2>1. TypeOK /\ amount' = amount
    BY <1>3 DEF IInv
  <2> QED BY <1>2, <1>7, <1>9, <2>1, UnitsTaken
<1>11. used[n] = Cardinality(Units(n)) /\ used[n] \in Nat /\ used[n] >= amount[r]
  BY <1>2, <1>10 DEF IInv, Conserved, TypeOK
<1>12. used' = [used EXCEPT ![n] = used[n] - amount[r]] /\ used[n] - amount[r] \in Nat
  BY <1>1, <1>2, <1>3, <1>11 DEF Less
<1>13. TypeOK'
  <2>1. used' \in [Scopes -> Nat]
    BY <1>12 DEF IInv, TypeOK
  <2>0. /\ level[r] + 1 \in Nat \ {0} /\ level[r] - 1 \in Nat
        /\ level \in [Reservations -> Nat \ {0}] /\ done \in [Reservations -> Nat]
    BY DEF IInv, TypeOK
  <2>2. level' \in [Reservations -> Nat \ {0}]
    BY <1>4, <2>0
  <2>3. pc' \in [Reservations -> {"idle", "held"} \union Walking]
    BY <1>4 DEF IInv, TypeOK, Walking
  <2>4. done' \in [Reservations -> Nat]
    BY <1>3, <1>4, <2>0
  <2> QED BY <1>3, <2>1, <2>2, <2>3, <2>4 DEF IInv, TypeOK
<1>14. Conserved'
  <2>1. used'[n] = Cardinality(Units(n))'
    BY <1>10, <1>11, <1>12 DEF IInv, TypeOK
  <2>2. \A m \in Scopes \ {n} : used'[m] = Cardinality(Units(m)')
    BY <1>10, <1>12 DEF IInv, TypeOK, Conserved
  <2> QED BY <2>1, <2>2 DEF Conserved
<1>15. WalkInv'
  <2>1. WalkOK(r)'
    BY <1>1, <1>3, <1>4 DEF WalkOK, Last, IInv, TypeOK, WalkInv
  <2> QED BY <1>3, <1>8, <2>1, OthersOK
<1>16. Fits'
  <2>1. \A m \in Scopes : Passed(m)' \subseteq Passed(m)
    <3> SUFFICES ASSUME NEW m \in Scopes, NEW u \in Passed(m)'
                 PROVE u \in Passed(m)
      OBVIOUS
    <3>1. u \in Units(m) /\ u[1] \in Reservations
          /\ ~ (pc'[u[1]] = "over" /\ m = Node(u[1])') /\ m \in Charged(u[1])'
      BY <1>10 DEF Passed, Units
    <3>2. CASE u[1] = r
      BY <1>2, <1>3, <1>7, <3>1, <3>2 DEF Passed
    <3>3. CASE u[1] # r
      BY <1>8, <1>9, <3>1, <3>3 DEF Passed
    <3> QED BY <3>2, <3>3
  <2> QED BY <1>3, <1>13, <2>1, PassedShrinks
<1> QED BY <1>13, <1>14, <1>15, <1>16 DEF IInv

\* The undo takes back one level more.
LEMMA UndoIInv ==
  ASSUME IInv, NEW r \in Reservations, Undo(r)
  PROVE  IInv'
<1>1. /\ leaf[r] \in Scopes /\ amount[r] \in Nat
      /\ level[r] \in 1..Len(Path[leaf[r]]) /\ Len(Path[leaf[r]]) \in Nat
      /\ \A i \in 1..Len(Path[leaf[r]]) : Path[leaf[r]][i] \in Scopes
      /\ \A i, j \in 1..Len(Path[leaf[r]]) :
           Path[leaf[r]][i] = Path[leaf[r]][j] => i = j
  BY Standing
<1>2. PICK n \in Scopes : n = Node(r) /\ n = Path[leaf[r]][level[r]]
  BY <1>1 DEF Node
<1>3. /\ pc[r] = "undo"
      /\ used' = [used EXCEPT ![n] = @ - amount[r]]
      /\ UNCHANGED <<state, limit, leaf, amount>>
  BY <1>2 DEF Undo, Goto
<1>4. \/ /\ level[r] = done[r] /\ pc' = [pc EXCEPT ![r] = "idle"]
         /\ level' = [level EXCEPT ![r] = 1] /\ done' = [done EXCEPT ![r] = 0]
      \/ /\ level[r] # done[r] /\ pc' = [pc EXCEPT ![r] = "undo"]
         /\ level' = [level EXCEPT ![r] = level[r] + 1]
         /\ done' = [done EXCEPT ![r] = done[r]]
  BY DEF Undo, Goto
<1>6. PICK S, T \in SUBSET (1..Len(Path[leaf[r]])) :
        /\ Levels(r) = S /\ Levels(r)' = T
        /\ level[r] \in S /\ T = S \ {level[r]}
  <2>1. Levels(r) = level[r]..done[r] /\ Levels(r)' = (level[r] + 1)..done[r]
    BY <1>1, <1>3, <1>4 DEF Levels, Last, IInv, TypeOK, WalkInv
  <2>2. level[r] \in level[r]..done[r] /\ (level[r] + 1)..done[r] = (level[r]..done[r]) \ {level[r]}
        /\ level[r]..done[r] \subseteq 1..Len(Path[leaf[r]])
    BY <1>1, <1>3, <1>4 DEF IInv, TypeOK, WalkInv
  <2> QED BY <2>1, <2>2
<1>7. Charged(r)' = Charged(r) \ {n} /\ n \in Charged(r)
  <2>1. Charged(r)' = {Path[leaf[r]][i] : i \in T}
    BY <1>3, <1>6 DEF Charged
  <2>2. Charged(r) = {Path[leaf[r]][i] : i \in S}
    BY <1>6 DEF Charged
  <2> QED BY <1>1, <1>2, <1>6, <2>1, <2>2
<1>8. \A q \in Reservations \ {r} : pc'[q] = pc[q] /\ level'[q] = level[q]
                                    /\ leaf'[q] = leaf[q] /\ done'[q] = done[q]
  BY <1>3, <1>4 DEF IInv, TypeOK
<1>9. \A q \in Reservations \ {r} : Charged(q)' = Charged(q) /\ Node(q)' = Node(q)
  BY <1>8, OthersStay
<1>10. /\ Cardinality(Units(n))' = Cardinality(Units(n)) - amount[r]
       /\ Cardinality(Units(n)) >= amount[r]
       /\ \A m \in Scopes \ {n} : Units(m)' = Units(m)
       /\ \A m \in Scopes : Units(m)' \subseteq Units(m)
  <2>1. TypeOK /\ amount' = amount
    BY <1>3 DEF IInv
  <2> QED BY <1>2, <1>7, <1>9, <2>1, UnitsTaken
<1>11. used[n] = Cardinality(Units(n)) /\ used[n] \in Nat /\ used[n] >= amount[r]
  BY <1>2, <1>10 DEF IInv, Conserved, TypeOK
<1>12. used' = [used EXCEPT ![n] = used[n] - amount[r]] /\ used[n] - amount[r] \in Nat
  <2>1. used[n] - amount[r] \in Nat
    BY <1>1, <1>11
  <2> QED BY <1>3, <2>1
<1>13. TypeOK'
  <2>1. used' \in [Scopes -> Nat]
    BY <1>12 DEF IInv, TypeOK
  <2>0. /\ level[r] + 1 \in Nat \ {0} /\ level[r] - 1 \in Nat
        /\ level \in [Reservations -> Nat \ {0}] /\ done \in [Reservations -> Nat]
    BY DEF IInv, TypeOK
  <2>2. level' \in [Reservations -> Nat \ {0}]
    <3>1. CASE level' = [level EXCEPT ![r] = 1]
      BY <2>0, <3>1
    <3>2. CASE level' = [level EXCEPT ![r] = level[r] + 1]
      BY <2>0, <3>2
    <3> QED BY <1>4, <3>1, <3>2
  <2>3. pc' \in [Reservations -> {"idle", "held"} \union Walking]
    BY <1>4 DEF IInv, TypeOK, Walking
  <2>4. done' \in [Reservations -> Nat]
    BY <1>3, <1>4, <2>0
  <2> QED BY <1>3, <2>1, <2>2, <2>3, <2>4 DEF IInv, TypeOK
<1>14. Conserved'
  <2>1. used'[n] = Cardinality(Units(n))'
    BY <1>10, <1>11, <1>12 DEF IInv, TypeOK
  <2>2. \A m \in Scopes \ {n} : used'[m] = Cardinality(Units(m)')
    BY <1>10, <1>12 DEF IInv, TypeOK, Conserved
  <2> QED BY <2>1, <2>2 DEF Conserved
<1>15. WalkInv'
  <2>1. WalkOK(r)'
    BY <1>1, <1>3, <1>4 DEF WalkOK, Last, IInv, TypeOK, WalkInv
  <2> QED BY <1>3, <1>8, <2>1, OthersOK
<1>16. Fits'
  <2>1. \A m \in Scopes : Passed(m)' \subseteq Passed(m)
    <3> SUFFICES ASSUME NEW m \in Scopes, NEW u \in Passed(m)'
                 PROVE u \in Passed(m)
      OBVIOUS
    <3>1. u \in Units(m) /\ u[1] \in Reservations
          /\ ~ (pc'[u[1]] = "over" /\ m = Node(u[1])') /\ m \in Charged(u[1])'
      BY <1>10 DEF Passed, Units
    <3>2. CASE u[1] = r
      BY <1>2, <1>3, <1>7, <3>1, <3>2 DEF Passed
    <3>3. CASE u[1] # r
      BY <1>8, <1>9, <3>1, <3>3 DEF Passed
    <3> QED BY <3>2, <3>3
  <2> QED BY <1>3, <1>13, <2>1, PassedShrinks
<1> QED BY <1>13, <1>14, <1>15, <1>16 DEF IInv

\* The release takes back one level more, and the subtraction never saturates.
LEMMA ReleaseIInv ==
  ASSUME IInv, NEW r \in Reservations, Release(r)
  PROVE  IInv'
<1>1. /\ leaf[r] \in Scopes /\ amount[r] \in Nat
      /\ level[r] \in 1..Len(Path[leaf[r]]) /\ Len(Path[leaf[r]]) \in Nat
      /\ \A i \in 1..Len(Path[leaf[r]]) : Path[leaf[r]][i] \in Scopes
      /\ \A i, j \in 1..Len(Path[leaf[r]]) :
           Path[leaf[r]][i] = Path[leaf[r]][j] => i = j
  BY Standing
<1>2. PICK n \in Scopes : n = Node(r) /\ n = Path[leaf[r]][level[r]]
  BY <1>1 DEF Node
<1>3. /\ pc[r] = "release"
      /\ used' = [used EXCEPT ![n] = Less(used[n], amount[r])]
      /\ UNCHANGED <<state, limit, leaf, amount, done>>
  BY <1>2 DEF Release, Goto
<1>4. \/ /\ level[r] = Len(Path[leaf[r]]) /\ pc' = [pc EXCEPT ![r] = "idle"]
         /\ level' = [level EXCEPT ![r] = 1]
      \/ /\ level[r] # Len(Path[leaf[r]]) /\ pc' = [pc EXCEPT ![r] = "release"]
         /\ level' = [level EXCEPT ![r] = level[r] + 1]
  BY DEF Release, Goto, Last
<1>6. PICK S, T \in SUBSET (1..Len(Path[leaf[r]])) :
        /\ Levels(r) = S /\ Levels(r)' = T
        /\ level[r] \in S /\ T = S \ {level[r]}
  <2>1. Levels(r) = level[r]..Len(Path[leaf[r]]) /\ Levels(r)' = (level[r] + 1)..Len(Path[leaf[r]])
    BY <1>1, <1>3, <1>4 DEF Levels, Last, IInv, TypeOK, WalkInv
  <2>2. level[r] \in level[r]..Len(Path[leaf[r]]) /\ (level[r] + 1)..Len(Path[leaf[r]]) = (level[r]..Len(Path[leaf[r]])) \ {level[r]}
        /\ level[r]..Len(Path[leaf[r]]) \subseteq 1..Len(Path[leaf[r]])
    BY <1>1, <1>3, <1>4 DEF IInv, TypeOK, WalkInv
  <2> QED BY <2>1, <2>2
<1>7. Charged(r)' = Charged(r) \ {n} /\ n \in Charged(r)
  <2>1. Charged(r)' = {Path[leaf[r]][i] : i \in T}
    BY <1>3, <1>6 DEF Charged
  <2>2. Charged(r) = {Path[leaf[r]][i] : i \in S}
    BY <1>6 DEF Charged
  <2> QED BY <1>1, <1>2, <1>6, <2>1, <2>2
<1>8. \A q \in Reservations \ {r} : pc'[q] = pc[q] /\ level'[q] = level[q]
                                    /\ leaf'[q] = leaf[q] /\ done'[q] = done[q]
  BY <1>3, <1>4 DEF IInv, TypeOK
<1>9. \A q \in Reservations \ {r} : Charged(q)' = Charged(q) /\ Node(q)' = Node(q)
  BY <1>8, OthersStay
<1>10. /\ Cardinality(Units(n))' = Cardinality(Units(n)) - amount[r]
       /\ Cardinality(Units(n)) >= amount[r]
       /\ \A m \in Scopes \ {n} : Units(m)' = Units(m)
       /\ \A m \in Scopes : Units(m)' \subseteq Units(m)
  <2>1. TypeOK /\ amount' = amount
    BY <1>3 DEF IInv
  <2> QED BY <1>2, <1>7, <1>9, <2>1, UnitsTaken
<1>11. used[n] = Cardinality(Units(n)) /\ used[n] \in Nat /\ used[n] >= amount[r]
  BY <1>2, <1>10 DEF IInv, Conserved, TypeOK
<1>12. used' = [used EXCEPT ![n] = used[n] - amount[r]] /\ used[n] - amount[r] \in Nat
  <2>1. used[n] - amount[r] \in Nat /\ Less(used[n], amount[r]) = used[n] - amount[r]
    BY <1>1, <1>11 DEF Less
  <2> QED BY <1>3, <2>1
<1>13. TypeOK'
  <2>1. used' \in [Scopes -> Nat]
    BY <1>12 DEF IInv, TypeOK
  <2>0. /\ level[r] + 1 \in Nat \ {0} /\ level[r] - 1 \in Nat
        /\ level \in [Reservations -> Nat \ {0}] /\ done \in [Reservations -> Nat]
    BY DEF IInv, TypeOK
  <2>2. level' \in [Reservations -> Nat \ {0}]
    <3>1. CASE level' = [level EXCEPT ![r] = 1]
      BY <2>0, <3>1
    <3>2. CASE level' = [level EXCEPT ![r] = level[r] + 1]
      BY <2>0, <3>2
    <3> QED BY <1>4, <3>1, <3>2
  <2>3. pc' \in [Reservations -> {"idle", "held"} \union Walking]
    BY <1>4 DEF IInv, TypeOK, Walking
  <2>4. done' \in [Reservations -> Nat]
    BY <1>3, <1>4, <2>0
  <2> QED BY <1>3, <2>1, <2>2, <2>3, <2>4 DEF IInv, TypeOK
<1>14. Conserved'
  <2>1. used'[n] = Cardinality(Units(n))'
    BY <1>10, <1>11, <1>12 DEF IInv, TypeOK
  <2>2. \A m \in Scopes \ {n} : used'[m] = Cardinality(Units(m)')
    BY <1>10, <1>12 DEF IInv, TypeOK, Conserved
  <2> QED BY <2>1, <2>2 DEF Conserved
<1>15. WalkInv'
  <2>1. WalkOK(r)'
    BY <1>1, <1>3, <1>4 DEF WalkOK, Last, IInv, TypeOK, WalkInv
  <2> QED BY <1>3, <1>8, <2>1, OthersOK
<1>16. Fits'
  <2>1. \A m \in Scopes : Passed(m)' \subseteq Passed(m)
    <3> SUFFICES ASSUME NEW m \in Scopes, NEW u \in Passed(m)'
                 PROVE u \in Passed(m)
      OBVIOUS
    <3>1. u \in Units(m) /\ u[1] \in Reservations
          /\ ~ (pc'[u[1]] = "over" /\ m = Node(u[1])') /\ m \in Charged(u[1])'
      BY <1>10 DEF Passed, Units
    <3>2. CASE u[1] = r
      BY <1>2, <1>3, <1>7, <3>1, <3>2 DEF Passed
    <3>3. CASE u[1] # r
      BY <1>8, <1>9, <3>1, <3>3 DEF Passed
    <3> QED BY <3>2, <3>3
  <2> QED BY <1>3, <1>13, <2>1, PassedShrinks
<1> QED BY <1>13, <1>14, <1>15, <1>16 DEF IInv

LEMMA BeginReleaseIInv ==
  ASSUME IInv, NEW r \in Reservations, BeginRelease(r)
  PROVE  IInv'
<1>1. /\ pc[r] = "held" /\ pc' = [pc EXCEPT ![r] = "release"]
      /\ UNCHANGED <<state, limit, used, leaf, amount, level, done>>
  BY DEF BeginRelease, Goto
<1>2. TypeOK'
  BY <1>1 DEF IInv, TypeOK, Walking
<1>3. level[r] = 1
  BY <1>1 DEF IInv, WalkInv
<1>4. Levels(r)' = Levels(r)
  BY <1>1, <1>3 DEF Levels, IInv, TypeOK
<1>5. Charged(r)' = Charged(r)
  BY <1>1, <1>4 DEF Charged
<1>6. \A q \in Reservations \ {r} : Charged(q)' = Charged(q) /\ Node(q)' = Node(q)
  BY <1>1, OthersStay DEF IInv, TypeOK
<1>7. WalkInv'
  <2>1. WalkOK(r)'
    BY <1>1 DEF WalkOK, IInv, TypeOK, WalkInv
  <2> QED BY <1>1, <2>1, OthersOK DEF IInv, TypeOK
<1>8. \A m \in Scopes : Units(m)' = Units(m)
  BY <1>1, <1>5, <1>6 DEF Units
<1>9. \A m \in Scopes : Passed(m)' \subseteq Passed(m)
  BY <1>1, <1>6, <1>8 DEF Passed, Units, IInv, TypeOK
<1>10. Conserved'
  BY <1>1, <1>8 DEF IInv, Conserved
<1>11. Fits'
  BY <1>1, <1>2, <1>9, PassedShrinks
<1> QED BY <1>2, <1>7, <1>10, <1>11 DEF IInv

\* Steps that move no walk and no account leave the counts alone.
LEMMA CountsStay ==
  ASSUME UNCHANGED <<used, pc, leaf, amount, level, done>>
  PROVE  /\ \A r \in Reservations : Charged(r)' = Charged(r)
         /\ \A m \in Scopes : Units(m)' = Units(m) /\ Passed(m)' = Passed(m)
<1>1. \A r \in Reservations : Charged(r)' = Charged(r)
  BY DEF Charged, Levels
<1>2. \A m \in Scopes : Units(m)' = Units(m)
  BY <1>1 DEF Units
<1>3. \A m \in Scopes : Passed(m)' = Passed(m)
  BY <1>2 DEF Passed, Node
<1> QED BY <1>1, <1>2, <1>3

LEMMA FenceIInv ==
  ASSUME IInv, NEW n \in Scopes, Fence(n)
  PROVE  IInv'
<1>1. /\ Busy = {}
      /\ state' = [s \in Scopes |-> IF n \in Chain(s) THEN "Fenced" ELSE state[s]]
      /\ UNCHANGED <<limit, used, pc, leaf, amount, level, done>>
  BY DEF Fence
<1>2. TypeOK'
  BY <1>1 DEF IInv, TypeOK
<1>3. \A r \in Reservations : pc[r] \notin {"charge", "over"}
  BY <1>1 DEF Busy, Walking
<1>4. WalkInv'
  BY <1>1, <1>3 DEF IInv, WalkInv
<1>5. Conserved' /\ Fits'
  BY <1>1, CountsStay DEF IInv, Conserved, Fits
<1> QED BY <1>2, <1>4, <1>5 DEF IInv

LEMMA SetLimitsIInv ==
  ASSUME IInv, NEW n \in Scopes, NEW l \in Ceilings, SetLimits(n, l)
  PROVE  IInv'
<1>1. /\ used[n] <= l /\ limit' = [limit EXCEPT ![n] = l]
      /\ UNCHANGED <<state, used, pc, leaf, amount, level, done>>
  BY DEF SetLimits
<1>2. TypeOK'
  BY <1>1, BoundAssumption DEF IInv, TypeOK
<1>3. \A r \in Reservations : Charged(r)' = Charged(r)
  BY <1>1, CountsStay
<1>4. WalkInv'
  BY <1>1, <1>3 DEF IInv, WalkInv
<1>5. \A m \in Scopes : Units(m)' = Units(m) /\ Passed(m)' = Passed(m)
  BY <1>1, CountsStay
<1>6. Conserved'
  BY <1>1, <1>5 DEF IInv, Conserved
<1>7. Cardinality(Passed(n)) <= l
  <2>1. Passed(n) \in SUBSET Units(n) /\ Units(n) \in SUBSET (Reservations \X (1..MaxAmount))
    BY DEF Passed, Units
  <2>2. Cardinality(Passed(n)) <= Cardinality(Units(n)) /\ Cardinality(Passed(n)) \in Nat
        /\ Cardinality(Units(n)) \in Nat
    BY <2>1, Fewer
  <2>3. Cardinality(Units(n)) = used[n]
    BY DEF IInv, Conserved
  <2>4. l \in Nat
    BY BoundAssumption
  <2> QED BY <1>1, <2>2, <2>3, <2>4
<1>8. Fits'
  BY <1>1, <1>5, <1>7 DEF IInv, Fits, TypeOK
<1> QED BY <1>2, <1>4, <1>6, <1>8 DEF IInv

\* The accounts are exact and what was admitted fits, in every reachable
\* state of every tree: IInv is inductive.
THEOREM Inductive == Spec => []IInv
<1>1. IInv /\ [Next]_vars => IInv'
  <2> SUFFICES ASSUME IInv, [Next]_vars PROVE IInv'
    OBVIOUS
  <2>1. ASSUME NEW r \in Reservations, Walk(r) PROVE IInv'
    BY <2>1, BeginIInv, RefuseIInv, ChargeIInv, OverIInv, UndoIInv,
       BeginReleaseIInv, ReleaseIInv DEF Walk
  <2>2. CASE UNCHANGED vars
    <3>1. \A r \in Reservations : Charged(r)' = Charged(r)
      BY <2>2, CountsStay DEF vars
    <3>2. \A m \in Scopes : Units(m)' = Units(m) /\ Passed(m)' = Passed(m)
      BY <2>2, CountsStay DEF vars
    <3>3. TypeOK' /\ WalkInv'
      BY <2>2, <3>1 DEF vars, IInv, TypeOK, WalkInv
    <3>4. Conserved' /\ Fits'
      BY <2>2, <3>2 DEF vars, IInv, Conserved, Fits
    <3> QED BY <3>3, <3>4 DEF IInv
  <2> QED BY <2>1, <2>2, FenceIInv, SetLimitsIInv DEF Next
<1> QED BY <1>1, InitIInv, PTL DEF Spec

-----------------------------------------------------------------------------
(* What the rest of the kernel may rely on.                                *)

\* A reservation that is held has its amount in every account of its chain,
\* and one that is idle in none.
LEMMA HeldEverywhere ==
  ASSUME IInv, NEW r \in Reservations
  PROVE  /\ pc[r] = "held" => Charged(r) = Chain(leaf[r])
         /\ pc[r] = "idle" => Charged(r) = {}
BY DEF Charged, Chain, Levels

\* Whenever no walk is under way every account is what is outstanding below
\* it and within its ceiling: no refusal, interleaved in whatever way, has
\* left a charge behind.
THEOREM AccountsSettle == Spec => []Settled
<1>1. IInv => Settled
  <2> SUFFICES ASSUME IInv, Busy = {}, NEW n \in Scopes
               PROVE  /\ used[n] <= limit[n]
                      /\ used[n] = Cardinality({u \in Reservations \X (1..MaxAmount) :
                                                  /\ pc[u[1]] = "held"
                                                  /\ n \in Chain(leaf[u[1]])
                                                  /\ u[2] <= amount[u[1]]})
    BY DEF Settled
  <2>1. \A r \in Reservations : pc[r] \in {"idle", "held"}
    BY DEF Busy, IInv, TypeOK
  <2>2. Passed(n) = Units(n)
    BY <2>1 DEF Passed, Units
  <2>3. Units(n) = {u \in Reservations \X (1..MaxAmount) :
                      /\ pc[u[1]] = "held"
                      /\ n \in Chain(leaf[u[1]])
                      /\ u[2] <= amount[u[1]]}
    BY <2>1, HeldEverywhere DEF Units
  <2>4. used[n] = Cardinality(Units(n)) /\ Cardinality(Passed(n)) <= limit[n]
    BY DEF IInv, Conserved, Fits
  <2> QED BY <2>2, <2>3, <2>4
<1> QED BY <1>1, Inductive, PTL

-----------------------------------------------------------------------------
(* The refinement.                                                         *)

\* What Quota counts as admitted in n are units that passed the check of n.
AdmittedFits ==
  \A n \in Scopes : /\ Cardinality(Ceiling!Held(n)) <= limit[n]
                    /\ Cardinality(Ceiling!Held(n)) <= used[n]

LEMMA AdmittedPassed == IInv => AdmittedFits
<1> SUFFICES ASSUME IInv, NEW n \in Scopes
             PROVE  /\ Cardinality(Ceiling!Held(n)) <= limit[n]
                    /\ Cardinality(Ceiling!Held(n)) <= used[n]
  BY DEF AdmittedFits
<1>1. \A u \in Ceiling!Held(n) : u \in Passed(n)
  <2> SUFFICES ASSUME NEW u \in Ceiling!Held(n) PROVE u \in Passed(n)
    OBVIOUS
  <2>1. /\ u \in Reservations \X (1..MaxAmount) /\ u[1] \in Reservations
        /\ pc[u[1]] = "held"
        /\ n \in Ceiling!Chain(leaf[u[1]]) /\ u[2] <= amount[u[1]]
    BY DEF Ceiling!Held, Ceiling!Free
  <2>2. leaf[u[1]] \in Scopes
    BY <2>1 DEF IInv, TypeOK
  <2>3. Ceiling!Chain(leaf[u[1]]) = Chain(leaf[u[1]])
    BY <2>2, ChainFacts DEF Ceiling!Chain, Chain
  <2> QED BY <2>1, <2>3, HeldEverywhere DEF Passed, Units
<1>2. Passed(n) \in SUBSET Units(n) /\ Units(n) \in SUBSET (Reservations \X (1..MaxAmount))
  BY DEF Passed, Units
<1>3. /\ Cardinality(Ceiling!Held(n)) <= Cardinality(Passed(n))
      /\ Cardinality(Passed(n)) <= Cardinality(Units(n))
      /\ Cardinality(Ceiling!Held(n)) \in Nat /\ Cardinality(Passed(n)) \in Nat
      /\ Cardinality(Units(n)) \in Nat
  <2>1. Ceiling!Held(n) \in SUBSET Passed(n)
    BY <1>1
  <2>2. Passed(n) \in SUBSET (Reservations \X (1..MaxAmount))
    BY <1>2
  <2> QED BY <1>2, <2>1, <2>2, Fewer
<1>4. Cardinality(Passed(n)) <= limit[n] /\ limit[n] \in Nat
      /\ used[n] = Cardinality(Units(n))
  BY DEF IInv, Fits, TypeOK, Conserved
<1> QED BY <1>1, <1>3, <1>4

\* A walk that is not yet, or no longer, held moves nothing Quota sees.
LEMMA Unseen ==
  ASSUME IInv, NEW r \in Reservations, pc[r] # "held", pc'[r] # "held",
         \A q \in Reservations \ {r} :
           pc'[q] = pc[q] /\ leaf'[q] = leaf[q] /\ amount'[q] = amount[q],
         UNCHANGED <<state, limit>>
  PROVE  UNCHANGED Ceiling!qvars
BY DEF Ceiling!qvars

\* Quota counts with its own instance of FiniteSets.
LEMMA SameSize == \A S : Ceiling!Cardinality(S) = Cardinality(S)
BY DEF Ceiling!Cardinality, Cardinality

\* The step that completes a walk is the admission.
LEMMA ChargeRefines ==
  ASSUME IInv, IInv', NEW r \in Reservations, Charge(r)
  PROVE  [Ceiling!QNext]_(Ceiling!qvars)
<1>1. /\ pc[r] = "charge" /\ state[Node(r)] = "Open"
      /\ UNCHANGED <<state, limit, leaf, amount, done>>
      /\ \E p : pc' = [pc EXCEPT ![r] = p]
  BY DEF Charge, Goto
<1>2. \A q \in Reservations \ {r} :
        pc'[q] = pc[q] /\ leaf'[q] = leaf[q] /\ amount'[q] = amount[q]
  BY <1>1 DEF IInv, TypeOK
<1>3. CASE pc'[r] # "held"
  BY <1>1, <1>2, <1>3, Unseen
<1>4. CASE pc'[r] = "held"
  <2>1. Last(r) /\ leaf[r] \in Scopes /\ amount[r] \in 1..MaxAmount
    BY <1>1, <1>4 DEF Charge, Goto, IInv, TypeOK
  <2>2. PICK s \in Scopes, a \in 1..MaxAmount : s = leaf[r] /\ a = amount[r]
    BY <2>1
  <2>3. Len(Path[s]) \in Nat \ {0} /\ level[r] = Len(Path[s])
        /\ DOMAIN Path[s] = 1..Len(Path[s])
        /\ \A i \in 1..Len(Path[s]) : Path[s][i] \in Scopes
    BY <2>1, <2>2, ChainFacts DEF Last
  <2>4. Ceiling!Chain(s) \subseteq {n \in Scopes : state[n] = "Open"}
    <3>1. \A i \in 1..(level[r] - 1) : state[Path[s][i]] = "Open"
      BY <1>1, <2>2 DEF IInv, WalkInv, Charged, Levels
    <3>2. \A i \in 1..Len(Path[s]) : state[Path[s][i]] = "Open"
      <4> SUFFICES ASSUME NEW i \in 1..Len(Path[s]) PROVE state[Path[s][i]] = "Open"
        OBVIOUS
      <4>1. CASE i = level[r]
        BY <1>1, <2>2, <4>1 DEF Node
      <4>2. CASE i # level[r]
        BY <2>3, <3>1, <4>2
      <4> QED BY <4>1, <4>2
    <3> QED BY <2>3, <3>2 DEF Ceiling!Chain
  <2>5. [q \in Reservations |-> IF pc[q] = "held" THEN <<leaf[q], amount[q]>> ELSE <<>>]'
          = [[q \in Reservations |-> IF pc[q] = "held" THEN <<leaf[q], amount[q]>> ELSE <<>>]
               EXCEPT ![r] = <<s, a>>]
    BY <1>1, <1>2, <1>4, <2>2
  <2>6. \A n \in Ceiling!Chain(s) : Cardinality(Ceiling!Held(n)') <= limit[n]
    <3>1. AdmittedFits'
      BY AdmittedPassed, PTL
    <3> QED BY <1>1, <2>4, <3>1 DEF AdmittedFits
  <2>7. Ceiling!Admit(r, s, a)
    BY <1>1, <2>4, <2>5, <2>6, SameSize DEF Ceiling!Admit, Ceiling!Free
  <2> QED BY <2>7 DEF Ceiling!QNext
<1> QED BY <1>3, <1>4

\* Closing a scope closes what is below it, and nothing else.
LEMMA FenceRefines ==
  ASSUME IInv, NEW n \in Scopes, Fence(n)
  PROVE  Ceiling!Close(n)
<1>1. \A s \in Scopes : Ceiling!Chain(s) = Chain(s)
  BY ChainFacts DEF Ceiling!Chain, Chain
<1>2. {s \in Scopes : state[s] = "Open"}'
        = {s \in {t \in Scopes : state[t] = "Open"} : n \notin Ceiling!Chain(s)}
  BY <1>1 DEF Fence, IInv, TypeOK
<1> QED BY <1>2 DEF Ceiling!Close, Fence

LEMMA SetLimitsRefines ==
  ASSUME IInv, NEW n \in Scopes, NEW l \in Ceilings, SetLimits(n, l)
  PROVE  Ceiling!Retune(n, l)
<1>1. Cardinality(Ceiling!Held(n)) <= used[n] /\ used[n] \in Nat /\ l \in Nat
  BY AdmittedPassed, BoundAssumption DEF AdmittedFits, IInv, TypeOK
<1>2. Cardinality(Ceiling!Held(n)) \in Nat
  <2>1. Ceiling!Held(n) \in SUBSET (Reservations \X (1..MaxAmount))
    BY DEF Ceiling!Held
  <2> QED BY <2>1, UnitsFinite
<1>3. Cardinality(Ceiling!Held(n)) <= l
  BY <1>1, <1>2 DEF SetLimits
<1> QED BY <1>3, SameSize DEF Ceiling!Retune, SetLimits

\* Giving a reservation back frees it at once for Quota; the accounts follow.
LEMMA BeginReleaseRefines ==
  ASSUME IInv, NEW r \in Reservations, BeginRelease(r)
  PROVE  Ceiling!GiveBack(r)
<1>1. /\ pc[r] = "held" /\ pc' = [pc EXCEPT ![r] = "release"]
      /\ UNCHANGED <<state, limit, used, leaf, amount, level, done>>
  BY DEF BeginRelease, Goto
<1>2. [q \in Reservations |-> IF pc[q] = "held" THEN <<leaf[q], amount[q]>> ELSE <<>>]'
        = [[q \in Reservations |-> IF pc[q] = "held" THEN <<leaf[q], amount[q]>> ELSE <<>>]
             EXCEPT ![r] = <<>>]
  BY <1>1 DEF IInv, TypeOK
<1>3. <<leaf[r], amount[r]>> # <<>>
  OBVIOUS
<1> QED BY <1>1, <1>2, <1>3 DEF Ceiling!GiveBack, Ceiling!Free

\* The walks implement all-or-nothing admission under every ceiling of the
\* chain: whatever other walks are half way up, a reservation takes effect in
\* one step that finds room for it everywhere.
THEOREM Refinement == Spec => Implements
<1>1. Init => Ceiling!QInit
  BY BoundAssumption DEF Init, Ceiling!QInit, Ceiling!Free
<1>2. IInv /\ IInv' /\ [Next]_vars => [Ceiling!QNext]_(Ceiling!qvars)
  <2> SUFFICES ASSUME IInv, IInv', [Next]_vars
               PROVE [Ceiling!QNext]_(Ceiling!qvars)
    OBVIOUS
  <2>1. ASSUME NEW r \in Reservations,
               (\E s \in Scopes, a \in 1..MaxAmount : Begin(r, s, a))
                 \/ Refuse(r) \/ Over(r) \/ Undo(r) \/ Release(r)
        PROVE UNCHANGED Ceiling!qvars
    <3>1. /\ pc[r] # "held" /\ pc'[r] # "held"
          /\ \A q \in Reservations \ {r} :
               pc'[q] = pc[q] /\ leaf'[q] = leaf[q] /\ amount'[q] = amount[q]
          /\ UNCHANGED <<state, limit>>
      BY <2>1 DEF Begin, Refuse, Over, Undo, Release, Unwind, Goto, IInv, TypeOK
    <3> QED BY <3>1, Unseen
  <2>2. ASSUME NEW r \in Reservations, BeginRelease(r) PROVE Ceiling!QNext
    BY <2>2, BeginReleaseRefines DEF Ceiling!QNext
  <2>3. CASE UNCHANGED vars
    BY <2>3 DEF vars, Ceiling!qvars
  <2>4. ASSUME NEW n \in Scopes, Fence(n) PROVE Ceiling!QNext
    BY <2>4, FenceRefines DEF Ceiling!QNext
  <2>5. ASSUME NEW n \in Scopes, NEW l \in Ceilings, SetLimits(n, l)
        PROVE Ceiling!QNext
    BY <2>5, SetLimitsRefines DEF Ceiling!QNext
  <2> QED BY <2>1, <2>2, <2>3, <2>4, <2>5, ChargeRefines DEF Next, Walk
<1> QED BY <1>1, <1>2, Inductive, PTL DEF Spec, Implements, Ceiling!QSpec

-----------------------------------------------------------------------------
(***************************************************************************)
(* Events.  A raise looks for sleepers only when the count of waiters is not *)
(* zero, and the tick looks at the timers only when the compared deadline has *)
(* passed: neither shortcut may skip anyone.                               *)
(***************************************************************************)

\* A thread inside wait.
Waits == [at : {"asleep", "woken", "refused", "again"}, signal : Signals,
          mask : SUBSET Bits, generation : Nat]

\* Whoever sleeps, or is on the way out, is in the count of waiters of its signal, so that a
\* raise does look for sleepers; the dead that were never taken off only add to it.
SignalIInv ==
    /\ signals \in [Signals -> [used : BOOLEAN, generation : Nat, bits : SUBSET Bits, waiters : Nat]]
    /\ thread \in [Threads -> {Out} \cup Waits]
    /\ \A s \in Signals : signals[s].used => Cardinality(Behind(s)) <= signals[s].waiters
    /\ SignalHeard

\* A timer in use.
TimerRecord == [used : {TRUE}, armed : BOOLEAN, deadline : Nat, bits : SUBSET Bits,
                signal : Signals, generation : Nat]

\* The deadline the tick compares is a number, and not later than an armed timer's.
TimerIInv ==
    /\ timers \in [Timers -> {FreeTimer} \cup TimerRecord]
    /\ NEXT_TIMER \in Nat
    /\ TimerNoticed

\* A non-empty set of numbers has a least member.
LEMMA LeastExists ==
  ASSUME NEW S \in SUBSET Nat, S # {}
  PROVE  \E d \in S : \A e \in S : d <= e
<1>1. \E d \in S : \A e \in S : ~(<<e, d>> \in OpToRel(<, Nat))
  BY NatLessThanWellFounded, WFMin, Zenon
<1>2. PICK d \in S : \A e \in S : ~(<<e, d>> \in OpToRel(<, Nat))
  BY <1>1, Zenon
<1>3. ASSUME NEW e \in S, e < d PROVE FALSE
  <2>1. <<e, d>> \in Nat \X Nat /\ <<e, d>>[1] < <<e, d>>[2]
    BY <1>3
  <2>2. <<e, d>> \in OpToRel(<, Nat)
    BY <2>1, Zenon DEF OpToRel
  <2> QED
    BY <1>2, <2>2, Zenon
<1> QED
  BY <1>3

\* recompute_next finds the earliest armed deadline (events.rs).
LEMMA RecomputeIsLeast ==
  ASSUME NEW ts, \A i \in Timers : ts[i].used /\ ts[i].armed => ts[i].deadline \in Nat,
         MaxTime \in Nat
  PROVE  /\ recompute_next(ts) \in Nat
         /\ \A i \in Timers : ts[i].used /\ ts[i].armed => recompute_next(ts) <= ts[i].deadline
<1>1. Armed(ts) \in SUBSET Nat
  BY DEF Armed
<1>2. \A i \in Timers : ts[i].used /\ ts[i].armed => ts[i].deadline \in Armed(ts)
  BY DEF Armed
<1>3. CASE Armed(ts) = {}
  BY <1>2, <1>3 DEF recompute_next, Never
<1>4. CASE Armed(ts) # {}
  <2>1. \E d \in Armed(ts) : \A e \in Armed(ts) : d <= e
    BY <1>1, <1>4, LeastExists
  <2>2. recompute_next(ts) \in Armed(ts) /\ \A e \in Armed(ts) : recompute_next(ts) <= e
    BY <1>4, <2>1 DEF recompute_next
  <2> QED
    BY <1>1, <1>2, <2>2
<1> QED
  BY <1>3, <1>4

\* Every operation leaves the compared deadline no later than the armed ones.
LEMMA TimersKeep ==
  ASSUME MaxTime \in Nat, SignalIInv, TimerIInv, [EventsNext]_events_vars
  PROVE  TimerIInv'
<1> DEFINE Table(ts) == ts \in [Timers -> {FreeTimer} \cup TimerRecord]
<1>0. ASSUME NEW ts, Table(ts), NEW i \in Timers, ts[i].used PROVE ts[i] \in TimerRecord
  BY <1>0 DEF FreeTimer
<1>1. ASSUME NEW i \in Timers, retireTimer(i) PROVE TimerIInv'
  BY <1>1 DEF retireTimer, FreeTimer, TimerIInv, TimerNoticed
<1>2. ASSUME NEW i \in Timers, NEW s \in Signals, NEW b \in Bits, create_timer(i, s, b)
      PROVE  TimerIInv'
  BY <1>2 DEF create_timer, SignalIInv, TimerIInv, TimerNoticed, TimerRecord
<1>3. ASSUME NEW i \in Timers, NEW d \in 1 .. MaxTime, arm(i, d) PROVE TimerIInv'
  <2>1. timers[i] \in TimerRecord /\ Table(timers)
    BY <1>0, <1>3 DEF arm, TimerIInv
  <2>0. timers' = [timers EXCEPT ![i] = [timers[i] EXCEPT !.deadline = d, !.armed = TRUE]]
    BY <1>3, <2>1 DEF arm, TimerRecord
  <2>2. NEXT_TIMER' = Soonest(d) /\ d \in Nat /\ NEXT_TIMER \in Nat
    BY <1>3 DEF arm, TimerIInv
  <2>3. [timers[i] EXCEPT !.deadline = d, !.armed = TRUE] \in TimerRecord
    BY <2>1, <2>2 DEF TimerRecord
  <2>4. Table(timers') /\ \A j \in Timers : j # i => timers'[j] = timers[j]
    BY <2>0, <2>1, <2>3
  <2>5. timers'[i].deadline = d
    BY <2>0, <2>1 DEF TimerRecord
  <2>6. Soonest(d) \in Nat /\ Soonest(d) <= d /\ Soonest(d) <= NEXT_TIMER
    BY <2>2 DEF Soonest
  <2>7. ASSUME NEW j \in Timers, timers'[j].used, timers'[j].armed
        PROVE  NEXT_TIMER' <= timers'[j].deadline
    <3>1. CASE j = i
      BY <2>2, <2>5, <2>6, <3>1
    <3>2. CASE j # i
      <4>1. timers[j] \in TimerRecord /\ NEXT_TIMER <= timers[j].deadline /\ timers'[j] = timers[j]
        BY <1>0, <2>1, <2>4, <2>7, <3>2 DEF TimerIInv, TimerNoticed
      <4>2. timers[j].deadline \in Nat
        BY <4>1 DEF TimerRecord
      <4> QED
        BY <2>2, <2>6, <4>1, <4>2
    <3> QED
      BY <3>1, <3>2
  <2> QED
    BY <2>2, <2>4, <2>6, <2>7 DEF TimerIInv, TimerNoticed
<1>4. ASSUME Table(timers'), NEXT_TIMER' = recompute_next(timers') PROVE TimerIInv'
  <2>1. \A j \in Timers : timers'[j].used /\ timers'[j].armed => timers'[j].deadline \in Nat
    <3> SUFFICES ASSUME NEW j \in Timers, timers'[j].used PROVE timers'[j].deadline \in Nat
      OBVIOUS
    <3>1. timers'[j] \in TimerRecord
      BY <1>4 DEF FreeTimer
    <3> QED
      BY <3>1 DEF TimerRecord
  <2> QED
    BY <1>4, <2>1, RecomputeIsLeast DEF TimerIInv, TimerNoticed
<1>5. ASSUME NEW i \in Timers, cancel(i) PROVE TimerIInv'
  <2>1. timers[i] \in TimerRecord /\ Table(timers)
    BY <1>0, <1>5 DEF cancel, TimerIInv
  <2>2. timers' = [timers EXCEPT ![i] = [timers[i] EXCEPT !.armed = FALSE, !.deadline = 0]]
    BY <1>5, <2>1 DEF cancel, TimerRecord
  <2>3. [timers[i] EXCEPT !.armed = FALSE, !.deadline = 0] \in TimerRecord
    BY <2>1 DEF TimerRecord
  <2>4. Table(timers')
    BY <2>1, <2>2, <2>3
  <2> QED
    BY <1>4, <1>5, <2>4 DEF cancel
<1>7. CASE expire
  <2>1. ASSUME NEW j \in Timers PROVE timers'[j] \in {FreeTimer} \cup TimerRecord
    <3>1. CASE j \in Fires
      <4>1. timers[j] \in TimerRecord /\ timers'[j] = [timers[j] EXCEPT !.armed = FALSE]
        BY <1>0, <1>7, <3>1 DEF expire, Fires, TimerIInv
      <4> QED
        BY <4>1 DEF TimerRecord
    <3>2. CASE j \notin Fires
      BY <1>7, <3>2 DEF expire, TimerIInv
    <3> QED
      BY <3>1, <3>2
  <2>2. Table(timers')
    BY <1>7, <2>1 DEF expire
  <2> QED
    BY <1>4, <1>7, <2>2 DEF expire
<1>6. CASE UNCHANGED <<timers, NEXT_TIMER>>
  BY <1>6 DEF TimerIInv, TimerNoticed
<1> QED
  BY <1>1, <1>2, <1>3, <1>5, <1>6, <1>7
  DEF EventsNext, events_vars, create_signal, retire, raise, wait, expire_wait, waitReturns, waitFails, dies, Tick

\* The threads in the count of a signal are finitely many.
LEMMA BehindFinite ==
  ASSUME IsFiniteSet(Threads), NEW s
  PROVE  /\ IsFiniteSet(Behind(s)) /\ Cardinality(Behind(s)) \in Nat
         /\ \A t \in Behind(s) : Cardinality(Behind(s)) > 0
<1>1. Behind(s) \subseteq Threads
  BY DEF Behind
<1>2. Cardinality(Behind(s)) = 0 => Behind(s) = {}
  BY <1>1, FS_Subset, FS_EmptySet
<1> QED
  BY <1>1, <1>2, FS_Subset, FS_CardinalityType

\* raise_bits, on one signal or at the expiry of several timers, wakes every sleeper that
\* waits for a raised bit: the count that lets it skip the search is not zero.
LEMMA RaiseKeeps ==
  ASSUME IsFiniteSet(Threads), SignalIInv, NEW b \in [Signals -> SUBSET Bits],
         signals' = Raised(b), thread' = Woken(b)
  PROVE  SignalIInv'
<1>1. /\ signals' \in [Signals -> [used : BOOLEAN, generation : Nat, bits : SUBSET Bits, waiters : Nat]]
      /\ \A s \in Signals : /\ signals'[s].used = signals[s].used
                            /\ signals'[s].waiters = signals[s].waiters
                            /\ signals'[s].generation = signals[s].generation
                            /\ signals'[s].used => signals'[s].bits = signals[s].bits \cup b[s]
  BY DEF SignalIInv, Raised
<1>2. ASSUME NEW t \in Threads
      PROVE  /\ thread'[t] \in {Out} \cup Waits
             /\ thread'[t] = thread[t] \/ (thread[t].at = "asleep" /\ thread'[t].at = "woken")
             /\ thread[t].at # "out" => thread'[t].signal = thread[t].signal
             /\ thread[t].at = "out" <=> thread'[t].at = "out"
  BY DEF SignalIInv, Woken, Hears, Waits, Out
<1>3. ASSUME NEW s \in Signals PROVE Behind(s)' = Behind(s)
  BY <1>2 DEF Behind
<1>4. SignalHeard'
  <2> SUFFICES ASSUME NEW t \in Threads, thread'[t].at = "asleep",
                      signals'[thread'[t].signal].used,
                      signals'[thread'[t].signal].generation = thread'[t].generation
               PROVE  signals'[thread'[t].signal].bits \cap thread'[t].mask = {}
    BY DEF SignalHeard
  <2> DEFINE s == thread[t].signal
  <2>1. thread'[t] = thread[t] /\ thread[t].at = "asleep"
    BY <1>2
  <2>2. s \in Signals /\ t \in Behind(s)
    BY <2>1 DEF SignalIInv, Behind, Waits, Out
  <2>3. signals[s].used /\ signals[s].generation = thread[t].generation
    BY <1>1, <2>1, <2>2
  <2>4. signals[s].bits \cap thread[t].mask = {}
    BY <2>1, <2>3 DEF SignalIInv, SignalHeard
  <2>5. signals[s].waiters > 0
    <3>1. Cardinality(Behind(s)) > 0 /\ Cardinality(Behind(s)) \in Nat
      BY <2>2, BehindFinite
    <3>2. Cardinality(Behind(s)) <= signals[s].waiters /\ signals[s].waiters \in Nat
      BY <2>2, <2>3 DEF SignalIInv
    <3> HIDE DEF s
    <3> QED
      BY <3>1, <3>2
  <2>6. b[s] \cap thread[t].mask = {}
    <3>1. SUFFICES ASSUME b[s] \cap thread[t].mask # {} PROVE FALSE
      OBVIOUS
    <3>2. Hears(t, s, b[s]) /\ b[s] # {}
      BY <2>1, <2>3, <3>1 DEF Hears
    <3>3. thread'[t] = [thread[t] EXCEPT !.at = "woken"]
      BY <2>2, <2>3, <2>5, <3>2 DEF Woken
    <3> QED
      BY <2>1, <2>2, <3>3 DEF SignalIInv, Waits, Out
  <2> QED
    BY <1>1, <2>1, <2>2, <2>3, <2>4, <2>6
<1> QED
  BY <1>1, <1>2, <1>3, <1>4 DEF SignalIInv, Woken

\* Every operation keeps the counts, if no slot is reused under an old waiter.
LEMMA SignalsKeep ==
  ASSUME IsFiniteSet(Threads), ~Recycled, SignalIInv, TimerIInv, [EventsNext]_events_vars
  PROVE  SignalIInv'
<1> DEFINE Table(gs) == gs \in [Signals -> [used : BOOLEAN, generation : Nat, bits : SUBSET Bits,
                                            waiters : Nat]]
<1>1. Table(signals) /\ thread \in [Threads -> {Out} \cup Waits]
  BY DEF SignalIInv
<1>2. ASSUME NEW t \in Threads, thread[t].at # "out" PROVE thread[t] \in Waits
  BY <1>1, <1>2 DEF Out
<1>3. ASSUME NEW s \in Signals, create_signal(s) PROVE SignalIInv'
  <2>1. Table(signals') /\ UNCHANGED thread /\ Behind(s) = {}
    BY <1>1, <1>3 DEF create_signal
  <2>2. \A x \in Signals : Behind(x)' = Behind(x)
    BY <2>1 DEF Behind
  <2>3. Cardinality({}) = 0 /\ signals'[s].waiters = 0 /\ \A x \in Signals : x # s => signals'[x] = signals[x]
    BY <1>1, <1>3, FS_EmptySet DEF create_signal
  <2>4. SignalHeard'
    <3> SUFFICES ASSUME NEW t \in Threads, thread[t].at = "asleep",
                        signals'[thread[t].signal].used,
                        signals'[thread[t].signal].generation = thread[t].generation
                 PROVE  signals'[thread[t].signal].bits \cap thread[t].mask = {}
      BY <2>1 DEF SignalHeard
    <3>1. thread[t].signal \in Signals /\ thread[t].signal # s
      BY <1>2, <2>1 DEF Behind, Waits
    <3> QED
      BY <2>3, <3>1 DEF SignalIInv, SignalHeard
  <2>5. \A x \in Signals : signals'[x].used => Cardinality(Behind(x)') <= signals'[x].waiters
    <3> SUFFICES ASSUME NEW x \in Signals, signals'[x].used
                 PROVE  Cardinality(Behind(x)') <= signals'[x].waiters
      OBVIOUS
    <3>1. CASE x = s
      <4>1. Behind(x)' = {} /\ signals'[x].waiters = 0
        BY <2>1, <2>2, <2>3, <3>1
      <4> QED
        BY <2>3, <4>1
    <3>2. CASE x # s
      BY <2>2, <2>3, <3>2 DEF SignalIInv
    <3> QED
      BY <3>1, <3>2
  <2> QED
    BY <1>1, <2>1, <2>4, <2>5 DEF SignalIInv
<1>4. ASSUME NEW s \in Signals, retire(s) PROVE SignalIInv'
  <2>1. Table(signals') /\ UNCHANGED thread
    BY <1>1, <1>4 DEF retire
  <2>2. \A x \in Signals : Behind(x)' = Behind(x)
    BY <2>1 DEF Behind
  <2>3. ~signals'[s].used /\ \A x \in Signals : x # s => signals'[x] = signals[x]
    BY <1>1, <1>4 DEF retire
  <2>4. SignalHeard'
    <3> SUFFICES ASSUME NEW t \in Threads, thread[t].at = "asleep",
                        signals'[thread[t].signal].used,
                        signals'[thread[t].signal].generation = thread[t].generation
                 PROVE  signals'[thread[t].signal].bits \cap thread[t].mask = {}
      BY <2>1 DEF SignalHeard
    <3>1. thread[t].signal \in Signals /\ thread[t].signal # s
      BY <1>2, <2>3 DEF Waits
    <3> QED
      BY <2>3, <3>1 DEF SignalIInv, SignalHeard
  <2> QED
    BY <1>1, <2>1, <2>2, <2>3, <2>4 DEF SignalIInv
<1>5. ASSUME NEW s \in Signals, NEW b \in Bits, raise(s, b) PROVE SignalIInv'
  <2>1. [x \in Signals |-> IF x = s THEN {b} ELSE {}] \in [Signals -> SUBSET Bits]
    OBVIOUS
  <2> QED
    BY <1>5, <2>1, RaiseKeeps DEF raise
<1>6. CASE expire
  <2> DEFINE bs == [s \in Signals |-> UNION {timers[i].bits : i \in
                      {j \in Fires : timers[j].signal = s
                                     /\ timers[j].generation = signals[s].generation}}]
  <2>1. ASSUME NEW i \in Fires PROVE timers[i].bits \in SUBSET Bits
    <3>1. timers[i] \in TimerRecord
      BY <2>1 DEF Fires, TimerIInv, FreeTimer
    <3> QED
      BY <3>1 DEF TimerRecord
  <2>2. bs \in [Signals -> SUBSET Bits]
    BY <2>1
  <2>3. signals' = Raised(bs) /\ thread' = Woken(bs)
    BY <1>6 DEF expire
  <2> HIDE DEF bs
  <2> QED
    BY <2>2, <2>3, RaiseKeeps
<1>7. ASSUME NEW t \in Threads, NEW s \in Signals, NEW m \in SUBSET Bits \ {{}}, wait(t, s, m)
      PROVE  SignalIInv'
  <2>0. signals[s].used /\ thread[t].at \in {"out", "again"}
    BY <1>7 DEF wait
  <2>1. CASE signals[s].bits \cap m # {}
    <3>1. /\ signals' = [signals EXCEPT ![s] = [signals[s] EXCEPT !.bits = @ \ m]]
          /\ thread' = [thread EXCEPT ![t] = Out]
      BY <1>7, <2>1 DEF wait
    <3>2. /\ Table(signals')
          /\ \A x \in Signals : /\ signals'[x].used = signals[x].used
                                /\ signals'[x].waiters = signals[x].waiters
                                /\ signals'[x].generation = signals[x].generation
                                /\ signals'[x].bits \subseteq signals[x].bits
      BY <1>1, <3>1
    <3>3. /\ thread' \in [Threads -> {Out} \cup Waits] /\ thread'[t].at = "out"
          /\ \A u \in Threads : u # t => thread'[u] = thread[u]
      BY <1>1, <3>1 DEF Out
    <3>4. \A x \in Signals : Behind(x)' = Behind(x)
      BY <2>0, <3>3 DEF Behind
    <3>5. SignalHeard'
      <4> SUFFICES ASSUME NEW u \in Threads, thread'[u].at = "asleep",
                          signals'[thread'[u].signal].used,
                          signals'[thread'[u].signal].generation = thread'[u].generation
                   PROVE  signals'[thread'[u].signal].bits \cap thread'[u].mask = {}
        BY DEF SignalHeard
      <4>1. thread'[u] = thread[u] /\ thread[u].signal \in Signals
        BY <1>2, <3>3 DEF Waits
      <4>2. signals[thread[u].signal].bits \cap thread[u].mask = {}
        BY <3>2, <4>1 DEF SignalIInv, SignalHeard
      <4> QED
        BY <3>2, <4>1, <4>2
    <3> QED
      BY <3>2, <3>3, <3>4, <3>5 DEF SignalIInv
  <2>2. CASE signals[s].bits \cap m = {}
    <3> DEFINE w == [at |-> "asleep", signal |-> s, mask |-> m, generation |-> signals[s].generation]
    <3>1. /\ signals' = [signals EXCEPT ![s] = [signals[s] EXCEPT !.waiters = @ + 1]]
          /\ thread' = [thread EXCEPT ![t] = w]
      BY <1>7, <2>2 DEF wait
    <3>2. /\ Table(signals')
          /\ \A x \in Signals : /\ signals'[x].used = signals[x].used
                                /\ signals'[x].generation = signals[x].generation
                                /\ signals'[x].bits = signals[x].bits
                                /\ x # s => signals'[x] = signals[x]
          /\ signals'[s].waiters = signals[s].waiters + 1
      BY <1>1, <3>1
    <3>3. /\ thread' \in [Threads -> {Out} \cup Waits] /\ thread'[t] = w
          /\ \A u \in Threads : u # t => thread'[u] = thread[u]
      BY <1>1, <3>1 DEF Waits
    <3>4. /\ \A x \in Signals \ {s} : Behind(x)' = Behind(x)
          /\ Behind(s)' = Behind(s) \cup {t} /\ t \notin Behind(s)
      <4>1. w.at = "asleep" /\ w.signal = s OBVIOUS
      <4>2. thread'[t].at = "asleep" /\ thread'[t].signal = s BY <3>3, <4>1, Zenon
      <4>3. \A x : t \notin Behind(x) BY <2>0 DEF Behind
      <4>4. ASSUME NEW x \in Signals, x # s PROVE Behind(x)' = Behind(x)
        <5>1. \A u \in Threads : u \in Behind(x)' <=> u \in Behind(x)
          BY <3>3, <4>2, <4>3, <4>4, Zenon DEF Behind
        <5> QED BY <5>1, Zenon DEF Behind
      <4>5. Behind(s)' = Behind(s) \cup {t}
        <5>1. \A u \in Threads : u \in Behind(s)' <=> u \in Behind(s) \/ u = t
          BY <3>3, <4>2, Zenon DEF Behind
        <5> QED BY <5>1, Zenon DEF Behind
      <4> QED BY <4>3, <4>4, <4>5, Zenon
    <3>5. Cardinality(Behind(s)') = Cardinality(Behind(s)) + 1
      BY <3>4, BehindFinite, FS_AddElement
    <3>6. \A x \in Signals : signals'[x].used => Cardinality(Behind(x)') <= signals'[x].waiters
      <4>1. signals[s].waiters \in Nat /\ Cardinality(Behind(s)) \in Nat
            /\ Cardinality(Behind(s)) <= signals[s].waiters
        BY <1>1, <2>0, BehindFinite DEF SignalIInv
      <4>2. Cardinality(Behind(s)') <= signals'[s].waiters
        BY <3>2, <3>5, <4>1
      <4> QED
        BY <3>2, <3>4, <4>2 DEF SignalIInv
    <3>7. SignalHeard'
      <4> SUFFICES ASSUME NEW u \in Threads, thread'[u].at = "asleep",
                          signals'[thread'[u].signal].used,
                          signals'[thread'[u].signal].generation = thread'[u].generation
                   PROVE  signals'[thread'[u].signal].bits \cap thread'[u].mask = {}
        BY DEF SignalHeard
      <4>1. CASE u = t
        BY <2>2, <3>2, <3>3, <4>1
      <4>2. CASE u # t
        <5>1. thread'[u] = thread[u] /\ thread[u].signal \in Signals
          BY <1>2, <3>3, <4>2 DEF Waits
        <5>2. /\ thread[u].at = "asleep"
              /\ signals[thread[u].signal].used
              /\ signals[thread[u].signal].generation = thread[u].generation
              /\ signals'[thread'[u].signal].bits = signals[thread[u].signal].bits
          BY <3>2, <5>1, Zenon
        <5>3. signals[thread[u].signal].bits \cap thread[u].mask = {}
          BY <5>2 DEF SignalIInv, SignalHeard
        <5> QED
          BY <5>1, <5>2, <5>3, Zenon
      <4> QED
        BY <4>1, <4>2
    <3> QED
      BY <3>2, <3>3, <3>6, <3>7 DEF SignalIInv
  <2> QED
    BY <2>1, <2>2
<1>8. ASSUME NEW t \in Threads, expire_wait(t) PROVE SignalIInv'
  <2>1. thread[t] \in Waits /\ thread[t].at = "asleep" /\ UNCHANGED signals
        /\ thread' = [thread EXCEPT ![t] = [thread[t] EXCEPT !.at = "refused"]]
    BY <1>2, <1>8 DEF expire_wait
  <2>2. /\ thread' \in [Threads -> {Out} \cup Waits] /\ thread'[t].at = "refused"
        /\ thread'[t].signal = thread[t].signal
        /\ \A u \in Threads : u # t => thread'[u] = thread[u]
    BY <1>1, <2>1 DEF Waits
  <2>3. \A x \in Signals : Behind(x)' = Behind(x)
    BY <2>1, <2>2 DEF Behind
  <2>4. SignalHeard'
    BY <2>1, <2>2 DEF SignalIInv, SignalHeard
  <2> QED
    BY <2>1, <2>2, <2>3, <2>4 DEF SignalIInv
<1>9. ASSUME NEW t \in Threads, waitReturns(t) PROVE SignalIInv'
  <2>0. PICK s \in Signals : s = thread[t].signal
    BY <1>2, <1>9 DEF waitReturns, Waits
  <2>1. thread[t] \in Waits /\ thread[t].at \in {"woken", "refused"}
    BY <1>2, <1>9 DEF waitReturns
  <2>2. /\ thread' \in [Threads -> {Out} \cup Waits] /\ thread'[t].at \in {"out", "again"}
        /\ \A u \in Threads : u # t => thread'[u] = thread[u]
    BY <1>1, <1>9, <2>1 DEF waitReturns, Waits, Out
  <2>3. /\ Table(signals')
        /\ \A x \in Signals : /\ signals'[x].used = signals[x].used
                              /\ signals'[x].generation = signals[x].generation
                              /\ signals'[x].bits = signals[x].bits
                              /\ x # s => signals'[x] = signals[x]
        /\ signals[s].used => signals'[s].waiters = Minus(signals[s].waiters)
    <3>1. signals' = IF signals[s].used
                     THEN [signals EXCEPT ![s].waiters = Minus(signals[s].waiters)] ELSE signals
      BY <1>9, <2>0 DEF waitReturns
    <3>2. \A n \in Nat : Minus(n) \in Nat
      BY DEF Minus
    <3> QED
      BY <1>1, <2>0, <3>1, <3>2
  <2>4. /\ \A x \in Signals \ {s} : Behind(x)' = Behind(x)
        /\ Behind(s)' = Behind(s) \ {t} /\ t \in Behind(s)
    BY <2>0, <2>1, <2>2 DEF Behind
  <2>5. Cardinality(Behind(s)') = Cardinality(Behind(s)) - 1
    BY <2>4, BehindFinite, FS_RemoveElement
  <2>6. \A x \in Signals : signals'[x].used => Cardinality(Behind(x)') <= signals'[x].waiters
    <3>1. signals[s].waiters \in Nat /\ Cardinality(Behind(s)) \in Nat
          /\ (signals[s].used => Cardinality(Behind(s)) <= signals[s].waiters)
      BY <1>1, BehindFinite DEF SignalIInv
    <3>2. signals'[s].used => Cardinality(Behind(s)') <= signals'[s].waiters
      BY <2>3, <2>5, <3>1 DEF Minus
    <3> QED
      BY <2>3, <2>4, <3>2 DEF SignalIInv
  <2>7. SignalHeard'
    <3> SUFFICES ASSUME NEW u \in Threads, thread'[u].at = "asleep",
                        signals'[thread'[u].signal].used,
                        signals'[thread'[u].signal].generation = thread'[u].generation
                 PROVE  signals'[thread'[u].signal].bits \cap thread'[u].mask = {}
      BY DEF SignalHeard
    <3>1. thread'[u] = thread[u] /\ thread[u].signal \in Signals
      BY <1>2, <2>2 DEF Waits
    <3> QED
      BY <2>3, <3>1 DEF SignalIInv, SignalHeard
  <2> QED
    BY <2>2, <2>3, <2>6, <2>7 DEF SignalIInv
<1>10. ASSUME NEW t \in Threads, waitFails(t) \/ dies(t) PROVE SignalIInv'
  <2>1. UNCHANGED signals /\ thread' = [thread EXCEPT ![t] = Out]
    BY <1>10 DEF waitFails, dies
  <2>2. /\ thread' \in [Threads -> {Out} \cup Waits] /\ thread'[t].at = "out"
        /\ \A u \in Threads : u # t => thread'[u] = thread[u]
    BY <1>1, <2>1 DEF Out
  <2>3. ASSUME NEW x \in Signals, signals[x].used
        PROVE  Cardinality(Behind(x)') <= signals[x].waiters
    <3>1. Behind(x)' \subseteq Behind(x)
      BY <2>2 DEF Behind
    <3>2. Cardinality(Behind(x)') <= Cardinality(Behind(x)) /\ Cardinality(Behind(x)') \in Nat
      BY <3>1, BehindFinite, FS_Subset, FS_CardinalityType
    <3>3. Cardinality(Behind(x)) <= signals[x].waiters /\ Cardinality(Behind(x)) \in Nat
          /\ signals[x].waiters \in Nat
      BY <1>1, <2>3, BehindFinite DEF SignalIInv
    <3> QED
      BY <3>2, <3>3
  <2>4. SignalHeard'
    BY <2>1, <2>2 DEF SignalIInv, SignalHeard
  <2> QED
    BY <2>1, <2>2, <2>3, <2>4 DEF SignalIInv
<1>11. CASE UNCHANGED <<signals, thread>>
  BY <1>11 DEF SignalIInv, SignalHeard, Behind
<1> QED
  BY <1>3, <1>4, <1>5, <1>6, <1>7, <1>8, <1>9, <1>10, <1>11
  DEF EventsNext, events_vars, retireTimer, create_timer, cancel, arm, Tick

\* The empty tables satisfy the invariant.
LEMMA EventsStart ==
  ASSUME IsFiniteSet(Threads), MaxTime \in Nat, EventsInit
  PROVE  SignalIInv /\ TimerIInv
<1>1. \A s \in Signals : Behind(s) = {}
  BY DEF EventsInit, Behind, Out
<1>2. Cardinality({}) = 0
  BY FS_EmptySet
<1>3. SignalIInv
  BY <1>1, <1>2 DEF EventsInit, SignalIInv, SignalHeard, Out
<1>4. TimerIInv
  BY DEF EventsInit, TimerIInv, TimerNoticed, FreeTimer, Never
<1> QED
  BY <1>3, <1>4

\* For any number of threads, signals and timers: no thread sleeps on a bit that is raised,
\* and a timer that is due is noticed by the tick, if no slot is reused under an old waiter
\* (events.rs raise_bits, evtops.rs wait).
THEOREM SignalsAreHeard ==
  ASSUME IsFiniteSet(Threads), MaxTime \in Nat, ~Recycled
  PROVE  EventsSpec => [](SignalHeard /\ TimerNoticed)
<1>1. EventsInit => SignalIInv /\ TimerIInv
  BY EventsStart
<1>2. SignalIInv /\ TimerIInv /\ [EventsNext]_events_vars => SignalIInv' /\ TimerIInv'
  BY SignalsKeep, TimersKeep
<1>3. SignalIInv /\ TimerIInv => SignalHeard /\ TimerNoticed
  BY DEF SignalIInv, TimerIInv
<1> QED
  BY <1>1, <1>2, <1>3, PTL DEF EventsSpec
=============================================================================
