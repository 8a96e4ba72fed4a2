--------------------------- MODULE BudgetLogProofs ---------------------------
(***************************************************************************)
(* Proofs about the CPU windows and about the control log.  The two share no *)
(* state; each has its own inductive invariant and its own theorems.       *)
(***************************************************************************)
EXTENDS TLAPS, FiniteSetTheorems, CpuBudget, ControlLog

-----------------------------------------------------------------------------
(***************************************************************************)
(* CpuBudget.                                                              *)
(* The roll sequence protects a reservation, for any number of processors, *)
(* any depth of the chain, any budgets and any order of the scope table.   *)
(***************************************************************************)

\* Arithmetic on a machine word stays in the word.
LEMMA AddTyped ==
  ASSUME TypeOK, NEW c \in Cpus, Add(level[c], 1) \/ Add(level[c], -1)
  PROVE  committed' \in [Scopes -> 0..(Width - 1)]
  <1>1. \A a \in Int : a % Width \in 0..(Width - 1)
    BY BudgetAssumption
  <1>2. level[c] \in Scopes /\ committed[level[c]] \in Int
    BY BudgetAssumption DEF TypeOK
  <1>3. (committed[level[c]] + 1) % Width \in 0..(Width - 1)
    BY <1>1, <1>2
  <1>4. (committed[level[c]] + (-1)) % Width \in 0..(Width - 1)
    BY <1>1, <1>2
  <1> QED
    BY <1>2, <1>3, <1>4 DEF Add, TypeOK

\* The levels up to k are those below k, and k.
LEMMA UpTo == \A k \in Nat \ {0} : 1..k = 1..(k - 1) \cup {k}
  OBVIOUS

\* What the proofs use of the constants.
LEMMA ConstantFacts == Depth \in Nat \ {0} /\ 1 \in Scopes /\ Depth \in 0..Depth
  BY BudgetAssumption DEF Scopes

\* A walk up the chain stays in the chain.
LEMMA WalkTyped ==
  ASSUME TypeOK, NEW c \in Cpus, NEW here, NEW last \in 0..Depth, NEW out, Walk(c, here, last, out)
  PROVE  level' \in [Cpus -> Scopes]
  <1>1. level[c] \in Scopes
    BY DEF TypeOK
  <1>2. (IF level[c] < last THEN level[c] + 1 ELSE 1) \in Scopes
    BY <1>1, ConstantFacts DEF Scopes
  <1> QED
    BY <1>2 DEF Walk, TypeOK

\* The initial state satisfies the inductive invariant.
LEMMA Initially == Init => IInv
  BY BudgetAssumption DEF Init, IInv, FromBottom, TypeOK, Steps, RollOrderly, Writing, Reserving, Scopes

\* Every step keeps the types.
LEMMA TypeStep == ASSUME IInv, [Next]_vars PROVE TypeOK'
  <1>0. CASE UNCHANGED vars
    BY <1>0 DEF vars, IInv, TypeOK
  <1>1. CASE Tick
    BY <1>1, BudgetAssumption DEF Tick, IInv, TypeOK
  <1>2. ASSUME NEW c \in Cpus, Plan(c) PROVE TypeOK'
    <2>1. pc' \in [Cpus -> Steps]
      BY <1>2 DEF IInv, TypeOK, Plan, Goto, Steps
    <2>2. now' \in [Cpus -> 0..MaxWindow]
      BY <1>2 DEF IInv, TypeOK, Plan
    <2> QED
      BY <1>2, <2>1, <2>2 DEF IInv, TypeOK, Plan
  <1>3. ASSUME NEW c \in Cpus, Roll(c) PROVE TypeOK'
    <2>0. CASE RollDue(c)
      <3>1. pc' \in [Cpus -> Steps]
        BY <2>0 DEF IInv, TypeOK, RollDue, Goto, Steps
      <3> QED
        BY <2>0, <3>1 DEF IInv, TypeOK, RollDue
    <2>1. CASE RollNotice(c)
      <3>1. pc' \in [Cpus -> Steps]
        BY <2>1 DEF IInv, TypeOK, RollNotice, Goto, Steps
      <3> QED
        BY <2>1, <3>1 DEF IInv, TypeOK, RollNotice
    <2>2. CASE RollLock(c)
      <3>1. roller' \in Cpus \cup {NoCpu}
        BY <2>2 DEF IInv, TypeOK, RollLock
      <3>2. pc' \in [Cpus -> Steps]
        BY <2>2 DEF IInv, TypeOK, RollLock, Goto, Steps
      <3> QED
        BY <2>2, <3>1, <3>2 DEF IInv, TypeOK, RollLock
    <2>3. CASE RollSkip(c)
      <3>1. pc' \in [Cpus -> Steps]
        BY <2>3 DEF IInv, TypeOK, RollSkip, Goto, Steps
      <3>2b. level[c] \in Scopes
        BY DEF IInv, TypeOK
      <3>2a. level[c] + 1 \in Scopes
        BY <2>3, <3>2b, ConstantFacts DEF RollSkip, Scopes
      <3>2. level' \in [Cpus -> Scopes]
        BY <2>3, <3>2a DEF IInv, TypeOK, RollSkip
      <3> QED
        BY <2>3, <3>1, <3>2 DEF IInv, TypeOK, RollSkip
    <2>4. CASE RollOpen(c)
      <3>1. seq' \in Nat
        BY <2>4 DEF IInv, TypeOK, RollOpen
      <3>2. pc' \in [Cpus -> Steps]
        BY <2>4 DEF IInv, TypeOK, RollOpen, Goto, Steps
      <3> QED
        BY <2>4, <3>1, <3>2 DEF IInv, TypeOK, RollOpen
    <2>5. ASSUME NEW carry \in 0..MaxCarry, RollCounters(c, carry) PROVE TypeOK'
      <3>1a. carry \in 0..(Width - 1)
        BY <2>5, BudgetAssumption
      <3>1. committed' \in [Scopes -> 0..(Width - 1)]
        BY <2>5, <3>1a DEF IInv, TypeOK, RollCounters
      <3>2. pc' \in [Cpus -> Steps]
        BY <2>5 DEF IInv, TypeOK, RollCounters, Goto, Steps
      <3>3. landed' \in [Cpus -> SUBSET Scopes]
        BY <2>5 DEF IInv, TypeOK, RollCounters
      <3> QED
        BY <2>5, <3>1, <3>2, <3>3 DEF IInv, TypeOK, RollCounters
    <2>6. CASE RollStamp(c)
      <3>1. index' \in [Scopes -> 0..MaxWindow]
        BY <2>6 DEF IInv, TypeOK, RollStamp
      <3>2. pc' \in [Cpus -> Steps]
        BY <2>6 DEF IInv, TypeOK, RollStamp, Goto, Steps
      <3> QED
        BY <2>6, <3>1, <3>2 DEF IInv, TypeOK, RollStamp
    <2>7. CASE RollClose(c)
      <3>1. seq' \in Nat
        BY <2>7 DEF IInv, TypeOK, RollClose
      <3>2. pc' \in [Cpus -> Steps]
        BY <2>7 DEF IInv, TypeOK, RollClose, Goto, Steps
      <3> QED
        BY <2>7, <3>1, <3>2 DEF IInv, TypeOK, RollClose
    <2>8. CASE RollUnlock(c)
      <3>1. roller' \in Cpus \cup {NoCpu}
        BY <2>8 DEF IInv, TypeOK, RollUnlock
      <3>2. pc' \in [Cpus -> Steps]
        BY <2>8 DEF IInv, TypeOK, RollUnlock, Goto, Steps
      <3>3. level' \in [Cpus -> Scopes]
        BY <2>8, ConstantFacts DEF IInv, TypeOK, RollUnlock
      <3> QED
        BY <2>8, <3>1, <3>2, <3>3 DEF IInv, TypeOK, RollUnlock
    <2>9. CASE RollPublish(c)
      <3>1. current' \in 0..MaxWindow
        BY <2>9 DEF IInv, TypeOK, RollPublish
      <3>2. pc' \in [Cpus -> Steps]
        BY <2>9 DEF IInv, TypeOK, RollPublish, Goto, Steps
      <3> QED
        BY <2>9, <3>1, <3>2 DEF IInv, TypeOK, RollPublish
    <2> QED
      BY <1>3, <2>0, <2>1, <2>2, <2>3, <2>4, <2>5, <2>6, <2>7, <2>8, <2>9 DEF Roll
  <1>4. ASSUME NEW c \in Cpus, Settle(c) PROVE TypeOK'
    <2>1. CASE SettleUnused(c)
      <3>1. pc' \in [Cpus -> Steps]
        BY <2>1 DEF IInv, TypeOK, SettleUnused, Goto, Steps
      <3> QED
        BY <2>1, <3>1 DEF IInv, TypeOK, SettleUnused
    <2>2. ASSUME NEW out \in {"choose", "excess"}, SettleSpent(c, out) PROVE TypeOK'
      <3>1. pc' \in [Cpus -> Steps]
        BY <2>2 DEF IInv, TypeOK, SettleSpent, Goto, Steps
      <3>2. has' \in [Cpus -> BOOLEAN]
        BY <2>2 DEF IInv, TypeOK, SettleSpent
      <3>3. landed' \in [Cpus -> SUBSET Scopes]
        BY <2>2 DEF IInv, TypeOK, SettleSpent
      <3> QED
        BY <2>2, <3>1, <3>2, <3>3 DEF IInv, TypeOK, SettleSpent
    <2>3. CASE CommitExcess(c)
      <3>1. committed' \in [Scopes -> 0..(Width - 1)]
        BY <2>3, AddTyped DEF IInv, TypeOK, CommitExcess
      <3>2. pc' \in [Cpus -> Steps]
        BY <2>3 DEF IInv, TypeOK, CommitExcess, Goto, Steps, Walk
      <3>3. level' \in [Cpus -> Scopes]
        BY <2>3, WalkTyped, ConstantFacts DEF IInv, TypeOK, CommitExcess
      <3> QED
        BY <2>3, <3>1, <3>2, <3>3 DEF IInv, TypeOK, CommitExcess
    <2> QED
      BY <1>4, <2>1, <2>2, <2>3 DEF Settle
  <1>5. ASSUME NEW c \in Cpus, Grant(c) PROVE TypeOK'
    <2>1. CASE Leave(c)
      <3>1. pc' \in [Cpus -> Steps]
        BY <2>1 DEF IInv, TypeOK, Leave, Goto, Steps
      <3> QED
        BY <2>1, <3>1 DEF IInv, TypeOK, Leave
    <2>2. CASE Spend(c)
      <3>1. pc' \in [Cpus -> Steps]
        BY <2>2 DEF IInv, TypeOK, Spend, Goto, Steps
      <3> QED
        BY <2>2, <3>1 DEF IInv, TypeOK, Spend
    <2>3. CASE Refill(c)
      <3>1. pc' \in [Cpus -> Steps]
        BY <2>3 DEF IInv, TypeOK, Refill, Goto, Steps
      <3>2. has' \in [Cpus -> BOOLEAN]
        BY <2>3 DEF IInv, TypeOK, Refill
      <3>3. landed' \in [Cpus -> SUBSET Scopes]
        BY <2>3 DEF IInv, TypeOK, Refill
      <3> QED
        BY <2>3, <3>1, <3>2, <3>3 DEF IInv, TypeOK, Refill
    <2>4. CASE Look(c)
      <3>1. pc' \in [Cpus -> Steps]
        BY <2>4 DEF IInv, TypeOK, Look, Goto, Steps, Walk
      <3>2. level' \in [Cpus -> Scopes]
        BY <2>4, WalkTyped, ConstantFacts DEF IInv, TypeOK, Look
      <3> QED
        BY <2>4, <3>1, <3>2 DEF IInv, TypeOK, Look
    <2> QED
      BY <1>5, <2>1, <2>2, <2>3, <2>4 DEF Grant
  <1>6. ASSUME NEW c \in Cpus, Reserve(c) PROVE TypeOK'
    <2>1. CASE ReserveStart(c)
      <3>1. pc' \in [Cpus -> Steps]
        BY <2>1 DEF IInv, TypeOK, ReserveStart, Goto, Steps
      <3>2. seen' \in [Cpus -> Nat]
        BY <2>1 DEF IInv, TypeOK, ReserveStart
      <3> QED
        BY <2>1, <3>1, <3>2 DEF IInv, TypeOK, ReserveStart
    <2>2. CASE ReserveWindow(c)
      <3>1. pc' \in [Cpus -> Steps]
        BY <2>2 DEF IInv, TypeOK, ReserveWindow, Goto, Steps
      <3> QED
        BY <2>2, <3>1 DEF IInv, TypeOK, ReserveWindow
    <2>3. CASE ReserveAdd(c)
      <3>1. committed' \in [Scopes -> 0..(Width - 1)]
        BY <2>3, AddTyped DEF IInv, TypeOK, ReserveAdd
      <3>2. pc' \in [Cpus -> Steps]
        BY <2>3 DEF IInv, TypeOK, ReserveAdd, Goto, Steps, Walk
      <3>3. level' \in [Cpus -> Scopes]
        BY <2>3, WalkTyped, ConstantFacts DEF IInv, TypeOK, ReserveAdd
      <3>4. landed' \in [Cpus -> SUBSET Scopes]
        BY <2>3 DEF IInv, TypeOK, ReserveAdd
      <3> QED
        BY <2>3, <3>1, <3>2, <3>3, <3>4 DEF IInv, TypeOK, ReserveAdd
    <2>4. CASE ReserveOver(c)
      <3>1. committed' \in [Scopes -> 0..(Width - 1)]
        BY <2>4, AddTyped DEF IInv, TypeOK, ReserveOver
      <3>2. pc' \in [Cpus -> Steps]
        BY <2>4 DEF IInv, TypeOK, ReserveOver, Goto, Steps
      <3>3. level' \in [Cpus -> Scopes]
        BY <2>4, ConstantFacts DEF IInv, TypeOK, ReserveOver
      <3>4b. level[c] \in Scopes
        BY DEF IInv, TypeOK
      <3>4a. level[c] - 1 \in 0..Depth
        BY <2>4, <3>4b, ConstantFacts DEF Scopes
      <3>4. done' \in [Cpus -> 0..Depth]
        BY <2>4, <3>4a DEF IInv, TypeOK, ReserveOver
      <3>5. landed' \in [Cpus -> SUBSET Scopes]
        BY <2>4 DEF IInv, TypeOK, ReserveOver
      <3> QED
        BY <2>4, <3>1, <3>2, <3>3, <3>4, <3>5 DEF IInv, TypeOK, ReserveOver
    <2>5. CASE ReserveTaken(c)
      <3>1. pc' \in [Cpus -> Steps]
        BY <2>5 DEF IInv, TypeOK, ReserveTaken, Goto, Steps
      <3>2. has' \in [Cpus -> BOOLEAN]
        BY <2>5 DEF IInv, TypeOK, ReserveTaken
      <3>3. win' \in [Cpus -> 0..MaxWindow]
        BY <2>5 DEF IInv, TypeOK, ReserveTaken
      <3> QED
        BY <2>5, <3>1, <3>2, <3>3 DEF IInv, TypeOK, ReserveTaken
    <2>6. CASE ReserveOverlapped(c)
      <3>1. pc' \in [Cpus -> Steps]
        BY <2>6 DEF IInv, TypeOK, ReserveOverlapped, Goto, Steps
      <3>2. done' \in [Cpus -> 0..Depth]
        BY <2>6, ConstantFacts DEF IInv, TypeOK, ReserveOverlapped, Scopes
      <3> QED
        BY <2>6, <3>1, <3>2 DEF IInv, TypeOK, ReserveOverlapped
    <2>7. CASE ReserveUndo(c, "refuse", "idle")
      <3>1. committed' \in [Scopes -> 0..(Width - 1)]
        BY <2>7, AddTyped DEF IInv, TypeOK, ReserveUndo
      <3>2. pc' \in [Cpus -> Steps]
        BY <2>7 DEF IInv, TypeOK, ReserveUndo, Goto, Steps, Walk
      <3>3. level' \in [Cpus -> Scopes]
        BY <2>7, WalkTyped, ConstantFacts DEF IInv, TypeOK, ReserveUndo
      <3>4. landed' \in [Cpus -> SUBSET Scopes]
        BY <2>7 DEF IInv, TypeOK, ReserveUndo
      <3> QED
        BY <2>7, <3>1, <3>2, <3>3, <3>4 DEF IInv, TypeOK, ReserveUndo
    <2>8. CASE ReserveUndo(c, "retry", "start")
      <3>1. committed' \in [Scopes -> 0..(Width - 1)]
        BY <2>8, AddTyped DEF IInv, TypeOK, ReserveUndo
      <3>2. pc' \in [Cpus -> Steps]
        BY <2>8 DEF IInv, TypeOK, ReserveUndo, Goto, Steps, Walk
      <3>3. level' \in [Cpus -> Scopes]
        BY <2>8, WalkTyped, ConstantFacts DEF IInv, TypeOK, ReserveUndo
      <3>4. landed' \in [Cpus -> SUBSET Scopes]
        BY <2>8 DEF IInv, TypeOK, ReserveUndo
      <3> QED
        BY <2>8, <3>1, <3>2, <3>3, <3>4 DEF IInv, TypeOK, ReserveUndo
    <2> QED
      BY <1>6, <2>1, <2>2, <2>3, <2>4, <2>5, <2>6, <2>7, <2>8 DEF Reserve
  <1>7. ASSUME NEW c \in Cpus, Return(c) PROVE TypeOK'
    <2>1. CASE ReturnSkip(c)
      <3>1. pc' \in [Cpus -> Steps]
        BY <2>1 DEF IInv, TypeOK, ReturnSkip, Goto, Steps, Walk
      <3>2. level' \in [Cpus -> Scopes]
        BY <2>1, WalkTyped, ConstantFacts DEF IInv, TypeOK, ReturnSkip
      <3>3. landed' \in [Cpus -> SUBSET Scopes]
        BY <2>1 DEF IInv, TypeOK, ReturnSkip
      <3> QED
        BY <2>1, <3>1, <3>2, <3>3 DEF IInv, TypeOK, ReturnSkip
    <2>2. CASE ReturnLook(c)
      <3>1. pc' \in [Cpus -> Steps]
        BY <2>2 DEF IInv, TypeOK, ReturnLook, Goto, Steps
      <3> QED
        BY <2>2, <3>1 DEF IInv, TypeOK, ReturnLook
    <2>3. CASE ReturnCredit(c)
      <3>1a. level[c] \in Scopes /\ (IF committed[level[c]] = 0 THEN 0 ELSE committed[level[c]] - 1) \in 0..(Width - 1)
        BY <2>3, BudgetAssumption DEF IInv, TypeOK
      <3>1. committed' \in [Scopes -> 0..(Width - 1)]
        BY <2>3, <3>1a DEF IInv, TypeOK, ReturnCredit
      <3>2. pc' \in [Cpus -> Steps]
        BY <2>3 DEF IInv, TypeOK, ReturnCredit, Goto, Steps
      <3>3b. level[c] \in Scopes
        BY DEF IInv, TypeOK
      <3>3a. (IF level[c] < Depth THEN level[c] + 1 ELSE 1) \in Scopes
        BY <2>3, <3>3b, ConstantFacts DEF Scopes
      <3>3. level' \in [Cpus -> Scopes]
        BY <2>3, <3>3a DEF IInv, TypeOK, ReturnCredit
      <3>4. landed' \in [Cpus -> SUBSET Scopes]
        BY <2>3 DEF IInv, TypeOK, ReturnCredit
      <3> QED
        BY <2>3, <3>1, <3>2, <3>3, <3>4 DEF IInv, TypeOK, ReturnCredit
    <2>4. CASE Returned(c)
      <3>1. pc' \in [Cpus -> Steps]
        BY <2>4 DEF IInv, TypeOK, Returned, Goto, Steps
      <3>2. has' \in [Cpus -> BOOLEAN]
        BY <2>4 DEF IInv, TypeOK, Returned
      <3> QED
        BY <2>4, <3>1, <3>2 DEF IInv, TypeOK, Returned
    <2> QED
      BY <1>7, <2>1, <2>2, <2>3, <2>4 DEF Return
  <1> QED
    BY <1>0, <1>1, <1>2, <1>3, <1>4, <1>5, <1>6, <1>7 DEF Next, Decide

\* Every step keeps the roller alone and the sequence odd while it writes.
LEMMA OrderlyStep == ASSUME IInv, [Next]_vars PROVE RollOrderly'
  <1> USE BudgetAssumption DEF IInv, TypeOK, RollOrderly, Writing, Goto, Walk
  <1>0. CASE UNCHANGED vars
    BY <1>0 DEF vars
  <1>1. CASE Tick
    BY <1>1 DEF Tick
  <1>2. ASSUME NEW c \in Cpus, Plan(c) PROVE RollOrderly'
    BY <1>2 DEF Plan
  <1>3. ASSUME NEW c \in Cpus, Roll(c) PROVE RollOrderly'
    <2>0. CASE RollDue(c)
      BY <2>0 DEF RollDue
    <2>1. CASE RollNotice(c)
      BY <2>1 DEF RollNotice
    <2>2. CASE RollLock(c)
      BY <2>2 DEF RollLock
    <2>3. CASE RollSkip(c)
      BY <2>3 DEF RollSkip
    <2>4. CASE RollOpen(c)
      BY <2>4 DEF RollOpen
    <2>5. ASSUME NEW carry \in 0..MaxCarry, RollCounters(c, carry) PROVE RollOrderly'
      BY <2>5 DEF RollCounters
    <2>6. CASE RollStamp(c)
      BY <2>6 DEF RollStamp
    <2>7. CASE RollClose(c)
      BY <2>7 DEF RollClose
    <2>8. CASE RollUnlock(c)
      BY <2>8 DEF RollUnlock
    <2>9. CASE RollPublish(c)
      BY <2>9 DEF RollPublish
    <2> QED
      BY <1>3, <2>0, <2>1, <2>2, <2>3, <2>4, <2>5, <2>6, <2>7, <2>8, <2>9 DEF Roll
  <1>4. ASSUME NEW c \in Cpus, Settle(c) PROVE RollOrderly'
    <2>1. CASE SettleUnused(c)
      BY <2>1 DEF SettleUnused
    <2>2. ASSUME NEW out \in {"choose", "excess"}, SettleSpent(c, out) PROVE RollOrderly'
      BY <2>2 DEF SettleSpent
    <2>3. CASE CommitExcess(c)
      BY <2>3 DEF CommitExcess
    <2> QED
      BY <1>4, <2>1, <2>2, <2>3 DEF Settle
  <1>5. ASSUME NEW c \in Cpus, Grant(c) PROVE RollOrderly'
    <2>1. CASE Leave(c)
      BY <2>1 DEF Leave
    <2>2. CASE Spend(c)
      BY <2>2 DEF Spend
    <2>3. CASE Refill(c)
      BY <2>3 DEF Refill
    <2>4. CASE Look(c)
      BY <2>4 DEF Look
    <2> QED
      BY <1>5, <2>1, <2>2, <2>3, <2>4 DEF Grant
  <1>6. ASSUME NEW c \in Cpus, Reserve(c) PROVE RollOrderly'
    <2>1. CASE ReserveStart(c)
      BY <2>1 DEF ReserveStart
    <2>2. CASE ReserveWindow(c)
      BY <2>2 DEF ReserveWindow
    <2>3. CASE ReserveAdd(c)
      BY <2>3 DEF ReserveAdd
    <2>4. CASE ReserveOver(c)
      BY <2>4 DEF ReserveOver
    <2>5. CASE ReserveTaken(c)
      BY <2>5 DEF ReserveTaken
    <2>6. CASE ReserveOverlapped(c)
      BY <2>6 DEF ReserveOverlapped
    <2>7. CASE ReserveUndo(c, "refuse", "idle")
      BY <2>7 DEF ReserveUndo
    <2>8. CASE ReserveUndo(c, "retry", "start")
      BY <2>8 DEF ReserveUndo
    <2> QED
      BY <1>6, <2>1, <2>2, <2>3, <2>4, <2>5, <2>6, <2>7, <2>8 DEF Reserve
  <1>7. ASSUME NEW c \in Cpus, Return(c) PROVE RollOrderly'
    <2>1. CASE ReturnSkip(c)
      BY <2>1 DEF ReturnSkip
    <2>2. CASE ReturnLook(c)
      BY <2>2 DEF ReturnLook
    <2>3. CASE ReturnCredit(c)
      BY <2>3 DEF ReturnCredit
    <2>4. CASE Returned(c)
      BY <2>4 DEF Returned
    <2> QED
      BY <1>7, <2>1, <2>2, <2>3, <2>4 DEF Return
  <1> QED
    BY <1>0, <1>1, <1>2, <1>3, <1>4, <1>5, <1>6, <1>7 DEF Next, Decide

\* Every step keeps a fresh attempt at the bottom of the chain.
LEMMA BottomStep == ASSUME IInv, [Next]_vars PROVE \A q \in Cpus : FromBottom(q)'
  <1> USE BudgetAssumption DEF IInv, TypeOK, FromBottom, Goto, Walk
  <1>0. CASE UNCHANGED vars
    BY <1>0 DEF vars
  <1>1. CASE Tick
    BY <1>1 DEF Tick
  <1>2. ASSUME NEW c \in Cpus, Plan(c) PROVE \A q \in Cpus : FromBottom(q)'
    BY <1>2 DEF Plan
  <1>3. ASSUME NEW c \in Cpus, Roll(c) PROVE \A q \in Cpus : FromBottom(q)'
    <2>0. CASE RollDue(c)
      BY <2>0 DEF RollDue
    <2>1. CASE RollNotice(c)
      BY <2>1 DEF RollNotice
    <2>2. CASE RollLock(c)
      BY <2>2 DEF RollLock
    <2>3. CASE RollSkip(c)
      BY <2>3 DEF RollSkip
    <2>4. CASE RollOpen(c)
      BY <2>4 DEF RollOpen
    <2>5. ASSUME NEW carry \in 0..MaxCarry, RollCounters(c, carry) PROVE \A q \in Cpus : FromBottom(q)'
      BY <2>5 DEF RollCounters
    <2>6. CASE RollStamp(c)
      BY <2>6 DEF RollStamp
    <2>7. CASE RollClose(c)
      BY <2>7 DEF RollClose
    <2>8. CASE RollUnlock(c)
      BY <2>8 DEF RollUnlock
    <2>9. CASE RollPublish(c)
      BY <2>9 DEF RollPublish
    <2> QED
      BY <1>3, <2>0, <2>1, <2>2, <2>3, <2>4, <2>5, <2>6, <2>7, <2>8, <2>9 DEF Roll
  <1>4. ASSUME NEW c \in Cpus, Settle(c) PROVE \A q \in Cpus : FromBottom(q)'
    <2>1. CASE SettleUnused(c)
      BY <2>1 DEF SettleUnused
    <2>2. ASSUME NEW out \in {"choose", "excess"}, SettleSpent(c, out) PROVE \A q \in Cpus : FromBottom(q)'
      BY <2>2 DEF SettleSpent
    <2>3. CASE CommitExcess(c)
      BY <2>3 DEF CommitExcess
    <2> QED
      BY <1>4, <2>1, <2>2, <2>3 DEF Settle
  <1>5. ASSUME NEW c \in Cpus, Grant(c) PROVE \A q \in Cpus : FromBottom(q)'
    <2>1. CASE Leave(c)
      BY <2>1 DEF Leave
    <2>2. CASE Spend(c)
      BY <2>2 DEF Spend
    <2>3. CASE Refill(c)
      BY <2>3 DEF Refill
    <2>4. CASE Look(c)
      BY <2>4 DEF Look
    <2> QED
      BY <1>5, <2>1, <2>2, <2>3, <2>4 DEF Grant
  <1>6. ASSUME NEW c \in Cpus, Reserve(c) PROVE \A q \in Cpus : FromBottom(q)'
    <2>1. CASE ReserveStart(c)
      BY <2>1 DEF ReserveStart
    <2>2. CASE ReserveWindow(c)
      BY <2>2 DEF ReserveWindow
    <2>3. CASE ReserveAdd(c)
      BY <2>3 DEF ReserveAdd
    <2>4. CASE ReserveOver(c)
      BY <2>4 DEF ReserveOver
    <2>5. CASE ReserveTaken(c)
      BY <2>5 DEF ReserveTaken
    <2>6. CASE ReserveOverlapped(c)
      BY <2>6 DEF ReserveOverlapped
    <2>7. CASE ReserveUndo(c, "refuse", "idle")
      BY <2>7 DEF ReserveUndo
    <2>8. CASE ReserveUndo(c, "retry", "start")
      BY <2>8 DEF ReserveUndo
    <2> QED
      BY <1>6, <2>1, <2>2, <2>3, <2>4, <2>5, <2>6, <2>7, <2>8 DEF Reserve
  <1>7. ASSUME NEW c \in Cpus, Return(c) PROVE \A q \in Cpus : FromBottom(q)'
    <2>1. CASE ReturnSkip(c)
      BY <2>1 DEF ReturnSkip
    <2>2. CASE ReturnLook(c)
      BY <2>2 DEF ReturnLook
    <2>3. CASE ReturnCredit(c)
      BY <2>3 DEF ReturnCredit
    <2>4. CASE Returned(c)
      BY <2>4 DEF Returned
    <2> QED
      BY <1>7, <2>1, <2>2, <2>3, <2>4 DEF Return
  <1> QED
    BY <1>0, <1>1, <1>2, <1>3, <1>4, <1>5, <1>6, <1>7 DEF Next, Decide

\* A reservation that saw an even sequence is released from its claim by a step
\* that moves the sequence, or that happens while it is odd.
LEMMA SequenceMoved ==
  ASSUME IInv, NEW q \in Cpus, Reserving(q), seen'[q] = seen[q],
         seq' = seq + 1 \/ (seq' = seq /\ seq % 2 = 1)
  PROVE  Climbed(q)'
  <1>1. PICK a \in Nat : a = seen[q]
    BY DEF IInv, TypeOK
  <1>2. PICK b \in Nat : b = seq
    BY DEF IInv, TypeOK
  <1>3. PICK d \in Nat : d = seq'
    BY <1>2
  <1>4. a <= b /\ a % 2 = 0
    BY <1>1, <1>2 DEF IInv, Climbed
  <1>5. d = b + 1 \/ (d = b /\ b % 2 = 1)
    BY <1>2, <1>3
  <1>6. a <= d /\ a # d
    BY <1>4, <1>5
  <1> QED
    BY <1>1, <1>3, <1>4, <1>6 DEF Climbed

\* A reservation no one touches, under a sequence no one moves, keeps its claim.
LEMMA Untouched ==
  ASSUME IInv, NEW q \in Cpus, Reserving(q)', pc'[q] = pc[q], level'[q] = level[q],
         landed'[q] = landed[q], now' = now, seen'[q] = seen[q], seq' = seq, index' = index
  PROVE  Climbed(q)'
  <1>1. Climbed(q)
    BY DEF IInv, Reserving
  <1> QED
    BY <1>1 DEF Climbed

\* Every step keeps what a reservation has climbed, unless it moves the sequence.
LEMMA ClimbStep == ASSUME IInv, [Next]_vars PROVE \A q \in Cpus : (Reserving(q) => Climbed(q))'
  <1> USE BudgetAssumption DEF IInv, TypeOK, FromBottom, RollOrderly, Writing, Reserving, Climbed, Goto, Walk, Scopes
  <1>0. CASE UNCHANGED vars
    BY <1>0 DEF vars
  <1>1. CASE Tick
    BY <1>1 DEF Tick
  <1>2. ASSUME NEW c \in Cpus, Plan(c) PROVE \A q \in Cpus : (Reserving(q) => Climbed(q))'
    BY <1>2 DEF Plan
  <1>3. ASSUME NEW c \in Cpus, Roll(c) PROVE \A q \in Cpus : (Reserving(q) => Climbed(q))'
    <2>0. CASE RollDue(c)
      BY <2>0 DEF RollDue
    <2>1. CASE RollNotice(c)
      BY <2>1 DEF RollNotice
    <2>2. CASE RollLock(c)
      BY <2>2 DEF RollLock
    <2>3. CASE RollSkip(c)
      BY <2>3 DEF RollSkip
    <2>4. CASE RollOpen(c)
      <3> SUFFICES ASSUME NEW q \in Cpus, Reserving(q)' PROVE Climbed(q)'
        OBVIOUS
      <3>1. Reserving(q) /\ seen'[q] = seen[q]
        BY <2>4 DEF RollOpen
      <3>2. seq' = seq + 1 \/ (seq' = seq /\ seq % 2 = 1)
        BY <2>4 DEF RollOpen
      <3> QED
        BY <3>1, <3>2, SequenceMoved
    <2>5. ASSUME NEW carry \in 0..MaxCarry, RollCounters(c, carry) PROVE \A q \in Cpus : (Reserving(q) => Climbed(q))'
      <3> SUFFICES ASSUME NEW q \in Cpus, Reserving(q)' PROVE Climbed(q)'
        OBVIOUS
      <3>1. Reserving(q) /\ seen'[q] = seen[q]
        BY <2>5 DEF RollCounters
      <3>2. seq' = seq + 1 \/ (seq' = seq /\ seq % 2 = 1)
        BY <2>5 DEF RollCounters
      <3> QED
        BY <3>1, <3>2, SequenceMoved
    <2>6. CASE RollStamp(c)
      <3> SUFFICES ASSUME NEW q \in Cpus, Reserving(q)' PROVE Climbed(q)'
        OBVIOUS
      <3>1. Reserving(q) /\ seen'[q] = seen[q]
        BY <2>6 DEF RollStamp
      <3>2. seq' = seq + 1 \/ (seq' = seq /\ seq % 2 = 1)
        BY <2>6 DEF RollStamp
      <3> QED
        BY <3>1, <3>2, SequenceMoved
    <2>7. CASE RollClose(c)
      <3> SUFFICES ASSUME NEW q \in Cpus, Reserving(q)' PROVE Climbed(q)'
        OBVIOUS
      <3>1. Reserving(q) /\ seen'[q] = seen[q]
        BY <2>7 DEF RollClose
      <3>2. seq' = seq + 1 \/ (seq' = seq /\ seq % 2 = 1)
        BY <2>7 DEF RollClose
      <3> QED
        BY <3>1, <3>2, SequenceMoved
    <2>8. CASE RollUnlock(c)
      BY <2>8 DEF RollUnlock
    <2>9. CASE RollPublish(c)
      BY <2>9 DEF RollPublish
    <2> QED
      BY <1>3, <2>0, <2>1, <2>2, <2>3, <2>4, <2>5, <2>6, <2>7, <2>8, <2>9 DEF Roll
  <1>4. ASSUME NEW c \in Cpus, Settle(c) PROVE \A q \in Cpus : (Reserving(q) => Climbed(q))'
    <2>1. CASE SettleUnused(c)
      BY <2>1 DEF SettleUnused
    <2>2. ASSUME NEW out \in {"choose", "excess"}, SettleSpent(c, out) PROVE \A q \in Cpus : (Reserving(q) => Climbed(q))'
      BY <2>2, ZenonT(30) DEF SettleSpent
    <2>3. CASE CommitExcess(c)
      BY <2>3 DEF CommitExcess
    <2> QED
      BY <1>4, <2>1, <2>2, <2>3 DEF Settle
  <1>5. ASSUME NEW c \in Cpus, Grant(c) PROVE \A q \in Cpus : (Reserving(q) => Climbed(q))'
    <2>1. CASE Leave(c)
      BY <2>1 DEF Leave
    <2>2. CASE Spend(c)
      BY <2>2 DEF Spend
    <2>3. CASE Refill(c)
      BY <2>3 DEF Refill
    <2>4. CASE Look(c)
      <3> SUFFICES ASSUME NEW q \in Cpus, Reserving(q)' PROVE Climbed(q)'
        OBVIOUS
      <3>1. CASE q = c
        BY <2>4, <3>1, ZenonT(30) DEF Look
      <3>2. CASE q # c
        <4>1. /\ pc'[q] = pc[q] /\ level'[q] = level[q] /\ landed'[q] = landed[q] /\ now' = now
              /\ seen'[q] = seen[q] /\ seq' = seq /\ index' = index
          BY <2>4, <3>2, ZenonT(30) DEF Look
        <4> QED
          BY <4>1, Untouched
      <3> QED
        BY <3>1, <3>2
    <2> QED
      BY <1>5, <2>1, <2>2, <2>3, <2>4 DEF Grant
  <1>6. ASSUME NEW c \in Cpus, Reserve(c) PROVE \A q \in Cpus : (Reserving(q) => Climbed(q))'
    <2>1. CASE ReserveStart(c)
      <3> SUFFICES ASSUME NEW q \in Cpus, Reserving(q)' PROVE Climbed(q)'
        OBVIOUS
      <3>1. CASE q = c
        BY <2>1, <3>1 DEF ReserveStart
      <3>2. CASE q # c
        <4>1. /\ pc'[q] = pc[q] /\ level'[q] = level[q] /\ landed'[q] = landed[q] /\ now' = now
              /\ seen'[q] = seen[q] /\ seq' = seq /\ index' = index
          BY <2>1, <3>2 DEF ReserveStart
        <4> QED
          BY <4>1, Untouched
      <3> QED
        BY <3>1, <3>2
    <2>2. CASE ReserveWindow(c)
      <3> SUFFICES ASSUME NEW q \in Cpus, Reserving(q)' PROVE Climbed(q)'
        OBVIOUS
      <3>1. CASE q = c
        <4>1. pc'[c] = "add" /\ index'[1] = now'[c]
          BY <2>2, <3>1 DEF ReserveWindow
        <4>2. level'[c] = 1 /\ seen'[c] <= seq' /\ seen'[c] % 2 = 0
          BY <2>2 DEF ReserveWindow
        <4>3. 1..(level'[c] - 1) = {}
          BY <4>2
        <4> QED
          BY <3>1, <4>1, <4>2, <4>3
      <3>2. CASE q # c
        <4>1. /\ pc'[q] = pc[q] /\ level'[q] = level[q] /\ landed'[q] = landed[q] /\ now' = now
              /\ seen'[q] = seen[q] /\ seq' = seq /\ index' = index
          BY <2>2, <3>2 DEF ReserveWindow
        <4> QED
          BY <4>1, Untouched
      <3> QED
        BY <3>1, <3>2
    <2>3. CASE ReserveAdd(c)
      <3> SUFFICES ASSUME NEW q \in Cpus, Reserving(q)' PROVE Climbed(q)'
        OBVIOUS
      <3>1. CASE q = c
        <4>1. level[c] \in 1..Depth /\ Depth \in Nat /\ landed'[c] = landed[c] \cup {level[c]}
          BY <2>3 DEF ReserveAdd
        <4>2. seen'[c] <= seq' /\ seen'[c] % 2 = 0 /\ (seen'[c] = seq' => index'[1] = now'[c])
          BY <2>3 DEF ReserveAdd
        <4>3. seen'[c] = seq' => 1..(level[c] - 1) \subseteq landed[c]
          BY <2>3 DEF ReserveAdd
        <4>4. seen'[c] = seq' => 1..level[c] \subseteq landed'[c]
          <5>1. PICK k \in Nat \ {0} : k = level[c]
            BY <4>1
          <5>2. 1..k = 1..(k - 1) \cup {k}
            BY UpTo
          <5> HIDE DEF IInv
          <5> QED
            BY <4>1, <4>3, <5>1, <5>2
        <4>5. \/ pc'[c] = "add" /\ level'[c] = level[c] + 1
              \/ pc'[c] = "check" /\ level[c] = Depth
          <5>1. pc'[c] # "over"
            BY <3>1
          <5>2. Walk(c, "add", Depth, "check")
            BY <2>3, <5>1 DEF ReserveAdd
          <5>3. CASE level[c] < Depth
            BY <4>1, <5>2, <5>3
          <5>4. CASE level[c] = Depth
            BY <4>1, <5>2, <5>4
          <5> QED
            BY <4>1, <5>3, <5>4
        <4>6. CASE pc'[c] = "add" /\ level'[c] = level[c] + 1
          <5>1. level'[c] - 1 = level[c]
            BY <4>1, <4>6
          <5> QED
            BY <3>1, <4>2, <4>4, <4>6, <5>1
        <4>7. CASE pc'[c] = "check" /\ level[c] = Depth
          <5>1. landed'[c] \subseteq Scopes
            BY <4>1
          <5> QED
            BY <3>1, <4>2, <4>4, <4>7, <5>1
        <4> QED
          BY <4>5, <4>6, <4>7
      <3>2. CASE q # c
        <4>1. /\ pc'[q] = pc[q] /\ level'[q] = level[q] /\ landed'[q] = landed[q] /\ now' = now
              /\ seen'[q] = seen[q] /\ seq' = seq /\ index' = index
          BY <2>3, <3>2 DEF ReserveAdd
        <4> QED
          BY <4>1, Untouched
      <3> QED
        BY <3>1, <3>2
    <2>4. CASE ReserveOver(c)
      BY <2>4 DEF ReserveOver
    <2>5. CASE ReserveTaken(c)
      BY <2>5 DEF ReserveTaken
    <2>6. CASE ReserveOverlapped(c)
      BY <2>6 DEF ReserveOverlapped
    <2>7. CASE ReserveUndo(c, "refuse", "idle")
      BY <2>7 DEF ReserveUndo
    <2>8. CASE ReserveUndo(c, "retry", "start")
      BY <2>8 DEF ReserveUndo
    <2> QED
      BY <1>6, <2>1, <2>2, <2>3, <2>4, <2>5, <2>6, <2>7, <2>8 DEF Reserve
  <1>7. ASSUME NEW c \in Cpus, Return(c) PROVE \A q \in Cpus : (Reserving(q) => Climbed(q))'
    <2>1. CASE ReturnSkip(c)
      BY <2>1 DEF ReturnSkip
    <2>2. CASE ReturnLook(c)
      BY <2>2 DEF ReturnLook
    <2>3. CASE ReturnCredit(c)
      BY <2>3 DEF ReturnCredit
    <2>4. CASE Returned(c)
      BY <2>4 DEF Returned
    <2> QED
      BY <1>7, <2>1, <2>2, <2>3, <2>4 DEF Return
  <1> QED
    BY <1>0, <1>1, <1>2, <1>3, <1>4, <1>5, <1>6, <1>7 DEF Next, Decide

\* IInv is an invariant: ROLL has one holder, ROLL_SEQ is odd exactly while it
\* writes, and a reservation whose sequence has not moved is counted at every
\* level it has climbed.
THEOREM Inductive == Spec => []IInv
  <1>1. IInv /\ [Next]_vars => IInv'
    BY TypeStep, OrderlyStep, BottomStep, ClimbStep DEF IInv
  <1> QED
    BY Initially, <1>1, PTL DEF Spec

\* A reservation that reserve_cpu reports as taken is counted in its scope and in
\* every ancestor, in a scope of the window it asked for, whatever roll_window
\* does on the other processors meanwhile.
THEOREM ReservationWhole == Spec => Whole
  <1> DEFINE Kept == \A c \in Cpus : Takes(c) => landed[c] = Scopes /\ index[1] = now[c]
  <1>1. ASSUME IInv, [Next]_vars PROVE [Kept]_vars
    <2> SUFFICES ASSUME NEW c \in Cpus, Takes(c), [Next]_vars PROVE landed[c] = Scopes /\ index[1] = now[c]
      BY <1>1
    <2>1. has'[c] # has[c]
      BY DEF Takes
    <2>2. ASSUME NEW d \in Cpus, Plan(d) \/ Roll(d) \/ Return(d) \/ Settle(d) \/ Grant(d) PROVE FALSE
      <3>1. CASE has' = has
        BY <2>1, <3>1
      <3>2. CASE has' = [has EXCEPT ![d] = FALSE]
        BY <1>1, <3>2 DEF Takes, IInv, TypeOK
      <3> QED
        BY <2>2, <3>1, <3>2 DEF Plan, Roll, Return, Settle, Grant, RollDue, RollNotice, RollLock, RollSkip,
           RollOpen, RollCounters, RollStamp, RollClose, RollUnlock, RollPublish, ReturnSkip,
           ReturnLook, ReturnCredit, Returned, SettleUnused, SettleSpent, CommitExcess, Leave,
           Spend, Refill, Look
    <2>3. PICK d \in Cpus : Reserve(d)
      BY <1>1, <2>1, <2>2 DEF Next, Decide, Tick, vars
    <2>4. ReserveTaken(d)
      BY <2>1, <2>3 DEF Reserve, ReserveStart, ReserveWindow, ReserveAdd, ReserveOver,
         ReserveOverlapped, ReserveUndo
    <2>5. d = c
      BY <1>1, <2>1, <2>4 DEF ReserveTaken, IInv, TypeOK
    <2> QED
      BY <1>1, <2>4, <2>5 DEF ReserveTaken, Goto, IInv, Reserving, Climbed, TypeOK
  <1> QED
    BY <1>1, Inductive, PTL DEF Spec, Whole

-----------------------------------------------------------------------------
(***************************************************************************)
(* ControlLog.  A reservation is a promise counted against the cells; the  *)
(* sequences have no hole; and whoever completes a batch owes a wake.      *)
(***************************************************************************)

\* The admissions that hold a reservation.
Holding == {a \in Admissions : admission[a] = "reserved"}

\* The promised cells are counted, one for each admission that holds a reservation, and they
\* fit beside the records; an auditor asleep has its bit set.
LogIInv ==
    /\ records \in Seq(Nat) /\ next_sequence \in Nat /\ oldest_sequence \in Nat
    /\ readers \in BOOLEAN
    /\ pending_reservations \in Nat /\ lost \in Nat /\ coalesced \in Nat
    /\ admission \in [Admissions -> {"none", "reserved", "wake"}]
    /\ pending_reservations = Cardinality(Holding)
    /\ Holding # {} => Len(records) + pending_reservations <= ordinary_capacity
    /\ reader = "asleep" => readers
    /\ BatchHeard

\* The reservations held at one time are finitely many.
LEMMA HoldingFinite ==
  ASSUME IsFiniteSet(Admissions)
  PROVE  /\ IsFiniteSet(Holding) /\ Cardinality(Holding) \in Nat
         /\ Cardinality(Holding) = 0 <=> Holding = {}
<1>1. Holding \subseteq Admissions
  BY DEF Holding
<1> QED
  BY <1>1, FS_Subset, FS_CardinalityType, FS_EmptySet

\* reserve promises a cell that is there (ctrl.rs, can_reserve).
LEMMA ReserveKeeps ==
  ASSUME IsFiniteSet(Admissions), CAPACITY \in Nat, RESERVED \in Nat,
         LogIInv, NEW a \in Admissions, reserve(a)
  PROVE  LogIInv'
<1>1. Holding' = Holding \cup {a} /\ a \notin Holding
  BY DEF LogIInv, Holding, reserve
<1>2. Cardinality(Holding') = Cardinality(Holding) + 1
  BY <1>1, HoldingFinite, FS_AddElement
<1>3. Len(records) + pending_reservations < ordinary_capacity /\ UNCHANGED records
      /\ pending_reservations' = pending_reservations + 1
  BY DEF reserve, can_reserve, log
<1>4. Len(records') + pending_reservations' <= ordinary_capacity'
  <2>1. Len(records) \in Nat /\ pending_reservations \in Nat
    BY DEF LogIInv
  <2> QED
    BY <1>3, <2>1 DEF ordinary_capacity
<1>5. BatchHeard'
  BY DEF LogIInv, BatchHeard, reserve, log
<1> QED
  BY <1>2, <1>4, <1>5 DEF LogIInv, reserve, log

\* An admission that gives its reservation up, or uses it, is counted once less.
LEMMA LessOne ==
  ASSUME IsFiniteSet(Admissions), LogIInv, NEW a \in Admissions, admission[a] = "reserved",
         NEW v \in {"none", "wake"}, admission' = [admission EXCEPT ![a] = v],
         pending_reservations' = pending_reservations - 1
  PROVE  /\ pending_reservations' \in Nat
         /\ pending_reservations' = Cardinality(Holding')
         /\ Holding # {}
<1>1. Holding' = Holding \ {a} /\ a \in Holding
  BY DEF LogIInv, Holding
<1>2. Cardinality(Holding') = Cardinality(Holding) - 1
  BY <1>1, HoldingFinite, FS_RemoveElement
<1>3. Cardinality(Holding) # 0
  BY <1>1, HoldingFinite
<1> QED
  BY <1>1, <1>2, <1>3, HoldingFinite DEF LogIInv

\* release_reservation gives the cell back.
LEMMA ReleaseKeeps ==
  ASSUME IsFiniteSet(Admissions), CAPACITY \in Nat, RESERVED \in Nat,
         LogIInv, NEW a \in Admissions, release_reservation(a)
  PROVE  LogIInv'
<1>1. /\ pending_reservations' \in Nat /\ pending_reservations' = Cardinality(Holding')
      /\ Holding # {}
  BY LessOne DEF release_reservation
<1>2. Len(records') + pending_reservations' <= ordinary_capacity'
  <2>1. Len(records) \in Nat /\ pending_reservations \in Nat /\ UNCHANGED records
        /\ pending_reservations' = pending_reservations - 1
        /\ Len(records) + pending_reservations <= ordinary_capacity
    BY <1>1 DEF LogIInv, release_reservation, log
  <2> QED
    BY <2>1 DEF ordinary_capacity
<1>3. BatchHeard'
  BY DEF LogIInv, BatchHeard, release_reservation, log
<1> QED
  BY <1>1, <1>2, <1>3 DEF LogIInv, release_reservation, log

\* write leaves the sequences of the live records without a hole, whether it finds a cell or
\* counts what it could not write.
LEMMA WriteAppends ==
  ASSUME LogIInv, BATCH \in Nat, NEW closing \in BOOLEAN, write(closing)
  PROVE  /\ records' \in Seq(Nat) /\ next_sequence' \in Nat /\ oldest_sequence' \in Nat
         /\ lost' \in Nat /\ coalesced' \in Nat
         /\ \A i \in 1 .. Len(records') : records'[i] = oldest_sequence' + i - 1
         /\ oldest_sequence' + Len(records') = next_sequence'
<1>1. CASE UNCHANGED <<records, next_sequence, oldest_sequence>>
  BY <1>1 DEF LogIInv, BatchHeard, write
<1>2. CASE /\ records' = Append(records, next_sequence)
           /\ oldest_sequence' = IF records = <<>> THEN next_sequence ELSE oldest_sequence
           /\ next_sequence' = next_sequence + 1
           /\ UNCHANGED <<lost, coalesced>>
  <2>1. /\ records' \in Seq(Nat) /\ Len(records') = Len(records) + 1 /\ Len(records) \in Nat
        /\ \A i \in 1 .. Len(records) : records'[i] = records[i]
        /\ records'[Len(records) + 1] = next_sequence
    BY <1>2 DEF LogIInv
  <2>2. records = <<>> => Len(records) = 0
    OBVIOUS
  <2>3. oldest_sequence' = oldest_sequence
    BY <1>2, <2>2 DEF LogIInv, BatchHeard
  <2> QED
    BY <1>2, <2>1, <2>3 DEF LogIInv, BatchHeard
<1> QED
  BY <1>1, <1>2 DEF write

\* commit_reserved finds the cell it was promised, and whoever completes the batch is to wake
\* the auditor.
LEMMA CommitKeeps ==
  ASSUME IsFiniteSet(Admissions), CAPACITY \in Nat, RESERVED \in Nat, BATCH \in Nat,
         LogIInv, NEW a \in Admissions, commit_reserved(a)
  PROVE  LogIInv' /\ lost' = lost
<1>1. /\ admission' = [admission EXCEPT ![a] = IF Owed(Len(records')) THEN "wake" ELSE "none"]
      /\ admission[a] = "reserved" /\ pending_reservations' = pending_reservations - 1
      /\ UNCHANGED <<readers, reader>> /\ write(FALSE)
  BY DEF commit_reserved
<1>2. /\ pending_reservations' \in Nat /\ pending_reservations' = Cardinality(Holding')
      /\ Holding # {}
  BY <1>1, LessOne
<1>3. /\ Len(records) \in Nat /\ pending_reservations \in Nat
      /\ Len(records) + pending_reservations <= ordinary_capacity
  BY <1>2 DEF LogIInv
<1>4. ~(Len(records) >= ordinary_capacity)
  BY <1>1, <1>2, <1>3 DEF ordinary_capacity
<1>5. records' = Append(records, next_sequence) /\ lost' = lost
  BY <1>1, <1>4 DEF write
<1>6. Len(records') = Len(records) + 1
  BY <1>5 DEF LogIInv
<1>7. Len(records') + pending_reservations' <= ordinary_capacity'
  BY <1>1, <1>3, <1>6 DEF ordinary_capacity
<1>8. BatchHeard'
  <2>1. reader' = "asleep" /\ Len(records') >= BATCH => admission'[a] = "wake"
    BY <1>1 DEF LogIInv, Owed
  <2> QED
    BY <1>1, <2>1, WriteAppends DEF BatchHeard
<1> QED
  BY <1>1, <1>2, <1>5, <1>7, <1>8, WriteAppends DEF LogIInv

\* wake_reader leaves an auditor asleep only below a batch.
LEMMA WakeKeeps ==
  ASSUME BATCH \in Nat, LogIInv, NEW a \in Admissions, wake_reader(a)
  PROVE  LogIInv'
<1>1. Holding' = Holding
  BY DEF Holding, wake_reader, LogIInv
<1>2. reader' = "asleep" => readers' /\ reader = "asleep" /\ ~Owed(Len(records))
  BY DEF wake_reader, Roused, LogIInv
<1>3. BatchHeard'
  BY <1>2 DEF LogIInv, BatchHeard, wake_reader, log, Owed
<1>4. readers' \in BOOLEAN
  BY DEF wake_reader, Roused, LogIInv
<1> QED
  BY <1>1, <1>2, <1>3, <1>4 DEF LogIInv, wake_reader, log, ordinary_capacity

\* A receipt under the exclusive hold meets no reservation, and wakes the auditor itself.
LEMMA ReceiptKeeps ==
  ASSUME BATCH \in Nat, LogIInv, NEW closing \in BOOLEAN, receipt(closing)
  PROVE  LogIInv'
<1>1. Holding' = Holding /\ Holding = {}
  BY DEF Holding, receipt, Exclusive
<1>2. reader' = "asleep" => readers' /\ reader = "asleep" /\ ~Owed(Len(records'))
  BY DEF receipt, Roused, LogIInv
<1>3. BatchHeard'
  BY <1>2, WriteAppends DEF LogIInv, BatchHeard, receipt, Owed
<1>4. readers' \in BOOLEAN
  BY DEF receipt, Roused, LogIInv
<1> QED
  BY <1>1, <1>2, <1>3, <1>4, WriteAppends DEF LogIInv, receipt

\* acknowledge drops records at the head, and the oldest sequence moves by as many.
LEMMA AcknowledgeKeeps ==
  ASSUME BATCH \in Nat, LogIInv, NEW s \in 1 .. MaxSequence, acknowledge(s)
  PROVE  LogIInv'
<1>1. PICK dropped \in 0 .. Len(records) : records' = SubSeq(records, dropped + 1, Len(records))
  BY DEF acknowledge
<1>2. /\ records \in Seq(Nat) /\ Len(records) \in Nat
      /\ \A i \in 1 .. Len(records) : records[i] = oldest_sequence + i - 1
      /\ oldest_sequence + Len(records) = next_sequence
      /\ oldest_sequence \in Nat /\ next_sequence \in Nat
  BY DEF LogIInv, BatchHeard
<1>3. /\ records' \in Seq(Nat) /\ Len(records') = Len(records) - dropped
      /\ \A i \in 1 .. Len(records') : records'[i] = records[i + dropped]
  BY <1>1, <1>2
<1>4. /\ dropped \in Nat /\ next_sequence' = next_sequence /\ dropped <= Len(records)
      /\ oldest_sequence' = IF records' = <<>> THEN next_sequence ELSE Head(records')
  BY <1>1, <1>2 DEF acknowledge
<1>9. oldest_sequence' = oldest_sequence + dropped
  <2>1. CASE records' = <<>>
    <3>1. Len(records') = 0
      BY <2>1
    <3> QED
      BY <1>2, <1>3, <1>4, <2>1, <3>1
  <2>2. CASE records' # <<>>
    <3>1. Len(records') > 0 /\ Head(records') = records'[1]
      BY <1>3, <2>2
    <3>2. 1 \in 1 .. Len(records') /\ 1 + dropped \in 1 .. Len(records)
      BY <1>2, <1>3, <1>4, <3>1
    <3>3. records'[1] = records[1 + dropped]
      BY <1>3, <3>2
    <3> QED
      BY <1>2, <1>4, <2>2, <3>1, <3>2, <3>3
  <2> QED
    BY <2>1, <2>2
<1>5. Holding' = Holding /\ Holding = {}
  BY DEF Holding, acknowledge, Exclusive
<1>6. /\ \A i \in 1 .. Len(records') : records'[i] = oldest_sequence' + i - 1
      /\ oldest_sequence' + Len(records') = next_sequence'
  <2>1. ASSUME NEW i \in 1 .. Len(records') PROVE records'[i] = oldest_sequence' + i - 1
    <3>1. i \in Nat /\ i + dropped \in 1 .. Len(records) /\ records'[i] = records[i + dropped]
      BY <1>2, <1>3, <1>4
    <3> QED
      BY <1>2, <1>9, <1>4, <3>1
  <2>2. oldest_sequence' + Len(records') = next_sequence'
    BY <1>2, <1>3, <1>4, <1>9
  <2> QED
    BY <2>1, <2>2
<1>7. BatchHeard'
  <2>1. Len(records') >= BATCH => Len(records) >= BATCH
    BY <1>2, <1>3
  <2> QED
    BY <1>6, <2>1 DEF LogIInv, BatchHeard, acknowledge
<1>8. oldest_sequence' \in Nat /\ next_sequence' \in Nat
  BY <1>2, <1>4, <1>9
<1> QED
  BY <1>3, <1>5, <1>7, <1>8 DEF LogIInv, acknowledge

\* Every step of the log keeps the invariant.
LEMMA LogKeeps ==
  ASSUME IsFiniteSet(Admissions), CAPACITY \in Nat, RESERVED \in Nat, BATCH \in Nat,
         LogIInv, [LogNext]_log_vars
  PROVE  LogIInv'
<1>1. CASE read
  <2>1. Holding' = Holding /\ UNCHANGED log
    BY <1>1 DEF Holding, read
  <2>2. reader' = "asleep" => readers' /\ ~(Len(records) >= BATCH)
    BY <1>1 DEF read
  <2>3. BatchHeard'
    BY <2>1, <2>2 DEF LogIInv, BatchHeard, log
  <2>4. readers' \in BOOLEAN
    BY <1>1 DEF LogIInv, read
  <2> QED
    BY <1>1, <2>1, <2>2, <2>3, <2>4 DEF LogIInv, read, log, ordinary_capacity
<1>2. CASE ReadTimedOut
  <2>1. Holding' = Holding /\ UNCHANGED log
    BY <1>2 DEF Holding, ReadTimedOut
  <2>2. BatchHeard'
    BY <1>2, <2>1 DEF LogIInv, BatchHeard, log, ReadTimedOut
  <2> QED
    BY <1>2, <2>1, <2>2 DEF LogIInv, ReadTimedOut, log, ordinary_capacity
<1>3. CASE UNCHANGED log_vars
  BY <1>3 DEF LogIInv, BatchHeard, Holding, log_vars, ordinary_capacity
<1> QED
  BY <1>1, <1>2, <1>3, ReserveKeeps, ReleaseKeeps, CommitKeeps, WakeKeeps, ReceiptKeeps,
     AcknowledgeKeeps DEF LogNext

\* The empty log satisfies the invariant.
LEMMA LogStarts == ASSUME LogInit, BATCH \in Nat PROVE LogIInv
<1>1. Holding = {}
  BY DEF LogInit, Holding
<1>2. BatchHeard
  BY DEF LogInit, BatchHeard
<1>3. records \in Seq(Nat) /\ Cardinality({}) = 0
  BY FS_EmptySet DEF LogInit
<1> QED
  BY <1>1, <1>2, <1>3 DEF LogInit, LogIInv

\* For any number of admissions and any capacities: the live records have no hole, and the
\* auditor never sleeps on a batch unless a wake is on its way (ctrl.rs, api/logops.rs).
THEOREM BatchesAreHeard ==
  ASSUME IsFiniteSet(Admissions), CAPACITY \in Nat, RESERVED \in Nat, BATCH \in Nat
  PROVE  LogSpec => []BatchHeard
<1>1. LogInit => LogIInv
  BY LogStarts
<1>2. LogIInv /\ [LogNext]_log_vars => LogIInv'
  BY LogKeeps
<1>3. LogIInv => BatchHeard
  BY DEF LogIInv
<1> QED
  BY <1>1, <1>2, <1>3, PTL DEF LogSpec

\* For the same: while a reservation is held no receipt is lost, so the one it was made for
\* is written (ctrl.rs, reserve and commit_reserved).
THEOREM CoveredIsRecorded ==
  ASSUME IsFiniteSet(Admissions), CAPACITY \in Nat, RESERVED \in Nat, BATCH \in Nat
  PROVE  LogSpec => [][CoveredRecorded]_log_vars
<1>1. LogInit => LogIInv
  BY LogStarts
<1>2. LogIInv /\ [LogNext]_log_vars => LogIInv'
  BY LogKeeps
<1>3. LogIInv /\ [LogNext]_log_vars => [CoveredRecorded]_log_vars
  <2> SUFFICES ASSUME LogIInv, LogNext, NEW a \in Admissions, admission[a] = "reserved"
               PROVE  lost' = lost
    BY DEF CoveredRecorded
  <2>1. ~Exclusive
    BY DEF Exclusive
  <2>2. CASE \E b \in Admissions : commit_reserved(b)
    BY <2>2, CommitKeeps
  <2> QED
    BY <2>1, <2>2 DEF LogNext, reserve, release_reservation, wake_reader, receipt, acknowledge, read,
                      ReadTimedOut, log
<1> QED
  BY <1>1, <1>2, <1>3, PTL DEF LogSpec
=============================================================================
