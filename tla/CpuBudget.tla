------------------------------ MODULE CpuBudget ------------------------------
(***************************************************************************)
(* The execution budget of a chain of scopes, window by window.            *)
(*                                                                         *)
(* Before it dispatches a thread a processor takes a slice of the budget   *)
(* in the thread's scope and in every ancestor (reserve_cpu); what the     *)
(* thread leaves unused stays with the processor as a credit or goes back  *)
(* (return_cpu).  Neither takes a lock.                                    *)
(* The first processor to decide in a new window moves every scope to it   *)
(* (roll_window), under the ROLL lock, writing the counters of each scope  *)
(* between two increments of ROLL_SEQ; a reservation compares ROLL_SEQ     *)
(* before and after its walk.                                              *)
(*                                                                         *)
(* One slice is one unit, and the chain stays open.  What a window carries *)
(* over is an input of the step that opens it (the code computes it from   *)
(* the charged time); the recovery account works the same way and is not   *)
(* repeated.  `landed[c]' is read by the properties only: the levels whose *)
(* current counter holds the unit of c, because no roll has overwritten it *)
(* since the add.                                                          *)
(***************************************************************************)
EXTENDS Integers, FiniteSets

CONSTANTS
  Cpus, NoCpu,
  Depth,        \* scopes 1..Depth, a chain; 1 is the leaf
  RollOrder,    \* the order of the chain in the scope table, a permutation
  Budget,       \* Budget[n]: cpu_budget_ns of n, in slices
  MaxWindow,    \* bound on the windows explored
  MaxCarry,     \* bound on the overrun a window opens with
  Width         \* the counters are machine words, Width values

Scopes == 1..Depth

ASSUME BudgetAssumption ==
  /\ Depth \in Nat \ {0} /\ Budget \in [Scopes -> 0..(Width - 2)]
  /\ RollOrder \in [Scopes -> Scopes]
  /\ \A n \in Scopes : \E i \in Scopes : RollOrder[i] = n
  /\ NoCpu \notin Cpus /\ MaxWindow \in Nat /\ MaxCarry \in 0..(Width - 1) /\ Width \in Nat \ {0, 1}

VARIABLES
  clock,        \* the window the time belongs to
  current,      \* CURRENT_WINDOW
  seq,          \* ROLL_SEQ
  roller,       \* the holder of ROLL, or NoCpu
  index,        \* window_index of each scope
  committed,    \* cpu_committed_ns of each scope
  pc,           \* what each processor is doing
  now,          \* the window its decision reads the time in
  level, done, seen,  \* locals: place in the chain, levels taken, sequence
  has, win,     \* whether it holds a slice, and for which window
  landed

vars == <<clock, current, seq, roller, index, committed, pc, now, level, done, seen, has, win, landed>>

Goto(c, from, to) == pc[c] = from /\ pc' = [pc EXCEPT ![c] = to]

Add(n, k) == committed' = [committed EXCEPT ![n] = (@ + k) % Width]

\* A walk up the chain: stay in `here' for the next level, or leave for `out'.
Walk(c, here, last, out) ==
  /\ Goto(c, here, IF level[c] < last THEN here ELSE out)
  /\ level' = [level EXCEPT ![c] = IF @ < last THEN @ + 1 ELSE 1]

Init ==
  /\ clock = 0 /\ current = 0 /\ seq = 0 /\ roller = NoCpu
  /\ index = [n \in Scopes |-> 0]
  /\ committed = [n \in Scopes |-> 0]
  /\ pc = [c \in Cpus |-> "idle"]
  /\ now = [c \in Cpus |-> 0]
  /\ level = [c \in Cpus |-> 1]
  /\ done = [c \in Cpus |-> 0]
  /\ seen = [c \in Cpus |-> 0]
  /\ has = [c \in Cpus |-> FALSE]
  /\ win = [c \in Cpus |-> 0]
  /\ landed = [c \in Cpus |-> {}]

Tick ==
  /\ clock < MaxWindow
  /\ clock' = clock + 1
  /\ UNCHANGED <<current, seq, roller, index, committed, pc, now, level, done, seen, has, win, landed>>

\* A scheduling decision reads the time once and uses that reading throughout.
Plan(c) ==
  /\ Goto(c, "idle", "due")
  /\ now' = [now EXCEPT ![c] = clock]
  /\ UNCHANGED <<clock, current, seq, roller, index, committed, level, done, seen, has, win, landed>>

-----------------------------------------------------------------------------
(* roll_window                                                             *)

\* Whether the window has to be rolled, by what is published by now.
RollDue(c) ==
  /\ Goto(c, "due", IF now[c] # current THEN "notice" ELSE "settle")
  /\ UNCHANGED <<clock, current, seq, roller, index, committed, now, level, done, seen, has, win, landed>>

RollNotice(c) ==
  /\ Goto(c, "notice", IF \E n \in Scopes : index[n] # now[c] THEN "lock" ELSE "publish")
  /\ UNCHANGED <<clock, current, seq, roller, index, committed, now, level, done, seen, has, win, landed>>

RollLock(c) ==
  /\ roller = NoCpu
  /\ roller' = c
  /\ Goto(c, "lock", "roll")
  /\ UNCHANGED <<clock, current, seq, index, committed, now, level, done, seen, has, win, landed>>

\* A scope already in the window is passed over.
RollSkip(c) ==
  /\ index[RollOrder[level[c]]] = now[c]
  /\ level[c] < Depth
  /\ Goto(c, "roll", "roll")
  /\ level' = [level EXCEPT ![c] = @ + 1]
  /\ UNCHANGED <<clock, current, seq, roller, index, committed, now, done, seen, has, win, landed>>

\* Any other window counts as old.
RollOpen(c) ==
  /\ index[RollOrder[level[c]]] # now[c]
  /\ Goto(c, "roll", "open")
  /\ seq' = seq + 1
  /\ UNCHANGED <<clock, current, roller, index, committed, now, level, done, seen, has, win, landed>>

RollCounters(c, carry) ==
  /\ Goto(c, "open", "stamp")
  /\ committed' = [committed EXCEPT ![RollOrder[level[c]]] = carry]
  /\ landed' = [q \in Cpus |-> landed[q] \ {RollOrder[level[c]]}]
  /\ UNCHANGED <<clock, current, seq, roller, index, now, level, done, seen, has, win>>

RollStamp(c) ==
  /\ Goto(c, "stamp", "close")
  /\ index' = [index EXCEPT ![RollOrder[level[c]]] = now[c]]
  /\ UNCHANGED <<clock, current, seq, roller, committed, now, level, done, seen, has, win, landed>>

RollClose(c) ==
  /\ Goto(c, "close", "roll")
  /\ seq' = seq + 1
  /\ UNCHANGED <<clock, current, roller, index, committed, now, level, done, seen, has, win, landed>>

\* Mutant: ROLL is not released.
RollUnlockKept(c) ==
  /\ index[RollOrder[level[c]]] = now[c]
  /\ level[c] = Depth
  /\ Goto(c, "roll", "publish")
  /\ level' = [level EXCEPT ![c] = 1]
  /\ UNCHANGED <<clock, current, seq, roller, index, committed, now, done, seen, has, win, landed>>

RollUnlock(c) ==
  /\ index[RollOrder[level[c]]] = now[c]
  /\ level[c] = Depth
  /\ Goto(c, "roll", "publish")
  /\ level' = [level EXCEPT ![c] = 1]
  /\ roller' = NoCpu
  /\ UNCHANGED <<clock, current, seq, index, committed, now, done, seen, has, win, landed>>

RollPublish(c) ==
  /\ Goto(c, "publish", "settle")
  /\ current' = now[c]
  /\ UNCHANGED <<clock, seq, roller, index, committed, now, level, done, seen, has, win, landed>>

-----------------------------------------------------------------------------
(* settle: what became of the slice the last dispatch held                 *)

\* Nothing held, or all of it unused: it joins the credit.
SettleUnused(c) ==
  /\ Goto(c, "settle", "choose")
  /\ UNCHANGED <<clock, current, seq, roller, index, committed, now, level, done, seen, has, win, landed>>

\* All of it executed, or more: the excess is committed whatever the ceiling.
SettleSpent(c, out) ==
  /\ has[c]
  /\ Goto(c, "settle", out)
  /\ has' = [has EXCEPT ![c] = FALSE]
  /\ landed' = [landed EXCEPT ![c] = {}]
  /\ UNCHANGED <<clock, current, seq, roller, index, committed, now, level, done, seen, win>>

CommitExcess(c) ==
  /\ Walk(c, "excess", Depth, "choose")
  /\ Add(level[c], 1)
  /\ UNCHANGED <<clock, current, seq, roller, index, now, done, seen, has, win, landed>>

-----------------------------------------------------------------------------
(* pick_and_reserve and take_grant                                         *)

\* Nothing of this scope runs next: the credit is released.
Leave(c) ==
  /\ Goto(c, "choose", IF has[c] THEN "return" ELSE "idle")
  /\ UNCHANGED <<clock, current, seq, roller, index, committed, now, level, done, seen, has, win, landed>>

\* A credit of this window pays for the dispatch.
Spend(c) ==
  /\ has[c] /\ win[c] = now[c]
  /\ Goto(c, "choose", "idle")
  /\ UNCHANGED <<clock, current, seq, roller, index, committed, now, level, done, seen, has, win, landed>>

\* A credit of another window is dropped, and the pool is asked.
Refill(c) ==
  /\ ~(has[c] /\ win[c] = now[c])
  /\ Goto(c, "choose", "look")
  /\ has' = [has EXCEPT ![c] = FALSE]
  /\ landed' = [landed EXCEPT ![c] = {}]
  /\ UNCHANGED <<clock, current, seq, roller, index, committed, now, level, done, seen, win>>

\* available_ns
Look(c) ==
  /\ IF committed[level[c]] < Budget[level[c]]
       THEN Walk(c, "look", Depth, "start")
       ELSE Goto(c, "look", "idle") /\ level' = [level EXCEPT ![c] = 1]
  /\ UNCHANGED <<clock, current, seq, roller, index, committed, now, done, seen, has, win, landed>>

-----------------------------------------------------------------------------
(* reserve_cpu                                                             *)

\* An odd sequence is waited out.
ReserveStart(c) ==
  /\ seq % 2 = 0
  /\ Goto(c, "start", "window")
  /\ seen' = [seen EXCEPT ![c] = seq]
  /\ UNCHANGED <<clock, current, seq, roller, index, committed, now, level, done, has, win, landed>>

ReserveWindow(c) ==
  /\ Goto(c, "window", IF index[1] = now[c] THEN "add" ELSE "idle")
  /\ UNCHANGED <<clock, current, seq, roller, index, committed, now, level, done, seen, has, win, landed>>

\* bounded_add: the increment,
ReserveAdd(c) ==
  /\ Add(level[c], 1)
  /\ IF committed[level[c]] + 1 > Budget[level[c]]
       THEN Goto(c, "add", "over") /\ UNCHANGED level
       ELSE Walk(c, "add", Depth, "check")
  /\ landed' = [landed EXCEPT ![c] = @ \cup {level[c]}]
  /\ UNCHANGED <<clock, current, seq, roller, index, now, done, seen, has, win>>

\* and its undoing where it passed the ceiling.
ReserveOver(c) ==
  /\ Goto(c, "over", IF level[c] = 1 THEN "idle" ELSE "refuse")
  /\ Add(level[c], -1)
  /\ done' = [done EXCEPT ![c] = level[c] - 1]
  /\ level' = [level EXCEPT ![c] = 1]
  /\ landed' = [landed EXCEPT ![c] = @ \ {level[c]}]
  /\ UNCHANGED <<clock, current, seq, roller, index, now, seen, has, win>>

\* Mutant: the sequence is not read again.
ReserveTakenBlind(c) ==
  /\ Goto(c, "check", "idle")
  /\ has' = [has EXCEPT ![c] = TRUE]
  /\ win' = [win EXCEPT ![c] = now[c]]
  /\ UNCHANGED <<clock, current, seq, roller, index, committed, now, level, done, seen, landed>>

ReserveTaken(c) ==
  /\ seq = seen[c]
  /\ Goto(c, "check", "idle")
  /\ has' = [has EXCEPT ![c] = TRUE]
  /\ win' = [win EXCEPT ![c] = now[c]]
  /\ UNCHANGED <<clock, current, seq, roller, index, committed, now, level, done, seen, landed>>

ReserveOverlapped(c) ==
  /\ seq # seen[c]
  /\ Goto(c, "check", "retry")
  /\ done' = [done EXCEPT ![c] = Depth]
  /\ UNCHANGED <<clock, current, seq, roller, index, committed, now, level, seen, has, win, landed>>

\* The levels taken are given back, for good or to try again.
ReserveUndo(c, why, out) ==
  /\ Walk(c, why, done[c], out)
  /\ Add(level[c], -1)
  /\ landed' = [landed EXCEPT ![c] = @ \ {level[c]}]
  /\ UNCHANGED <<clock, current, seq, roller, index, now, done, seen, has, win>>

-----------------------------------------------------------------------------
(* release_credit and return_cpu                                           *)

\* A scope in another window has discarded the slice.
ReturnSkip(c) ==
  /\ index[level[c]] # win[c]
  /\ Walk(c, "return", Depth, "returned")
  /\ landed' = [landed EXCEPT ![c] = @ \ {level[c]}]
  /\ UNCHANGED <<clock, current, seq, roller, index, committed, now, done, seen, has, win>>

ReturnLook(c) ==
  /\ index[level[c]] = win[c]
  /\ Goto(c, "return", "credit")
  /\ UNCHANGED <<clock, current, seq, roller, index, committed, now, level, done, seen, has, win, landed>>

\* A subtraction that stops at zero, whatever the counter holds by now.
ReturnCredit(c) ==
  /\ Goto(c, "credit", IF level[c] < Depth THEN "return" ELSE "returned")
  /\ committed' = [committed EXCEPT ![level[c]] = IF @ = 0 THEN 0 ELSE @ - 1]
  /\ level' = [level EXCEPT ![c] = IF @ < Depth THEN @ + 1 ELSE 1]
  /\ landed' = [landed EXCEPT ![c] = @ \ {level[c]}]
  /\ UNCHANGED <<clock, current, seq, roller, index, now, done, seen, has, win>>

Returned(c) ==
  /\ Goto(c, "returned", "idle")
  /\ has' = [has EXCEPT ![c] = FALSE]
  /\ UNCHANGED <<clock, current, seq, roller, index, committed, now, level, done, seen, win, landed>>

-----------------------------------------------------------------------------
Roll(c) ==
  \/ RollDue(c) \/ RollNotice(c) \/ RollLock(c) \/ RollSkip(c) \/ RollOpen(c)
  \/ \E carry \in 0..MaxCarry : RollCounters(c, carry)
  \/ RollStamp(c) \/ RollClose(c) \/ RollUnlock(c) \/ RollPublish(c)

Settle(c) ==
  \/ SettleUnused(c)
  \/ \E out \in {"choose", "excess"} : SettleSpent(c, out)
  \/ CommitExcess(c)

Grant(c) == Leave(c) \/ Spend(c) \/ Refill(c) \/ Look(c)

Reserve(c) ==
  \/ ReserveStart(c) \/ ReserveWindow(c) \/ ReserveAdd(c) \/ ReserveOver(c)
  \/ ReserveTaken(c) \/ ReserveOverlapped(c)
  \/ ReserveUndo(c, "refuse", "idle") \/ ReserveUndo(c, "retry", "start")

Return(c) == ReturnSkip(c) \/ ReturnLook(c) \/ ReturnCredit(c) \/ Returned(c)

\* What a processor does once a decision has begun.
Decide(c) == Roll(c) \/ Settle(c) \/ Grant(c) \/ Reserve(c) \/ Return(c)

Next == Tick \/ \E c \in Cpus : Plan(c) \/ Decide(c)

Spec == Init /\ [][Next]_vars

\* A decision runs to its end in the kernel, on a processor nothing preempts.
FairSpec == Spec /\ \A c \in Cpus : WF_vars(Decide(c))

-----------------------------------------------------------------------------
Steps ==
  {"idle", "due", "notice", "lock", "roll", "open", "stamp", "close", "publish",
   "settle", "excess", "choose", "look", "start", "window", "add", "over",
   "check", "refuse", "retry", "return", "credit", "returned"}

TypeOK ==
  /\ clock \in 0..MaxWindow /\ current \in 0..MaxWindow
  /\ seq \in Nat /\ roller \in Cpus \cup {NoCpu}
  /\ index \in [Scopes -> 0..MaxWindow]
  /\ committed \in [Scopes -> 0..(Width - 1)]
  /\ pc \in [Cpus -> Steps]
  /\ now \in [Cpus -> 0..MaxWindow] /\ win \in [Cpus -> 0..MaxWindow]
  /\ level \in [Cpus -> Scopes] /\ done \in [Cpus -> 0..Depth]
  /\ seen \in [Cpus -> Nat] /\ has \in [Cpus -> BOOLEAN]
  /\ landed \in [Cpus -> SUBSET Scopes]

Writing(c) == pc[c] \in {"open", "stamp", "close"}

\* ROLL admits one roller, and ROLL_SEQ is odd exactly while it writes.
RollOrderly ==
  /\ \A c \in Cpus : (Writing(c) \/ pc[c] = "roll") => roller = c
  /\ (seq % 2 = 1) <=> (\E c \in Cpus : Writing(c))

Reserving(c) == pc[c] \in {"window", "add", "check"}

\* While no roll has moved the sequence a reservation saw, every level it has
\* climbed still counts it.
Climbed(c) ==
  /\ seen[c] <= seq /\ seen[c] % 2 = 0
  /\ pc[c] \in {"add", "check"} /\ seen[c] = seq => index[1] = now[c]
  /\ pc[c] = "add" /\ seen[c] = seq => 1..(level[c] - 1) \subseteq landed[c]
  /\ pc[c] = "check" /\ seen[c] = seq => landed[c] = Scopes

\* A reservation starts from the bottom of the chain, each time it is tried.
FromBottom(c) == pc[c] \in {"start", "window"} => level[c] = 1

IInv ==
  /\ TypeOK /\ RollOrderly
  /\ \A c \in Cpus : FromBottom(c) /\ (Reserving(c) => Climbed(c))

\* The step in which reserve_cpu returns true.
Takes(c) == ~has[c] /\ has'[c]

\* A reservation that reserve_cpu reports as taken is counted at that moment in
\* its scope and in every ancestor, and its scope is in the window it asked for:
\* no roll on another processor overwrote one level of it on the way.
Whole == [][\A c \in Cpus : Takes(c) => landed[c] = Scopes /\ index[1] = now[c]]_vars

\* Every scheduling decision ends: no processor waits for ever on ROLL, on an odd
\* ROLL_SEQ, or in the retry loop of reserve_cpu.
DecisionEnds == \A c \in Cpus : pc[c] # "idle" ~> pc[c] = "idle"

=============================================================================
