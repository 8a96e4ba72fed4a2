-------------------------- MODULE InvocationsSteps -------------------------
(***************************************************************************)
(* What the holds of the invocation path do to the table and to the        *)
(* threads, for any number of clients, receiving threads and records.      *)
(*                                                                         *)
(* The inductive invariant IInv has three parts.  Records: the records,    *)
(* the queue, the free list, the tickets, the bindings and the accounts    *)
(* agree. Calls: each thread is where its call, its claim and the wakes it *)
(* is owed allow it to be.  Reached: while a message waits, a receiver of  *)
(* a live domain is awake.  The lemmas are stated for any table and any    *)
(* threads, so that an action that runs several of them in one hold is     *)
(* proved by their composition.  The flush and an expired wait close the   *)
(* module.                                                                 *)
(***************************************************************************)
EXTENDS TLAPS, FiniteSetTheorems, Invocations

-----------------------------------------------------------------------------
(* Queues and the walk of `withdraw`.                                      *)

\* A non-empty set of numbers has a least member.
LEMMA LeastNat ==
  ASSUME NEW S \in SUBSET Nat, S # {}
  PROVE  \E x \in S : \A y \in S : x <= y
<1> DEFINE R == OpToRel(<, Nat)
<1>1. \E x \in S : \A y \in S : ~(<<y, x>> \in R)
  <2>1. IsWellFoundedOn(R, Nat) BY NatLessThanWellFounded
  <2>2. S \subseteq Nat OBVIOUS
  <2> HIDE DEF R
  <2> QED BY <2>1, <2>2, WFMin, Zenon
<1>2. PICK x \in S : \A y \in S : ~(<<y, x>> \in OpToRel(<, Nat)) BY <1>1
<1>3. SUFFICES ASSUME NEW y \in S PROVE x <= y OBVIOUS
<1>4. ~(<<y, x>> \in OpToRel(<, Nat)) BY <1>2
<1>5. ~(y < x) BY <1>4 DEF OpToRel
<1> QED BY <1>5

\* A set of numbers with zero in it and with the successor of each of its members
\* below n holds every number up to n.
LEMMA Counting ==
  ASSUME NEW n \in Nat, NEW S, 0 \in S,
         \A m \in 0 .. n : m # n /\ m \in S => m + 1 \in S
  PROVE  \A m \in 0 .. n : m \in S
<1> SUFFICES ASSUME NEW z \in 0 .. n, z \notin S PROVE FALSE OBVIOUS
<1>1. {m \in 0 .. n : m \notin S} \in SUBSET Nat OBVIOUS
<1>2. {m \in 0 .. n : m \notin S} # {} OBVIOUS
<1>3. PICK x \in {m \in 0 .. n : m \notin S} : \A y \in {m \in 0 .. n : m \notin S} : x <= y
  BY <1>1, <1>2, LeastNat, Zenon
<1>4. x # 0 /\ x \in 1 .. n BY <1>3
<1>5. x - 1 \in 0 .. n /\ x - 1 # n /\ x - 1 < x /\ (x - 1) + 1 = x BY <1>4
<1>6. x - 1 \in S BY <1>3, <1>5
<1> QED BY <1>3, <1>5, <1>6

\* What a queue holds after a message is linked at its end.
LEMMA Linked ==
  ASSUME NEW q \in Seq(Invs), IsInjective(q), NEW i \in Invs, i \notin Range(q)
  PROVE  /\ Append(q, i) \in Seq(Invs) /\ IsInjective(Append(q, i))
         /\ Range(Append(q, i)) = Range(q) \cup {i}
<1>1. /\ Append(q, i) \in Seq(Invs) /\ Len(Append(q, i)) = Len(q) + 1
      /\ \A n \in 1 .. Len(q) : Append(q, i)[n] = q[n]
      /\ Append(q, i)[Len(q) + 1] = i
  OBVIOUS
<1>2. /\ Len(q) \in Nat /\ DOMAIN q = 1 .. Len(q)
      /\ DOMAIN Append(q, i) = 1 .. Len(q) + 1
  BY <1>1
<1>3. Range(Append(q, i)) = Range(q) \cup {i}
  BY <1>1, <1>2 DEF Range
<1>4. IsInjective(Append(q, i))
  <2> SUFFICES ASSUME NEW a \in 1 .. Len(q) + 1, NEW b \in 1 .. Len(q) + 1,
                      Append(q, i)[a] = Append(q, i)[b]
               PROVE  a = b
    BY <1>2 DEF IsInjective
  <2>1. a # Len(q) + 1 => a \in 1 .. Len(q) /\ q[a] # i BY <1>2 DEF Range
  <2>2. b # Len(q) + 1 => b \in 1 .. Len(q) /\ q[b] # i BY <1>2 DEF Range
  <2> QED BY <1>1, <1>2, <2>1, <2>2 DEF IsInjective
<1> QED BY <1>1, <1>3, <1>4

\* What it holds after its oldest message is taken.
LEMMA Unlinked ==
  ASSUME NEW q \in Seq(Invs), IsInjective(q), q # <<>>
  PROVE  /\ Head(q) \in Range(q) /\ Tail(q) \in Seq(Invs) /\ IsInjective(Tail(q))
         /\ Range(Tail(q)) = Range(q) \ {Head(q)}
<1>1. /\ Tail(q) \in Seq(Invs) /\ Len(Tail(q)) = Len(q) - 1
      /\ \A n \in 1 .. Len(Tail(q)) : Tail(q)[n] = q[n + 1]
  OBVIOUS
<1>2. /\ Len(q) \in Nat /\ DOMAIN q = 1 .. Len(q) /\ Len(q) # 0
      /\ DOMAIN Tail(q) = 1 .. Len(q) - 1 /\ Head(q) = q[1]
  BY <1>1
<1>3. IsInjective(Tail(q)) BY <1>1, <1>2 DEF IsInjective
<1>4. \A n \in 2 .. Len(q) : n - 1 \in 1 .. Len(q) - 1 /\ Tail(q)[n - 1] = q[n]
  BY <1>1, <1>2
<1>5. \A n \in 2 .. Len(q) : q[n] # q[1] BY <1>2 DEF IsInjective
<1>6. Range(q) \ {q[1]} \subseteq Range(Tail(q))
  <2> SUFFICES ASSUME NEW n \in 1 .. Len(q), q[n] # q[1] PROVE q[n] \in Range(Tail(q))
    BY <1>2 DEF Range
  <2>1. n \in 2 .. Len(q) BY <1>2
  <2> QED BY <1>2, <1>4, <2>1, Zenon DEF Range
<1>7. Range(Tail(q)) \subseteq Range(q) \ {q[1]}
  <2> SUFFICES ASSUME NEW n \in 1 .. Len(q) - 1 PROVE Tail(q)[n] \in Range(q) \ {q[1]}
    BY <1>2 DEF Range
  <2>1. n + 1 \in 2 .. Len(q) /\ Tail(q)[n] = q[n + 1] BY <1>1, <1>2
  <2> QED BY <1>2, <1>5, <2>1 DEF Range
<1>8. Head(q) \in Range(q) BY <1>2 DEF Range
<1> QED BY <1>1, <1>2, <1>3, <1>6, <1>7, <1>8

\* The walk of `withdraw` along the first n places of a queue.
Walk(f, q, set, n) ==
  f = [m \in 0 .. n |-> IF m = 0 THEN <<>>
                        ELSE IF q[m] \in set THEN f[m - 1] ELSE Append(f[m - 1], q[m])]

\* The messages of those places.
Upto(q, n) == {q[m] : m \in 1 .. n}

\* They are records, and no two of them the same.
Distinct(q, n) ==
  /\ \A m \in 1 .. n : q[m] \in Invs
  /\ \A a, b \in 1 .. n : q[a] = q[b] => a = b

\* `withdraw`: the walk has a value at every place.
LEMMA WalkDefined ==
  ASSUME NEW q, NEW n \in Nat, NEW set
  PROVE  \E f : Walk(f, q, set, n)
<1> DEFINE S == {k \in Nat : \E f : Walk(f, q, set, k)}
<1>1. 0 \in S
  <2>1. Walk([m \in 0 .. 0 |-> <<>>], q, set, 0) BY DEF Walk
  <2> QED BY <2>1
<1>2. ASSUME NEW k \in 0 .. n, k \in S PROVE k + 1 \in S
  <2>1. PICK f : Walk(f, q, set, k) BY <1>2
  <2>2. PICK g : g = [m \in 0 .. k + 1 |->
                        IF m # k + 1 THEN f[m]
                        ELSE IF q[k + 1] \in set THEN f[k] ELSE Append(f[k], q[k + 1])]
    BY Zenon
  <2>3. \A m \in 0 .. k : f[m] = IF m = 0 THEN <<>>
                                  ELSE IF q[m] \in set THEN f[m - 1]
                                  ELSE Append(f[m - 1], q[m])
    BY <2>1, Zenon DEF Walk
  <2>4. \A m \in 0 .. k : g[m] = f[m] /\ m # k + 1 BY <2>2
  <2>5. ASSUME NEW m \in 0 .. k + 1
        PROVE  g[m] = IF m = 0 THEN <<>>
                      ELSE IF q[m] \in set THEN g[m - 1] ELSE Append(g[m - 1], q[m])
    <3>1. CASE m = k + 1
      <4>1. k \in 0 .. k /\ m - 1 = k /\ m # 0 BY <3>1
      <4> QED BY <2>2, <2>4, <3>1, <4>1
    <3>2. CASE m # k + 1
      <4>1. m \in 0 .. k /\ (m # 0 => m - 1 \in 0 .. k) BY <3>2
      <4> QED BY <2>3, <2>4, <4>1
    <3> QED BY <3>1, <3>2
  <2>6. g = [m \in 0 .. k + 1 |-> g[m]] BY <2>2
  <2>7. Walk(g, q, set, k + 1) BY <2>5, <2>6, Zenon DEF Walk
  <2> QED BY <2>7
<1>3. n \in S
  <2> HIDE DEF S
  <2> QED BY <1>1, <1>2, Counting
<1> QED BY <1>3

\* `withdraw`: what the walk has kept at the end of the queue.
LEMMA WalkKeeps ==
  ASSUME NEW q, NEW n \in Nat, NEW set, NEW f, Walk(f, q, set, n),
         Distinct(q, n)
  PROVE  /\ f[n] \in Seq(Invs) /\ IsInjective(f[n])
         /\ Range(f[n]) = Upto(q, n) \ set
<1> DEFINE Good(k) == /\ f[k] \in Seq(Invs) /\ IsInjective(f[k])
                      /\ Range(f[k]) = Upto(q, k) \ set
           S == {k \in 0 .. n : Good(k)}
<1>1. 0 \in S
  <2>1. f[0] = <<>> BY DEF Walk
  <2>2. Range(<<>>) = {} /\ IsInjective(<<>>) BY DEF Range, IsInjective
  <2>3. <<>> \in Seq(Invs) OBVIOUS
  <2>4. Upto(q, 0) = {} BY DEF Upto
  <2>5. Good(0) BY <2>1, <2>2, <2>3, <2>4
  <2> HIDE DEF Good
  <2> QED BY <2>5
<1>2. ASSUME NEW k \in 0 .. n, k # n, k \in S PROVE k + 1 \in S
  <2>1. k + 1 \in 1 .. n /\ k + 1 \in 0 .. n /\ k + 1 # 0 /\ (k + 1) - 1 = k BY <1>2
  <2>2. f[k + 1] = IF q[k + 1] \in set THEN f[k] ELSE Append(f[k], q[k + 1])
    BY <2>1, Zenon DEF Walk
  <2>3. Upto(q, k + 1) = Upto(q, k) \cup {q[k + 1]} BY DEF Upto
  <2>4. q[k + 1] \notin Upto(q, k) BY <2>1 DEF Upto, Distinct
  <2>5. Good(k) BY <1>2
  <2>6. q[k + 1] \in Invs BY <2>1 DEF Distinct
  <2>7. CASE q[k + 1] \in set
    <3>1. f[k + 1] = f[k] BY <2>2, <2>7
    <3>2. Good(k + 1) BY <2>3, <2>5, <2>7, <3>1
    <3> QED BY <2>1, <3>2
  <2>8. CASE q[k + 1] \notin set
    <3>1. q[k + 1] \notin Range(f[k]) BY <2>4, <2>5
    <3>2. f[k + 1] = Append(f[k], q[k + 1]) BY <2>2, <2>8
    <3>3. /\ f[k + 1] \in Seq(Invs) /\ IsInjective(f[k + 1])
          /\ Range(f[k + 1]) = Range(f[k]) \cup {q[k + 1]}
      BY <2>5, <2>6, <3>1, <3>2, Linked
    <3>4. Good(k + 1) BY <2>3, <2>5, <2>8, <3>3
    <3> QED BY <2>1, <3>4
  <2> QED BY <2>7, <2>8
<1>3. n \in S
  <2> HIDE DEF S
  <2> QED BY <1>1, <1>2, Counting
<1> QED BY <1>3

\* `withdraw` unlinks the messages it is given and no other, and keeps what is
\* left queued once.
LEMMA WithdrawnIs ==
  ASSUME NEW q \in Seq(Invs), IsInjective(q), NEW set
  PROVE  /\ Withdrawn(q, set) \in Seq(Invs) /\ IsInjective(Withdrawn(q, set))
         /\ Range(Withdrawn(q, set)) = Range(q) \ set
<1>1. Len(q) \in Nat /\ DOMAIN q = 1 .. Len(q) /\ \A m \in 1 .. Len(q) : q[m] \in Invs
  OBVIOUS
<1>2. \E f : Walk(f, q, set, Len(q)) BY <1>1, WalkDefined, Zenon
<1>3. PICK f : Walk(f, q, set, Len(q)) /\ Withdrawn(q, set) = f[Len(q)]
  <2>1. Withdrawn(q, set) = (CHOOSE f : Walk(f, q, set, Len(q)))[Len(q)]
    BY DEF Withdrawn, Walk
  <2> QED BY <1>2, <2>1, Zenon
<1>4. \A a, b \in 1 .. Len(q) : q[a] = q[b] => a = b BY <1>1 DEF IsInjective
<1>5. Range(q) = Upto(q, Len(q)) BY <1>1 DEF Range, Upto
<1>6. Distinct(q, Len(q)) BY <1>1, <1>4 DEF Distinct
<1>7. /\ f[Len(q)] \in Seq(Invs) /\ IsInjective(f[Len(q)])
      /\ Range(f[Len(q)]) = Upto(q, Len(q)) \ set
  BY <1>1, <1>3, <1>6, WalkKeeps
<1> QED BY <1>3, <1>5, <1>7

-----------------------------------------------------------------------------
(* The invariant, and what ends a record.                                  *)

\* A ticket names a record and the generation it was made for; a field that holds one
\* may hold none.
Pairs == Invs \X Nat
Handles == Pairs \cup {NoTicket}

\* A record of the invocation table, as `admit` writes it.
RecordType ==
  [state : States, gen : Nat, origin : Clients \cup {Nobody},
   waiter : Clients \cup {Nobody}, kind : {"REQUEST", "FAULT"}, effect : Effects,
   charged : BOOLEAN, refs : Nat, replied : BOOLEAN, stored : BOOLEAN]

\* Where a calling thread and a receiving thread can be.
ClientPcs == {"user", "admitted", "blocked", "woken", "discharge", "collect", "dead"}
ServerPcs == {"user", "blocked", "answer", "discharge", "collect", "dead"}

\* A thread: its program counter, the ticket of its call, its wait and what `claim_handoff`
\* and `reply` left in it.
ThreadType ==
  [pc : ClientPcs \cup ServerPcs, at : Handles, wait : {"None", "Reply", "Receive"},
   aux : Handles, peer : Clients \cup {Nobody}, got : Handles, bound : Handles]

\* The accounts of the clients' scope.
ScopeType == [open : BOOLEAN, invocations : Nat, effects : Int, bytes : Int]

\* The table, the free list, the queue, the tickets and the accounts hold
\* values of their types.
Typed(iv, fr, q, tk, sc) ==
  /\ iv \in [Invs -> RecordType] /\ fr \in SUBSET Invs /\ q \in Seq(Invs)
  /\ tk \in SUBSET Pairs /\ sc \in ScopeType

\* A record that is not in use charges nobody, and one that is queued has no answer.
Settled(r) ==
  /\ r.state \in {"Empty", "Resolved"} => ~r.charged /\ r.effect # "Admitted"
  /\ r.replied => r.state # "Admitted"

\* The queue holds each admitted record once, and no other.
Queued(iv, q) ==
  IsInjective(q) /\ Range(q) = {i \in Invs : iv[i].state = "Admitted"}

\* A record that a ticket names is in use and of the ticket's generation.
Named(iv, tk) == iv[tk[1]].state # "Empty" /\ iv[tk[1]].gen = tk[2]

\* Tickets name delivered records and bindings name records in use.
Issued(iv, tk, t) ==
  /\ \A k \in tk : Named(iv, k) /\ iv[k[1]].state # "Admitted"
  /\ \A s \in Servers : t[s].bound # NoTicket => t[s].bound \in Pairs /\ Named(iv, t[s].bound)

\* The tickets and the worker bindings that name record i.
TicketsOf(tk, i) == {k \in tk : k[1] = i}
BoundTo(t, i) == {s \in Servers : t[s].bound # NoTicket /\ t[s].bound[1] = i}

\* Each of them is counted by its record.
Counted(iv, tk, t) ==
  \A i \in Invs :
    Cardinality(TicketsOf(tk, i)) + Cardinality(BoundTo(t, i)) <= iv[i].refs

\* The scope's accounts are those of its undischarged records.
Accounts(iv, sc) ==
  /\ sc.effects = Cardinality({i \in Invs : iv[i].effect = "Admitted"})
  /\ sc.bytes = Cardinality({i \in Invs : iv[i].charged})
  /\ sc.invocations <= Cardinality({i \in Invs : Live(iv[i])})

\* The records, the queue, the free list, the tickets and the accounts agree.
Records(iv, fr, q, tk, t, sc) ==
  /\ Typed(iv, fr, q, tk, sc)
  /\ \A i \in Invs : Settled(iv[i])
  /\ Queued(iv, q)
  /\ fr = {i \in Invs : iv[i].state = "Empty"}
  /\ Issued(iv, tk, t)
  /\ Counted(iv, tk, t)
  /\ Accounts(iv, sc)

\* A receiving thread that answers or discharges works on a ticket that is out.
Servant(t, tk, s) ==
  /\ t[s].pc \in ServerPcs /\ t[s].wait # "Reply"
  /\ t[s].pc \in InHold <=> t[s].at # NoTicket
  /\ t[s].pc \in {"answer", "discharge"} => t[s].at \in tk
  /\ t[s].peer # Nobody => t[s].pc \in {"discharge", "collect"}

\* The caller a replier has claimed sleeps on the call that was answered.
Replies(t, ow, s) ==
  t[s].peer # Nobody =>
    /\ t[t[s].peer].pc = "blocked" /\ t[t[s].peer].wait = "None"
    /\ t[t[s].peer].at = t[s].at /\ t[t[s].peer].got = t[s].at
    /\ t[s].peer \notin ow

\* The answer to caller c's call is with the caller: its ticket came back with the wake, or
\* a replier that has claimed the caller is about to wake it.
InPlace(iv, t, c) ==
  \/ t[c].aux = t[c].at
  \/ t[c].pc = "blocked" /\ \E s \in Servers : t[s].peer = c

\* A caller: its call is of the record's generation or an earlier one; it is owed no wake
\* while it runs, and asleep and claimed it has one coming; an answer that reached its buffer is the
\* one to its call.
Caller(iv, t, ow, c) ==
  /\ t[c].pc \in ClientPcs /\ t[c].wait # "Receive"
  /\ t[c].bound = NoTicket /\ t[c].peer = Nobody
  /\ t[c].pc \in {"user", "dead"} <=> t[c].at = NoTicket
  /\ t[c].at # NoTicket => t[c].at[2] <= iv[t[c].at[1]].gen
  /\ Crossing \/ t[c].got \in {NoTicket, t[c].at}
  /\ t[c].aux \in {NoTicket, t[c].at}
  /\ t[c].aux # NoTicket => t[c].got = t[c].at
  /\ t[c].pc = "admitted" => t[c].got = NoTicket
  /\ t[c].wait = "Reply" => /\ t[c].pc = "blocked" /\ t[c].got = NoTicket
                            /\ t[c].aux = NoTicket
  /\ c \in ow => t[c].pc = "blocked" /\ t[c].wait = "None"
  /\ t[c].pc = "blocked" /\ t[c].wait = "None" =>
       c \in ow \/ \E s \in Servers : t[s].peer = c
  /\ t[c].pc = "discharge" => iv[t[c].at[1]].state # "Admitted"
  /\ /\ ~Crossing /\ t[c].pc \in {"admitted", "blocked", "woken"}
     /\ iv[t[c].at[1]].gen = t[c].at[2]
     /\ iv[t[c].at[1]].replied /\ ~iv[t[c].at[1]].stored
     => t[c].pc # "admitted" /\ InPlace(iv, t, c)

\* No two callers are in the same call, and no two receiving threads use one ticket.
Apart(t) ==
  /\ \A c, d \in Clients : c # d /\ t[c].at # NoTicket => t[c].at # t[d].at
  /\ \A s, r \in Servers : s # r /\ t[s].at # NoTicket => t[s].at # t[r].at

\* The threads are in order, with the records and the wakes that are owed.
Calls(iv, t, tk, ow) ==
  /\ t \in [Threads -> ThreadType] /\ ow \in SUBSET Threads
  /\ \A s \in Servers : Servant(t, tk, s) /\ Replies(t, ow, s)
  /\ \A c \in Clients : Caller(iv, t, ow, c)
  /\ Apart(t)

\* A waiting receiver has its bit in the channel, and while messages are queued for a live
\* domain one of its threads is not waiting.
Reached(q, ch, t, up) ==
  /\ ch \in [open : BOOLEAN, receivers : SUBSET Servers]
  /\ \A s \in Servers : t[s].pc = "blocked" /\ t[s].wait = "Receive" => s \in ch.receivers
  /\ q # <<>> /\ up = "Runnable" =>
       \E s \in Servers : ~(t[s].pc = "blocked" /\ t[s].wait = "Receive")

\* The inductive invariant.
IInv ==
  /\ Records(inv, free, queue, tickets, th, scope)
  /\ Calls(inv, th, tickets, owed)
  /\ Reached(queue, channel, th, domain[Server])
  /\ domain \in [Clients \cup {Server} -> {"Runnable", "Stopping", "Faulted"}]
----------------------------------------------------------------------------
\* The records, the queue and the accounts.

\* The records of a set are finite in number.
LEMMA Few ==
  ASSUME NEW T \in SUBSET Invs
  PROVE  IsFiniteSet(T) /\ Cardinality(T) \in Nat
BY FS_Subset, FS_CardinalityType, InvocationsAssumption

\* Removing a set from another lowers its number by what they share.
LEMMA Fewer ==
  ASSUME NEW T \in SUBSET Invs, NEW U \in SUBSET Invs
  PROVE  /\ Cardinality(T \ U) = Cardinality(T) - Cardinality(T \cap U)
         /\ Cardinality(T \cap U) <= Cardinality(U)
<1>1. IsFiniteSet(T) /\ IsFiniteSet(U) BY Few
<1>2. Cardinality(T \ U) = Cardinality(T) - Cardinality(T \cap U)
  BY <1>1, FS_Difference
<1>3. T \cap U \in SUBSET U OBVIOUS
<1>4. Cardinality(T \cap U) <= Cardinality(U) BY <1>1, <1>3, FS_Subset
<1> QED BY <1>2, <1>4

\* `release_invocation`: what a discharged record keeps and what it gives back.
LEMMA SpentIs ==
  ASSUME NEW r \in RecordType
  PROVE  /\ Spent(r) \in RecordType /\ Spent(r).state = "Resolved" /\ ~Spent(r).charged
         /\ Spent(r).effect # "Admitted" /\ Spent(r).gen = r.gen /\ Spent(r).refs = r.refs
         /\ Spent(r).replied = r.replied /\ Spent(r).stored = r.stored
         /\ Spent(r).waiter = r.waiter /\ Spent(r).origin = r.origin
BY ZenonT(30) DEF Spent, RecordType, States, Effects

\* `collect_invocation`: what a record that is collected keeps, and that any other is
\* left as it was.
LEMMA CollectedIs ==
  ASSUME NEW r \in RecordType
  PROVE  /\ Collected(r) \in RecordType /\ Collected(r).gen = r.gen
         /\ Collected(r).replied = r.replied /\ Collected(r).stored = r.stored
         /\ Collectable(r) => /\ Collected(r).state = "Empty" /\ ~Collected(r).charged
                              /\ Collected(r).effect = "None" /\ Collected(r).refs = 0
         /\ ~Collectable(r) => Collected(r) = r
<1>1. CASE Collectable(r)
  <2>1. Collected(r) = [Record EXCEPT !.gen = r.gen, !.replied = r.replied, !.stored = r.stored]
    BY <1>1 DEF Collected
  <2>2. r.gen \in Nat /\ r.replied \in BOOLEAN /\ r.stored \in BOOLEAN BY DEF RecordType
  <2>3. Record \in RecordType BY DEF Record, RecordType, States, Effects
  <2> QED BY <1>1, <2>1, <2>2, <2>3, Zenon DEF Record, RecordType
<1>2. CASE ~Collectable(r) BY <1>2 DEF Collected
<1> QED BY <1>1, <1>2

\* `release_invocation`: discharging records that are in use, out of the queue with
\* the ones that are still in it, keeps the table and its accounts.
LEMMA SpendKeeps ==
  ASSUME NEW iv, NEW fr, NEW q, NEW tk, NEW t, NEW sc, Records(iv, fr, q, tk, t, sc),
         NEW set \in SUBSET Invs, \A i \in set : iv[i].state # "Empty",
         NEW q2 \in Seq(Invs), IsInjective(q2), Range(q2) = Range(q) \ set,
         NEW iv2, iv2 = [i \in Invs |-> IF i \in set THEN Spent(iv[i]) ELSE iv[i]]
  PROVE  Records(iv2, fr, q2, tk, t, Returned(sc, iv, set))
<1>1. \A i \in Invs : iv[i] \in RecordType BY DEF Records, Typed
<1>2. \A i \in Invs :
        /\ iv2[i] \in RecordType /\ iv2[i].gen = iv[i].gen /\ iv2[i].refs = iv[i].refs
        /\ iv2[i].replied = iv[i].replied
        /\ i \in set => /\ iv2[i].state = "Resolved" /\ ~iv2[i].charged
                        /\ iv2[i].effect # "Admitted"
        /\ i \notin set => iv2[i] = iv[i]
  BY <1>1, SpentIs
<1>3. iv2 \in [Invs -> RecordType] BY <1>2
<1> HIDE DEF Spent
<1>4. Accounts(iv2, Returned(sc, iv, set)) /\ Returned(sc, iv, set) \in ScopeType
  <2> DEFINE E == {i \in Invs : iv[i].effect = "Admitted"}
             C == {i \in Invs : iv[i].charged}
             L == {i \in Invs : Live(iv[i])}
  <2>1. /\ {i \in Invs : iv2[i].effect = "Admitted"} = E \ set
        /\ {i \in Invs : iv2[i].charged} = C \ set
        /\ {i \in Invs : Live(iv2[i])} = L \ set
    BY <1>2 DEF Live
  <2>2. /\ {i \in set : iv[i].effect = "Admitted"} = E \cap set
        /\ {i \in set : iv[i].charged} = C \cap set
    OBVIOUS
  <2>3. E \in SUBSET Invs /\ C \in SUBSET Invs /\ L \in SUBSET Invs OBVIOUS
  <2>4. sc.effects = Cardinality(E) /\ sc.bytes = Cardinality(C) /\ sc.invocations <= Cardinality(L)
    BY DEF Records, Accounts
  <2>5. sc \in ScopeType BY DEF Records, Typed
  <2> HIDE DEF E, C, L
  <2>6. /\ Cardinality(E \ set) = Cardinality(E) - Cardinality(E \cap set)
        /\ Cardinality(C \ set) = Cardinality(C) - Cardinality(C \cap set)
        /\ Cardinality(L \ set) = Cardinality(L) - Cardinality(L \cap set)
        /\ Cardinality(L \cap set) <= Cardinality(set)
    BY <2>3, Fewer, Zenon
  <2>7. /\ Cardinality(E) \in Nat /\ Cardinality(C) \in Nat /\ Cardinality(L) \in Nat
        /\ Cardinality(set) \in Nat /\ Cardinality(L \cap set) \in Nat
        /\ Cardinality(E \cap set) \in Nat /\ Cardinality(C \cap set) \in Nat
        /\ Cardinality(L \ set) \in Nat
    BY <2>3, Few
  <2>8. /\ Returned(sc, iv, set).invocations =
               IF Cardinality(set) > sc.invocations THEN 0 ELSE sc.invocations - Cardinality(set)
        /\ Returned(sc, iv, set).effects = sc.effects - Cardinality(E \cap set)
        /\ Returned(sc, iv, set).bytes = sc.bytes - Cardinality(C \cap set)
    BY <2>2, <2>5, Zenon DEF Returned, ScopeType
  <2>9. sc.invocations \in Nat BY <2>5 DEF ScopeType
  <2>10. Returned(sc, iv, set) \in ScopeType
    <3>1. PICK n \in Nat, e \in Int, b \in Int :
            Returned(sc, iv, set) = [sc EXCEPT !.invocations = n, !.effects = e, !.bytes = b]
      <4>1. (IF Cardinality(set) > sc.invocations THEN 0 ELSE sc.invocations - Cardinality(set)) \in Nat
        BY <2>7, <2>9
      <4>2. sc.effects - Cardinality(E \cap set) \in Int /\ sc.bytes - Cardinality(C \cap set) \in Int
        BY <2>4, <2>7
      <4> QED BY <2>2, <4>1, <4>2, Zenon DEF Returned
    <3> QED BY <2>5, <3>1, Zenon DEF ScopeType
  <2>11. Returned(sc, iv, set).invocations <= Cardinality(L \ set)
    <3>1. CASE Cardinality(set) > sc.invocations BY <2>7, <2>8, <3>1
    <3>2. CASE ~(Cardinality(set) > sc.invocations)
      <4>1. Cardinality(L \cap set) <= Cardinality(set) BY <2>6
      <4>2. sc.invocations - Cardinality(set) <= Cardinality(L) - Cardinality(L \cap set)
        BY <2>4, <2>7, <2>9, <4>1
      <4> QED BY <2>6, <2>8, <3>2, <4>2, Zenon
    <3> QED BY <3>1, <3>2
  <2> QED BY <2>1, <2>4, <2>6, <2>8, <2>10, <2>11, Zenon DEF Accounts
<1>5. Typed(iv2, fr, q2, tk, Returned(sc, iv, set)) BY <1>3, <1>4 DEF Records, Typed
<1>6. \A i \in Invs : Settled(iv2[i]) BY <1>2 DEF Records, Settled
<1>7. Queued(iv2, q2) BY <1>2 DEF Records, Queued
<1>8. fr = {i \in Invs : iv2[i].state = "Empty"} BY <1>2 DEF Records
<1>9. Issued(iv2, tk, t)
  <2>1. \A k \in Pairs : k[1] \in Invs BY DEF Pairs
  <2> QED BY <1>2, <2>1 DEF Records, Issued, Named, Typed
<1>10. Counted(iv2, tk, t) BY <1>2 DEF Records, Counted
<1> QED BY <1>4, <1>5, <1>6, <1>7, <1>8, <1>9, <1>10, Zenon DEF Records

\* `collect_invocation` over a set of records: those it frees go to the free list, and
\* no ticket and no binding names one of them.
LEMMA CollectKeeps ==
  ASSUME NEW iv, NEW fr, NEW q, NEW tk, NEW t, NEW sc, Records(iv, fr, q, tk, t, sc),
         NEW set \in SUBSET Invs,
         NEW iv2, iv2 = [i \in Invs |-> IF i \in set THEN Collected(iv[i]) ELSE iv[i]],
         NEW fr2, fr2 = fr \cup {i \in set : Collectable(iv[i])}
  PROVE  Records(iv2, fr2, q, tk, t, sc)
<1> DEFINE gone == {i \in set : Collectable(iv[i])}
<1>1. \A i \in Invs : iv[i] \in RecordType BY DEF Records, Typed
<1>2. \A i \in Invs :
        /\ iv2[i] \in RecordType /\ iv2[i].gen = iv[i].gen
        /\ iv2[i].replied = iv[i].replied
        /\ i \in gone => /\ iv2[i].state = "Empty" /\ ~iv2[i].charged
                         /\ iv2[i].effect = "None" /\ iv2[i].refs = 0
        /\ i \notin gone => iv2[i] = iv[i]
  BY <1>1, CollectedIs
<1>3. \A i \in gone : /\ i \in Invs /\ iv[i].state = "Resolved" /\ iv[i].refs = 0
                      /\ ~iv[i].charged /\ iv[i].effect # "Admitted"
  BY DEF Collectable, Records, Settled
<1>4. \A i \in gone : TicketsOf(tk, i) = {} /\ BoundTo(t, i) = {}
  <2> SUFFICES ASSUME NEW i \in gone PROVE TicketsOf(tk, i) = {} /\ BoundTo(t, i) = {}
    OBVIOUS
  <2>1. TicketsOf(tk, i) \in SUBSET {<<i, iv[i].gen>>}
    BY <1>3 DEF Records, Issued, Named, TicketsOf, Typed, Pairs
  <2>2. IsFiniteSet(TicketsOf(tk, i))
    <3>1. IsFiniteSet({<<i, iv[i].gen>>}) BY FS_Singleton, Zenon
    <3> QED BY <2>1, <3>1, FS_Subset
  <2>3. IsFiniteSet(BoundTo(t, i)) BY FS_Subset, InvocationsAssumption DEF BoundTo
  <2>4. Cardinality(TicketsOf(tk, i)) \in Nat /\ Cardinality(BoundTo(t, i)) \in Nat
    BY <2>2, <2>3, FS_CardinalityType
  <2>5. Cardinality(TicketsOf(tk, i)) + Cardinality(BoundTo(t, i)) <= 0
    BY <1>3 DEF Records, Counted
  <2>6. Cardinality(TicketsOf(tk, i)) = 0 /\ Cardinality(BoundTo(t, i)) = 0
    BY <2>4, <2>5
  <2> QED BY <2>2, <2>3, <2>6, FS_EmptySet
<1> HIDE DEF gone
<1>5. iv2 \in [Invs -> RecordType] BY <1>2
<1>6. Typed(iv2, fr2, q, tk, sc) BY <1>5 DEF Records, Typed
<1>7. \A i \in Invs : Settled(iv2[i])
  BY <1>2, <1>3 DEF Records, Settled
<1>8. Queued(iv2, q) BY <1>2, <1>3 DEF Records, Queued
<1>9. fr2 = {i \in Invs : iv2[i].state = "Empty"} BY <1>2, <1>3 DEF Records, gone
<1>10. Issued(iv2, tk, t)
  <2>1. \A k \in Pairs : k[1] \in Invs BY DEF Pairs
  <2>2. \A k \in tk : k \in Pairs /\ k[1] \notin gone BY <1>4 DEF TicketsOf, Records, Typed
  <2>3. \A s \in Servers : t[s].bound # NoTicket => t[s].bound[1] \notin gone
    BY <1>4 DEF BoundTo
  <2> QED BY <1>2, <2>1, <2>2, <2>3 DEF Records, Issued, Named
<1>11. Counted(iv2, tk, t)
  <2> SUFFICES ASSUME NEW i \in Invs
               PROVE  Cardinality(TicketsOf(tk, i)) + Cardinality(BoundTo(t, i)) <= iv2[i].refs
    BY DEF Counted
  <2>1. CASE i \in gone
    <3>1. Cardinality({}) = 0 BY FS_EmptySet
    <3>2. Cardinality(TicketsOf(tk, i)) = 0 /\ Cardinality(BoundTo(t, i)) = 0
      BY <1>4, <2>1, <3>1, SMTT(30)
    <3>3. iv2[i].refs = 0 BY <1>2, <2>1
    <3> QED BY <3>2, <3>3
  <2>2. CASE i \notin gone BY <1>2, <2>2, Zenon DEF Records, Counted
  <2> QED BY <2>1, <2>2
<1>12. Accounts(iv2, sc)
  <2>1. /\ {i \in Invs : iv2[i].effect = "Admitted"} = {i \in Invs : iv[i].effect = "Admitted"}
        /\ {i \in Invs : iv2[i].charged} = {i \in Invs : iv[i].charged}
        /\ {i \in Invs : Live(iv2[i])} = {i \in Invs : Live(iv[i])}
    BY <1>2, <1>3 DEF Live
  <2> QED BY <2>1, Zenon DEF Records, Accounts
<1> QED BY <1>6, <1>7, <1>8, <1>9, <1>10, <1>11, <1>12 DEF Records

\* A step that moves no record between the table, the queue and the accounts keeps
\* their agreement, when its tickets and bindings still are counted.
LEMMA RecordsKept ==
  ASSUME NEW iv, NEW fr, NEW q, NEW tk, NEW t, NEW sc, Records(iv, fr, q, tk, t, sc),
         NEW iv2 \in [Invs -> RecordType],
         \A i \in Invs : /\ iv2[i].state = iv[i].state /\ iv2[i].effect = iv[i].effect
                         /\ iv2[i].charged = iv[i].charged
                         /\ iv2[i].replied => iv[i].replied \/ iv[i].state # "Admitted",
         NEW tk2 \in SUBSET Pairs, NEW t2, Issued(iv2, tk2, t2), Counted(iv2, tk2, t2)
  PROVE  Records(iv2, fr, q, tk2, t2, sc)
<1>1. Typed(iv2, fr, q, tk2, sc) BY DEF Records, Typed
<1>2. \A i \in Invs : Settled(iv2[i]) BY DEF Records, Settled
<1>3. Queued(iv2, q) BY DEF Records, Queued
<1>4. fr = {i \in Invs : iv2[i].state = "Empty"} BY DEF Records
<1>5. Accounts(iv2, sc)
  <2>1. /\ {i \in Invs : iv2[i].effect = "Admitted"} = {i \in Invs : iv[i].effect = "Admitted"}
        /\ {i \in Invs : iv2[i].charged} = {i \in Invs : iv[i].charged}
        /\ {i \in Invs : Live(iv2[i])} = {i \in Invs : Live(iv[i])}
    BY Zenon DEF Live
  <2> QED BY <2>1, Zenon DEF Records, Accounts
<1> QED BY <1>1, <1>2, <1>3, <1>4, <1>5, Zenon DEF Records

\* A step of the threads that keeps every binding keeps the agreement.
LEMMA BindingsKept ==
  ASSUME NEW iv, NEW fr, NEW q, NEW tk, NEW t, NEW sc, Records(iv, fr, q, tk, t, sc),
         NEW t2, \A s \in Servers : t2[s].bound = t[s].bound
  PROVE  Records(iv, fr, q, tk, t2, sc)
<1>1. Issued(iv, tk, t2) BY Zenon DEF Records, Issued
<1>2. \A i \in Invs : BoundTo(t2, i) = BoundTo(t, i) BY DEF BoundTo
<1>3. Counted(iv, tk, t2) BY <1>2, Zenon DEF Records, Counted
<1> QED BY <1>1, <1>3 DEF Records

\* A step that writes neither the state, the generation nor the counts of a record
\* keeps the agreement: the waiter, an answer to what was received.
LEMMA TableKept ==
  ASSUME NEW iv, NEW fr, NEW q, NEW tk, NEW t, NEW sc, Records(iv, fr, q, tk, t, sc),
         NEW iv2 \in [Invs -> RecordType],
         \A i \in Invs : /\ iv2[i].state = iv[i].state /\ iv2[i].effect = iv[i].effect
                         /\ iv2[i].charged = iv[i].charged
                         /\ iv2[i].gen = iv[i].gen /\ iv2[i].refs = iv[i].refs
                         /\ iv2[i].replied => iv[i].replied \/ iv[i].state # "Admitted"
  PROVE  Records(iv2, fr, q, tk, t, sc)
<1>1. \A k \in Pairs : k[1] \in Invs BY DEF Pairs
<1>2. tk \in SUBSET Pairs BY DEF Records, Typed
<1>3. Issued(iv2, tk, t) BY <1>1, <1>2 DEF Records, Issued, Named
<1>4. Counted(iv2, tk, t) BY Zenon DEF Records, Counted
<1> QED BY <1>2, <1>3, <1>4, RecordsKept

\* The fence of a scope changes no count of it.
LEMMA FencedKeeps ==
  ASSUME NEW iv, NEW fr, NEW q, NEW tk, NEW t, NEW sc, Records(iv, fr, q, tk, t, sc)
  PROVE  Records(iv, fr, q, tk, t, [sc EXCEPT !.open = FALSE])
BY Zenon DEF Records, Typed, Accounts, ScopeType

\* `release_invocation` and `collect_invocation` in one exclusive hold.
LEMMA EndedKeeps ==
  ASSUME NEW iv, NEW fr, NEW q, NEW tk, NEW t, NEW sc, Records(iv, fr, q, tk, t, sc),
         NEW set \in SUBSET Invs, \A i \in set : iv[i].state # "Empty",
         NEW q2 \in Seq(Invs), IsInjective(q2), Range(q2) = Range(q) \ set
  PROVE  Records(Ended(iv, set), fr \cup Freed(iv, set), q2, tk, t, Returned(sc, iv, set))
<1>1. PICK iv1 : iv1 = [i \in Invs |-> IF i \in set THEN Spent(iv[i]) ELSE iv[i]] BY Zenon
<1>2. Records(iv1, fr, q2, tk, t, Returned(sc, iv, set)) BY <1>1, SpendKeeps, Zenon
<1>3. PICK iv2 : iv2 = Ended(iv, set) OBVIOUS
<1>4. PICK fr2 : fr2 = fr \cup Freed(iv, set) BY Zenon
<1>5. iv2 = [i \in Invs |-> IF i \in set THEN Collected(iv1[i]) ELSE iv1[i]]
  BY <1>1, <1>3, Zenon DEF Ended
<1>6. fr2 = fr \cup {i \in set : Collectable(iv1[i])} BY <1>1, <1>4 DEF Freed
<1>7. Records(iv2, fr2, q2, tk, t, Returned(sc, iv, set)) BY <1>2, <1>5, <1>6, CollectKeeps, Zenon
<1> QED BY <1>3, <1>4, <1>7

-----------------------------------------------------------------------------
(* Admission, delivery, effects, references and bindings.                  *)

\* A record has at most one ticket, and as many bindings as threads.
LEMMA References ==
  ASSUME NEW iv, NEW tk \in SUBSET Pairs, NEW t, Issued(iv, tk, t), NEW i
  PROVE  /\ TicketsOf(tk, i) \in SUBSET {<<i, iv[i].gen>>}
         /\ IsFiniteSet(TicketsOf(tk, i)) /\ IsFiniteSet(BoundTo(t, i))
         /\ Cardinality(TicketsOf(tk, i)) \in Nat /\ Cardinality(BoundTo(t, i)) \in Nat
<1>1. TicketsOf(tk, i) \in SUBSET {<<i, iv[i].gen>>}
  BY DEF Issued, Named, TicketsOf, Pairs
<1>2. IsFiniteSet({<<i, iv[i].gen>>}) BY FS_Singleton, Zenon
<1>3. IsFiniteSet(TicketsOf(tk, i)) BY <1>1, <1>2, FS_Subset
<1>4. BoundTo(t, i) \in SUBSET Servers BY DEF BoundTo
<1>5. IsFiniteSet(BoundTo(t, i)) BY <1>4, FS_Subset, InvocationsAssumption
<1> QED BY <1>1, <1>3, <1>5, FS_CardinalityType

\* One ticket more raises the tickets of its record by no more than one, and of no
\* other.
LEMMA TicketMore ==
  ASSUME NEW iv, NEW tk \in SUBSET Pairs, NEW t, Issued(iv, tk, t), NEW i, NEW g
  PROVE  /\ \A j : j # i => TicketsOf(tk \cup {<<i, g>>}, j) = TicketsOf(tk, j)
         /\ Cardinality(TicketsOf(tk \cup {<<i, g>>}, i)) \in Nat
         /\ Cardinality(TicketsOf(tk \cup {<<i, g>>}, i)) <= Cardinality(TicketsOf(tk, i)) + 1
<1>1. \A j : j # i => TicketsOf(tk \cup {<<i, g>>}, j) = TicketsOf(tk, j) BY DEF TicketsOf
<1>2. TicketsOf(tk \cup {<<i, g>>}, i) = TicketsOf(tk, i) \cup {<<i, g>>} BY DEF TicketsOf
<1>3. IsFiniteSet(TicketsOf(tk, i)) /\ Cardinality(TicketsOf(tk, i)) \in Nat BY References, Zenon
<1>4. Cardinality(TicketsOf(tk, i) \cup {<<i, g>>}) =
        IF <<i, g>> \in TicketsOf(tk, i) THEN Cardinality(TicketsOf(tk, i))
        ELSE Cardinality(TicketsOf(tk, i)) + 1
  BY <1>3, FS_AddElement
<1>5. /\ Cardinality(TicketsOf(tk, i) \cup {<<i, g>>}) \in Nat
      /\ Cardinality(TicketsOf(tk, i) \cup {<<i, g>>}) <= Cardinality(TicketsOf(tk, i)) + 1
  <2>1. CASE <<i, g>> \in TicketsOf(tk, i) BY <1>3, <1>4, <2>1
  <2>2. CASE <<i, g>> \notin TicketsOf(tk, i) BY <1>3, <1>4, <2>2
  <2> QED BY <2>1, <2>2
<1> QED BY <1>1, <1>2, <1>5

\* Nothing names a record that is free.
LEMMA Unnamed ==
  ASSUME NEW iv, NEW fr, NEW q, NEW tk, NEW t, NEW sc, Records(iv, fr, q, tk, t, sc),
         NEW i \in fr
  PROVE  /\ i \in Invs /\ iv[i].state = "Empty" /\ ~iv[i].charged /\ iv[i].effect # "Admitted"
         /\ i \notin Range(q) /\ TicketsOf(tk, i) = {} /\ BoundTo(t, i) = {}
<1>1. i \in Invs /\ iv[i].state = "Empty" BY DEF Records
<1>2. ~iv[i].charged /\ iv[i].effect # "Admitted" BY <1>1 DEF Records, Settled
<1>3. i \notin Range(q) BY <1>1 DEF Records, Queued
<1>4. TicketsOf(tk, i) = {} BY <1>1 DEF Records, Issued, Named, TicketsOf
<1>5. BoundTo(t, i) = {} BY <1>1 DEF Records, Issued, Named, BoundTo
<1> QED BY <1>1, <1>2, <1>3, <1>4, <1>5

\* A record is written whole, and its message queued or handed over with a ticket.
Enters(iv, q, tk, sc, i, r, hand, iv2, q2, tk2, sc2) ==
  /\ r.gen = iv[i].gen + 1 /\ r.effect = "None" /\ ~r.replied
  /\ r.state = IF hand THEN "Delivered" ELSE "Admitted"
  /\ r.refs = IF hand THEN 1 ELSE 0
  /\ iv2 = [iv EXCEPT ![i] = r]
  /\ q2 = IF hand THEN q ELSE Append(q, i)
  /\ tk2 = IF hand THEN tk \cup {<<i, r.gen>>} ELSE tk
  /\ sc2 = [sc EXCEPT !.invocations = @ + 1, !.bytes = IF r.charged THEN @ + 1 ELSE @]

\* `admit` and the fault report: a free record is written whole, and queued or
\* handed over.
LEMMA AdmitRecords ==
  ASSUME NEW iv, NEW fr, NEW q, NEW tk, NEW t, NEW sc, Records(iv, fr, q, tk, t, sc),
         NEW i \in fr, NEW r \in RecordType, NEW hand \in BOOLEAN,
         NEW iv2, NEW q2, NEW tk2, NEW sc2, Enters(iv, q, tk, sc, i, r, hand, iv2, q2, tk2, sc2)
  PROVE  Records(iv2, fr \ {i}, q2, tk2, t, sc2)
<1> USE DEF Enters
<1>1. /\ i \in Invs /\ iv[i].state = "Empty" /\ ~iv[i].charged /\ iv[i].effect # "Admitted"
      /\ i \notin Range(q) /\ TicketsOf(tk, i) = {} /\ BoundTo(t, i) = {}
  BY Unnamed
<1>2. iv \in [Invs -> RecordType] /\ q \in Seq(Invs) /\ tk \in SUBSET Pairs /\ sc \in ScopeType
  BY DEF Records, Typed
<1>3. iv2 \in [Invs -> RecordType] /\ iv2[i] = r /\ \A j \in Invs \ {i} : iv2[j] = iv[j]
  BY <1>1, <1>2
<1>4. r.gen \in Nat /\ <<i, r.gen>> \in Pairs /\ tk2 \in SUBSET Pairs
  BY <1>1, <1>2 DEF RecordType, Pairs
<1>5. q2 \in Seq(Invs) /\ IsInjective(q2) /\ Range(q2) = IF hand THEN Range(q) ELSE Range(q) \cup {i}
  BY <1>1, <1>2, Linked, Zenon DEF Records, Queued
<1>6. Accounts(iv2, sc2) /\ sc2 \in ScopeType
  <2> DEFINE E == {j \in Invs : iv[j].effect = "Admitted"}
             C == {j \in Invs : iv[j].charged}
             L == {j \in Invs : Live(iv[j])}
  <2>1. /\ {j \in Invs : iv2[j].effect = "Admitted"} = E
        /\ {j \in Invs : iv2[j].charged} = IF r.charged THEN C \cup {i} ELSE C
        /\ {j \in Invs : Live(iv2[j])} = L \cup {i}
        /\ i \notin C /\ i \notin L
    BY <1>1, <1>3 DEF Live
  <2>2. IsFiniteSet(C) /\ IsFiniteSet(L) /\ Cardinality(C) \in Nat /\ Cardinality(L) \in Nat BY Few
  <2>3. sc.effects = Cardinality(E) /\ sc.bytes = Cardinality(C) /\ sc.invocations <= Cardinality(L)
    BY DEF Records, Accounts
  <2> HIDE DEF E, C, L
  <2>4. Cardinality(C \cup {i}) = Cardinality(C) + 1 /\ Cardinality(L \cup {i}) = Cardinality(L) + 1
    BY <2>1, <2>2, FS_AddElement, Zenon
  <2>5. sc2 \in ScopeType
    <3>1. sc.invocations + 1 \in Nat /\ (IF r.charged THEN sc.bytes + 1 ELSE sc.bytes) \in Int
      BY <1>2 DEF ScopeType
    <3> QED BY <1>2, <3>1, Zenon DEF ScopeType
  <2>6. /\ sc2.effects = sc.effects /\ sc2.invocations = sc.invocations + 1
        /\ sc2.bytes = IF r.charged THEN sc.bytes + 1 ELSE sc.bytes
        /\ sc.invocations \in Nat
    BY <1>2 DEF ScopeType
  <2>7. sc2.invocations <= Cardinality(L \cup {i}) BY <2>2, <2>3, <2>4, <2>6
  <2>8. sc2.bytes = Cardinality(IF r.charged THEN C \cup {i} ELSE C) BY <2>2, <2>3, <2>4, <2>6
  <2> QED BY <2>1, <2>3, <2>5, <2>6, <2>7, <2>8, Zenon DEF Accounts
<1>7. Typed(iv2, fr \ {i}, q2, tk2, sc2) BY <1>3, <1>4, <1>5, <1>6 DEF Records, Typed
<1>8. \A j \in Invs : Settled(iv2[j]) BY <1>3 DEF Records, Settled
<1>9. Queued(iv2, q2) BY <1>1, <1>3, <1>5 DEF Records, Queued
<1>10. fr \ {i} = {j \in Invs : iv2[j].state = "Empty"} BY <1>3 DEF Records
<1>11. Issued(iv2, tk2, t)
  <2>1. \A k \in Pairs : k[1] \in Invs BY DEF Pairs
  <2>2. \A k \in tk : k \in Pairs /\ k[1] # i BY <1>1, <1>2 DEF TicketsOf
  <2>3. \A s \in Servers : t[s].bound # NoTicket => t[s].bound \in Pairs /\ t[s].bound[1] # i
    BY <1>1, Zenon DEF BoundTo, Records, Issued
  <2>4. \A s \in Servers : t[s].bound # NoTicket => t[s].bound \in Pairs /\ Named(iv2, t[s].bound)
    BY <1>3, <2>1, <2>3, Zenon DEF Records, Issued, Named
  <2>5. \A k \in tk : Named(iv2, k) /\ iv2[k[1]].state # "Admitted"
    BY <1>3, <2>1, <2>2, Zenon DEF Records, Issued, Named
  <2>6. hand => Named(iv2, <<i, r.gen>>) /\ iv2[i].state # "Admitted" BY <1>3 DEF Named
  <2>7. \A k \in tk2 : Named(iv2, k) /\ iv2[k[1]].state # "Admitted"
    <3>1. CASE hand
      <4>1. \A k \in tk2 : k \in tk \/ k = <<i, r.gen>> BY <3>1
      <4>2. <<i, r.gen>>[1] = i OBVIOUS
      <4> QED BY <2>5, <2>6, <3>1, <4>1, <4>2, Zenon
    <3>2. CASE ~hand BY <2>5, <3>2, Zenon
    <3> QED BY <3>1, <3>2, Zenon
  <2> QED BY <2>4, <2>7, Zenon DEF Issued
<1>12. Counted(iv2, tk2, t)
  <2> SUFFICES ASSUME NEW j \in Invs
               PROVE  Cardinality(TicketsOf(tk2, j)) + Cardinality(BoundTo(t, j)) <= iv2[j].refs
    BY Zenon DEF Counted
  <2>1. Issued(iv, tk, t) BY DEF Records
  <2>2. CASE j # i
    <3>1. TicketsOf(tk2, j) = TicketsOf(tk, j) BY <2>2 DEF TicketsOf
    <3> QED BY <1>3, <2>2, <3>1 DEF Records, Counted
  <2>3. CASE j = i
    <3>1. Cardinality({}) = 0 BY FS_EmptySet, Zenon
    <3>2. Cardinality(TicketsOf(tk, i)) = 0 /\ Cardinality(BoundTo(t, i)) = 0 BY <1>1, <3>1, Zenon
    <3>3. CASE hand
      <4>1. /\ Cardinality(TicketsOf(tk2, i)) \in Nat
            /\ Cardinality(TicketsOf(tk2, i)) <= Cardinality(TicketsOf(tk, i)) + 1
        BY <1>2, <2>1, <3>3, TicketMore, Zenon
      <4> QED BY <1>3, <2>3, <3>2, <3>3, <4>1
    <3>4. CASE ~hand BY <1>3, <2>3, <3>2, <3>4
    <3> QED BY <3>3, <3>4
  <2> QED BY <2>2, <2>3
<1> QED BY <1>6, <1>7, <1>8, <1>9, <1>10, <1>11, <1>12 DEF Records

\* `deliver`: the oldest message leaves the queue and its ticket is counted.
LEMMA DeliverRecords ==
  ASSUME NEW iv, NEW fr, NEW q, NEW tk, NEW t, NEW sc, Records(iv, fr, q, tk, t, sc),
         q # <<>>, NEW i, i = Head(q),
         NEW iv2, iv2 = [iv EXCEPT ![i].state = "Delivered", ![i].refs = @ + 1]
  PROVE  /\ i \in Invs /\ iv[i].state = "Admitted"
         /\ Records(iv2, fr, Tail(q), tk \cup {<<i, iv[i].gen>>}, t, sc)
<1>1. iv \in [Invs -> RecordType] /\ q \in Seq(Invs) /\ tk \in SUBSET Pairs
  BY Zenon DEF Records, Typed
<1>2. /\ i \in Range(q) /\ Tail(q) \in Seq(Invs) /\ IsInjective(Tail(q))
      /\ Range(Tail(q)) = Range(q) \ {i}
  BY <1>1, Unlinked DEF Records, Queued
<1>3. i \in Invs /\ iv[i].state = "Admitted" BY <1>2 DEF Records, Queued
<1>4. iv[i] \in RecordType /\ iv[i].refs \in Nat /\ iv[i].gen \in Nat /\ iv[i].refs + 1 \in Nat
  BY <1>1, <1>3 DEF RecordType
<1>5. [iv[i] EXCEPT !.state = "Delivered", !.refs = @ + 1] \in RecordType
  BY <1>4, Zenon DEF RecordType, States
<1>6. /\ iv2 \in [Invs -> RecordType] /\ \A j \in Invs \ {i} : iv2[j] = iv[j]
      /\ iv2[i] = [iv[i] EXCEPT !.state = "Delivered", !.refs = @ + 1]
  BY <1>1, <1>3, <1>5, Zenon
<1>7. /\ iv2[i].state = "Delivered" /\ iv2[i].refs = iv[i].refs + 1 /\ iv2[i].gen = iv[i].gen
      /\ iv2[i].charged = iv[i].charged /\ iv2[i].effect = iv[i].effect
      /\ iv2[i].replied = iv[i].replied
  BY <1>4, <1>6 DEF RecordType
<1>8. <<i, iv[i].gen>> \in Pairs BY <1>3, <1>4, Zenon DEF Pairs
<1>9. Typed(iv2, fr, Tail(q), tk \cup {<<i, iv[i].gen>>}, sc) BY <1>1, <1>2, <1>6, <1>8, SMTT(30) DEF Records, Typed
<1>10. \A j \in Invs : Settled(iv2[j]) BY <1>6, <1>7 DEF Records, Settled
<1>11. Queued(iv2, Tail(q)) BY <1>2, <1>6, <1>7, Zenon DEF Records, Queued
<1>12. fr = {j \in Invs : iv2[j].state = "Empty"} BY <1>3, <1>6, <1>7, Zenon DEF Records
<1>13. Issued(iv2, tk \cup {<<i, iv[i].gen>>}, t)
  <2>1. \A k \in Pairs : k[1] \in Invs BY DEF Pairs
  <2>2. \A j \in Invs : iv[j].state # "Empty" => iv2[j].state # "Empty" /\ iv2[j].gen = iv[j].gen
    BY <1>6, <1>7, Zenon
  <2>3. \A j \in Invs : iv[j].state # "Admitted" => iv2[j].state # "Admitted" BY <1>6, <1>7
  <2>4. \A s \in Servers : t[s].bound # NoTicket => t[s].bound \in Pairs /\ Named(iv2, t[s].bound)
    BY <2>1, <2>2, Zenon DEF Records, Issued, Named
  <2>5. \A k \in tk : Named(iv2, k) /\ iv2[k[1]].state # "Admitted"
    BY <1>1, <2>1, <2>2, <2>3, Zenon DEF Records, Issued, Named
  <2>6. Named(iv2, <<i, iv[i].gen>>) /\ iv2[<<i, iv[i].gen>>[1]].state # "Admitted"
    BY <1>7, Zenon DEF Named
  <2> QED BY <2>4, <2>5, <2>6, Zenon DEF Issued
<1>14. Counted(iv2, tk \cup {<<i, iv[i].gen>>}, t)
  <2> SUFFICES ASSUME NEW j \in Invs
               PROVE  Cardinality(TicketsOf(tk \cup {<<i, iv[i].gen>>}, j))
                        + Cardinality(BoundTo(t, j)) <= iv2[j].refs
    BY Zenon DEF Counted
  <2>1. Issued(iv, tk, t) BY DEF Records
  <2>2. Cardinality(TicketsOf(tk, j)) + Cardinality(BoundTo(t, j)) <= iv[j].refs BY DEF Records, Counted
  <2>3. CASE j # i
    <3>1. TicketsOf(tk \cup {<<i, iv[i].gen>>}, j) = TicketsOf(tk, j) BY <2>3 DEF TicketsOf
    <3> QED BY <1>6, <2>2, <2>3, <3>1
  <2>4. CASE j = i
    <3>1. /\ Cardinality(TicketsOf(tk \cup {<<i, iv[i].gen>>}, i)) \in Nat
          /\ Cardinality(TicketsOf(tk \cup {<<i, iv[i].gen>>}, i)) <= Cardinality(TicketsOf(tk, i)) + 1
      BY <1>1, <2>1, TicketMore, Zenon
    <3>2. Cardinality(TicketsOf(tk, i)) \in Nat /\ Cardinality(BoundTo(t, i)) \in Nat
      BY <1>1, <2>1, References, Zenon
    <3> QED BY <1>4, <1>7, <2>2, <2>4, <3>1, <3>2
  <2> QED BY <2>3, <2>4
<1>15. Accounts(iv2, sc)
  <2>1. /\ {j \in Invs : iv2[j].effect = "Admitted"} = {j \in Invs : iv[j].effect = "Admitted"}
        /\ {j \in Invs : iv2[j].charged} = {j \in Invs : iv[j].charged}
        /\ {j \in Invs : Live(iv2[j])} = {j \in Invs : Live(iv[j])}
    BY <1>3, <1>6, <1>7 DEF Live
  <2> QED BY <2>1, Zenon DEF Records, Accounts
<1> QED BY <1>3, <1>9, <1>10, <1>11, <1>12, <1>13, <1>14, <1>15, Zenon DEF Records

\* `begin_effect`: the mark and the scope's count rise together.
LEMMA EffectRecords ==
  ASSUME NEW iv, NEW fr, NEW q, NEW tk, NEW t, NEW sc, Records(iv, fr, q, tk, t, sc),
         NEW i \in Invs, iv[i].state \notin {"Empty", "Resolved"}, iv[i].effect = "None",
         NEW iv2, iv2 = [iv EXCEPT ![i].effect = IF sc.open THEN "Admitted" ELSE "Refused"],
         NEW sc2, sc2 = IF sc.open THEN [sc EXCEPT !.effects = @ + 1] ELSE sc
  PROVE  Records(iv2, fr, q, tk, t, sc2)
<1>1. iv \in [Invs -> RecordType] /\ sc \in ScopeType /\ tk \in SUBSET Pairs BY DEF Records, Typed
<1>2. PICK e \in {"Admitted", "Refused"} :
        e = (IF sc.open THEN "Admitted" ELSE "Refused")
  OBVIOUS
<1>3. [iv[i] EXCEPT !.effect = e] \in RecordType BY <1>1 DEF RecordType, Effects
<1>4. /\ iv2 \in [Invs -> RecordType] /\ iv2[i] = [iv[i] EXCEPT !.effect = e]
      /\ \A j \in Invs \ {i} : iv2[j] = iv[j]
  BY <1>1, <1>2, <1>3
<1>5. \A j \in Invs :
        /\ iv2[j].state = iv[j].state /\ iv2[j].gen = iv[j].gen /\ iv2[j].refs = iv[j].refs
        /\ iv2[j].charged = iv[j].charged /\ iv2[j].replied = iv[j].replied
  BY <1>1, <1>4 DEF RecordType
<1>6. iv2[i].effect = e BY <1>1, <1>4 DEF RecordType
<1>7. Accounts(iv2, sc2) /\ sc2 \in ScopeType
  <2> DEFINE E == {j \in Invs : iv[j].effect = "Admitted"}
  <2>1. /\ {j \in Invs : iv2[j].effect = "Admitted"} = IF sc.open THEN E \cup {i} ELSE E
        /\ i \notin E
    BY <1>2, <1>4, <1>6
  <2>2. /\ {j \in Invs : iv2[j].charged} = {j \in Invs : iv[j].charged}
        /\ {j \in Invs : Live(iv2[j])} = {j \in Invs : Live(iv[j])}
    BY <1>5 DEF Live
  <2>3. IsFiniteSet(E) /\ Cardinality(E) \in Nat BY Few
  <2>4. sc.effects = Cardinality(E) BY DEF Records, Accounts
  <2> HIDE DEF E
  <2>5. Cardinality(E \cup {i}) = Cardinality(E) + 1 BY <2>1, <2>3, FS_AddElement, Zenon
  <2>6. CASE sc.open
    <3>1. sc.effects + 1 \in Int BY <2>3, <2>4
    <3>2. /\ sc2 \in ScopeType /\ sc2.effects = sc.effects + 1 /\ sc2.bytes = sc.bytes
          /\ sc2.invocations = sc.invocations
      BY <1>1, <2>6, <3>1 DEF ScopeType
    <3> QED BY <2>1, <2>2, <2>4, <2>5, <2>6, <3>2, Zenon DEF Records, Accounts
  <2>7. CASE ~sc.open BY <1>1, <2>1, <2>2, <2>4, <2>7, Zenon DEF Records, Accounts
  <2> QED BY <2>6, <2>7
<1>8. Typed(iv2, fr, q, tk, sc2) BY <1>4, <1>7 DEF Records, Typed
<1>9. \A j \in Invs : Settled(iv2[j]) BY <1>4, <1>5 DEF Records, Settled
<1>10. Queued(iv2, q) BY <1>5 DEF Records, Queued
<1>11. fr = {j \in Invs : iv2[j].state = "Empty"} BY <1>5, Zenon DEF Records
<1>12. Issued(iv2, tk, t)
  <2>1. \A k \in Pairs : k[1] \in Invs BY Zenon DEF Pairs
  <2> QED BY <1>1, <1>5, <2>1 DEF Records, Issued, Named
<1>13. Counted(iv2, tk, t) BY <1>5, Zenon DEF Records, Counted
<1> QED BY <1>7, <1>8, <1>9, <1>10, <1>11, <1>12, <1>13, Zenon DEF Records

\* The references of record i are counted anew, and nothing else changes.
Recounted(iv, iv2, i, n) ==
  /\ iv2 \in [Invs -> RecordType] /\ iv2[i].refs = n
  /\ \A j \in Invs \ {i} : iv2[j] = iv[j]
  /\ \A j \in Invs : /\ iv2[j].state = iv[j].state /\ iv2[j].effect = iv[j].effect
                     /\ iv2[j].charged = iv[j].charged /\ iv2[j].gen = iv[j].gen
                     /\ iv2[j].replied = iv[j].replied /\ iv2[j].stored = iv[j].stored

\* The binding of thread s becomes b, and no other changes.
Rebound(t, t2, s, b) ==
  t2[s].bound = b /\ \A u \in Servers \ {s} : t2[u].bound = t[u].bound

\* A reference taken or returned writes one count.
LEMMA RefsSet ==
  ASSUME NEW iv \in [Invs -> RecordType], NEW i \in Invs, NEW n \in Nat
  PROVE  Recounted(iv, [iv EXCEPT ![i].refs = n], i, n)
<1>1. PICK iv2 : iv2 = [iv EXCEPT ![i].refs = n] BY Zenon
<1>2. iv[i] \in RecordType OBVIOUS
<1>3. [iv[i] EXCEPT !.refs = n] \in RecordType BY <1>2 DEF RecordType
<1>4. /\ iv2 \in [Invs -> RecordType] /\ iv2[i] = [iv[i] EXCEPT !.refs = n]
      /\ \A j \in Invs \ {i} : iv2[j] = iv[j]
  BY <1>1, <1>3
<1>5. Recounted(iv, iv2, i, n) BY <1>2, <1>4 DEF RecordType, Recounted
<1> QED BY <1>1, <1>5

\* What still is named after a count is written.
LEMMA StillNamed ==
  ASSUME NEW iv, NEW iv2, NEW i, NEW n, Recounted(iv, iv2, i, n)
  PROVE  \A x \in Pairs : /\ Named(iv, x) => Named(iv2, x)
                          /\ iv[x[1]].state # "Admitted" => iv2[x[1]].state # "Admitted"
<1>1. \A x \in Pairs : x[1] \in Invs BY DEF Pairs
<1> QED BY <1>1 DEF Named, Recounted

\* `cap_close` of a ticket: the reference goes with it.
LEMMA CloseRecords ==
  ASSUME NEW iv, NEW fr, NEW q, NEW tk, NEW t, NEW sc, Records(iv, fr, q, tk, t, sc),
         NEW k \in tk, NEW i, i = k[1], NEW iv2, Recounted(iv, iv2, i, Minus(iv[i].refs))
  PROVE  Records(iv2, fr, q, tk \ {k}, t, sc)
<1>1. /\ iv \in [Invs -> RecordType] /\ tk \in SUBSET Pairs
      /\ Issued(iv, tk, t) /\ Counted(iv, tk, t)
  BY DEF Records, Typed
<1>2. i \in Invs BY <1>1 DEF Pairs
<1>3. iv[i].refs \in Nat BY <1>1, <1>2 DEF RecordType
<1>4. k \in TicketsOf(tk, i) BY DEF TicketsOf
<1>5. /\ IsFiniteSet(TicketsOf(tk, i)) /\ Cardinality(TicketsOf(tk, i)) \in Nat
      /\ Cardinality(BoundTo(t, i)) \in Nat
  BY <1>1, References, Zenon
<1>6. Cardinality(TicketsOf(tk, i) \ {k}) = Cardinality(TicketsOf(tk, i)) - 1
  BY <1>4, <1>5, FS_RemoveElement, Zenon
<1>7. Cardinality(TicketsOf(tk, i)) # 0 BY <1>4, <1>5, FS_EmptySet
<1>8. Cardinality(TicketsOf(tk, i)) + Cardinality(BoundTo(t, i)) <= iv[i].refs BY <1>1, <1>2 DEF Counted
<1>9. iv[i].refs # 0 BY <1>3, <1>5, <1>7, <1>8
<1>10. iv2[i].refs = iv[i].refs - 1 BY <1>9 DEF Minus, Recounted
<1>11. Issued(iv2, tk \ {k}, t) BY <1>1, StillNamed DEF Issued
<1>12. Counted(iv2, tk \ {k}, t)
  <2> SUFFICES ASSUME NEW j \in Invs
               PROVE  Cardinality(TicketsOf(tk \ {k}, j)) + Cardinality(BoundTo(t, j)) <= iv2[j].refs
    BY DEF Counted
  <2>1. CASE j = i
    <3>1. TicketsOf(tk \ {k}, i) = TicketsOf(tk, i) \ {k} BY DEF TicketsOf
    <3>2. Cardinality(TicketsOf(tk \ {k}, i)) = Cardinality(TicketsOf(tk, i)) - 1 BY <1>6, <3>1
    <3>3. Cardinality(TicketsOf(tk \ {k}, i)) + Cardinality(BoundTo(t, i)) <= iv2[i].refs
      BY <1>3, <1>5, <1>8, <1>10, <3>2
    <3> QED BY <2>1, <3>3, Zenon
  <2>2. CASE j # i
    <3>1. TicketsOf(tk \ {k}, j) = TicketsOf(tk, j) BY <2>2 DEF TicketsOf
    <3> QED BY <1>1, <2>2, <3>1 DEF Counted, Recounted
  <2> QED BY <2>1, <2>2
<1>13. tk \ {k} \in SUBSET Pairs BY <1>1
<1> QED BY <1>11, <1>12, <1>13, RecordsKept DEF Recounted

\* `bind_worker`: the binding is counted.
LEMMA BindRecords ==
  ASSUME NEW iv, NEW fr, NEW q, NEW tk, NEW t, NEW sc, Records(iv, fr, q, tk, t, sc),
         NEW s \in Servers, NEW k \in tk, t[s].bound = NoTicket,
         NEW i, i = k[1], NEW iv2, Recounted(iv, iv2, i, iv[i].refs + 1),
         NEW t2, Rebound(t, t2, s, k)
  PROVE  Records(iv2, fr, q, tk, t2, sc)
<1>1. /\ iv \in [Invs -> RecordType] /\ tk \in SUBSET Pairs
      /\ Issued(iv, tk, t) /\ Counted(iv, tk, t)
  BY DEF Records, Typed
<1>2. i \in Invs /\ k \in Pairs /\ k # NoTicket BY <1>1 DEF Pairs, NoTicket
<1>3. iv[i].refs \in Nat BY <1>1, <1>2 DEF RecordType
<1>4. iv2[i].refs = iv[i].refs + 1 BY DEF Recounted
<1>5. Issued(iv2, tk, t2)
  <2>1. \A x \in tk : Named(iv2, x) /\ iv2[x[1]].state # "Admitted" BY <1>1, StillNamed DEF Issued
  <2>2. ASSUME NEW u \in Servers, t2[u].bound # NoTicket
        PROVE  t2[u].bound \in Pairs /\ Named(iv2, t2[u].bound)
    <3>1. CASE u = s BY <1>2, <2>1, <3>1, Zenon DEF Rebound
    <3>2. CASE u # s
      <4>1. t2[u].bound = t[u].bound BY <3>2 DEF Rebound
      <4>2. t[u].bound \in Pairs /\ Named(iv, t[u].bound) BY <1>1, <2>2, <4>1 DEF Issued
      <4> QED BY <4>1, <4>2, StillNamed
    <3> QED BY <3>1, <3>2, Zenon
  <2> QED BY <2>1, <2>2 DEF Issued
<1>6. Counted(iv2, tk, t2)
  <2> SUFFICES ASSUME NEW j \in Invs
               PROVE  Cardinality(TicketsOf(tk, j)) + Cardinality(BoundTo(t2, j)) <= iv2[j].refs
    BY DEF Counted
  <2>1. Cardinality(TicketsOf(tk, j)) + Cardinality(BoundTo(t, j)) <= iv[j].refs BY <1>1 DEF Counted
  <2>2. CASE j = i
    <3>1. BoundTo(t2, i) = BoundTo(t, i) \cup {s} BY <1>2 DEF BoundTo, Rebound
    <3>2. s \notin BoundTo(t, i) BY Zenon DEF BoundTo
    <3>3. /\ IsFiniteSet(BoundTo(t, i)) /\ Cardinality(TicketsOf(tk, i)) \in Nat
          /\ Cardinality(BoundTo(t, i)) \in Nat
      BY <1>1, References, Zenon
    <3>4. Cardinality(BoundTo(t2, i)) = Cardinality(BoundTo(t, i)) + 1
      BY <3>1, <3>2, <3>3, FS_AddElement, ZenonT(30)
    <3>5. Cardinality(TicketsOf(tk, i)) + Cardinality(BoundTo(t2, i)) <= iv2[i].refs
      BY <1>3, <1>4, <2>1, <2>2, <3>3, <3>4
    <3> QED BY <2>2, <3>5, Zenon
  <2>3. CASE j # i
    <3>1. BoundTo(t2, j) = BoundTo(t, j) BY <2>3, Zenon DEF BoundTo, Rebound
    <3> QED BY <2>1, <2>3, <3>1, Zenon DEF Recounted
  <2> QED BY <2>2, <2>3, Zenon
<1> QED BY <1>1, <1>5, <1>6, RecordsKept DEF Recounted

\* `unbind_worker`: the reference goes with the binding.
LEMMA UnbindRecords ==
  ASSUME NEW iv, NEW fr, NEW q, NEW tk, NEW t, NEW sc, Records(iv, fr, q, tk, t, sc),
         NEW s \in Servers, t[s].bound # NoTicket,
         NEW i, i = t[s].bound[1], NEW iv2, Recounted(iv, iv2, i, Minus(iv[i].refs)),
         NEW t2, Rebound(t, t2, s, NoTicket)
  PROVE  Records(iv2, fr, q, tk, t2, sc)
<1>1. /\ iv \in [Invs -> RecordType] /\ tk \in SUBSET Pairs
      /\ Issued(iv, tk, t) /\ Counted(iv, tk, t)
  BY Zenon DEF Records, Typed
<1>2. i \in Invs BY <1>1, Zenon DEF Issued, Pairs
<1>3. iv[i].refs \in Nat BY <1>1, <1>2, Zenon DEF RecordType
<1>4. s \in BoundTo(t, i) BY Zenon DEF BoundTo
<1>5. /\ IsFiniteSet(BoundTo(t, i)) /\ Cardinality(TicketsOf(tk, i)) \in Nat
      /\ Cardinality(BoundTo(t, i)) \in Nat
  BY <1>1, References, Zenon
<1>6. Cardinality(BoundTo(t, i) \ {s}) = Cardinality(BoundTo(t, i)) - 1
  BY <1>4, <1>5, FS_RemoveElement, Zenon
<1>7. Cardinality(BoundTo(t, i)) # 0 BY <1>4, <1>5, FS_EmptySet, Zenon
<1>8. Cardinality(TicketsOf(tk, i)) + Cardinality(BoundTo(t, i)) <= iv[i].refs BY <1>1, <1>2, Zenon DEF Counted
<1>9. iv[i].refs # 0 BY <1>3, <1>5, <1>7, <1>8
<1>10. iv2[i].refs = iv[i].refs - 1 BY <1>9, Zenon DEF Minus, Recounted
<1>11. Issued(iv2, tk, t2)
  <2>1. \A x \in tk : Named(iv2, x) /\ iv2[x[1]].state # "Admitted" BY <1>1, StillNamed DEF Issued
  <2>2. ASSUME NEW u \in Servers, t2[u].bound # NoTicket
        PROVE  t2[u].bound \in Pairs /\ Named(iv2, t2[u].bound)
    <3>1. t2[u].bound = t[u].bound BY <2>2, Zenon DEF Rebound
    <3>2. t[u].bound \in Pairs /\ Named(iv, t[u].bound) BY <1>1, <2>2, <3>1, Zenon DEF Issued
    <3> QED BY <3>1, <3>2, StillNamed
  <2> QED BY <2>1, <2>2, Zenon DEF Issued
<1>12. Counted(iv2, tk, t2)
  <2> SUFFICES ASSUME NEW j \in Invs
               PROVE  Cardinality(TicketsOf(tk, j)) + Cardinality(BoundTo(t2, j)) <= iv2[j].refs
    BY Zenon DEF Counted
  <2>1. CASE j = i
    <3>1. BoundTo(t2, i) = BoundTo(t, i) \ {s} BY DEF BoundTo, Rebound
    <3>2. Cardinality(BoundTo(t2, i)) = Cardinality(BoundTo(t, i)) - 1 BY <1>6, <3>1, Zenon
    <3>3. Cardinality(TicketsOf(tk, i)) + Cardinality(BoundTo(t2, i)) <= iv2[i].refs
      <4>1. \A a, b, r, b2, r2 \in Int : a + b <= r /\ b2 = b - 1 /\ r2 = r - 1 => a + b2 <= r2
        OBVIOUS
      <4>2. \A n \in Nat : n \in Int /\ n - 1 \in Int OBVIOUS
      <4>3. Cardinality(BoundTo(t2, i)) \in Int /\ iv2[i].refs \in Int
        BY <1>3, <1>5, <1>10, <3>2, <4>2, Zenon
      <4> QED BY <1>3, <1>5, <1>8, <1>10, <3>2, <4>1, <4>2, <4>3, Zenon
    <3> QED BY <2>1, <3>3, Zenon
  <2>2. CASE j # i
    <3>1. BoundTo(t2, j) = BoundTo(t, j) BY <2>2 DEF BoundTo, Rebound
    <3> QED BY <1>1, <2>2, <3>1, Zenon DEF Counted, Recounted
  <2> QED BY <2>1, <2>2, Zenon
<1> QED BY <1>1, <1>11, <1>12, RecordsKept, Zenon DEF Recounted

\* The end of the receiving domain: its tickets and bindings go, and the references
\* of the tickets with them.
LEMMA LetGoRecords ==
  ASSUME NEW iv, NEW fr, NEW q, NEW tk, NEW t, NEW sc, Records(iv, fr, q, tk, t, sc),
         NEW t2, \A s \in Servers : t2[s].bound = NoTicket,
         NEW iv2, iv2 = [i \in Invs |-> [iv[i] EXCEPT !.refs = @ - Cardinality(TicketsOf(tk, i))]]
  PROVE  /\ Records(iv2, fr, q, {}, t2, sc)
         /\ \A i \in Invs : /\ iv2[i].state = iv[i].state /\ iv2[i].effect = iv[i].effect
                            /\ iv2[i].charged = iv[i].charged /\ iv2[i].gen = iv[i].gen
                            /\ iv2[i].replied = iv[i].replied /\ iv2[i].stored = iv[i].stored
<1>1. /\ iv \in [Invs -> RecordType] /\ tk \in SUBSET Pairs
      /\ Issued(iv, tk, t) /\ Counted(iv, tk, t)
  BY DEF Records, Typed
<1>2. ASSUME NEW i \in Invs
      PROVE  /\ iv2[i] \in RecordType
             /\ iv2[i].state = iv[i].state /\ iv2[i].effect = iv[i].effect
             /\ iv2[i].charged = iv[i].charged /\ iv2[i].gen = iv[i].gen
             /\ iv2[i].replied = iv[i].replied /\ iv2[i].stored = iv[i].stored
  <2>1. iv[i] \in RecordType /\ iv[i].refs \in Nat BY <1>1 DEF RecordType
  <2>2. Cardinality(TicketsOf(tk, i)) \in Nat /\ Cardinality(BoundTo(t, i)) \in Nat BY <1>1, References, Zenon
  <2>3. Cardinality(TicketsOf(tk, i)) + Cardinality(BoundTo(t, i)) <= iv[i].refs BY <1>1 DEF Counted
  <2>4. PICK n \in Nat : n = iv[i].refs - Cardinality(TicketsOf(tk, i)) BY <2>1, <2>2, <2>3
  <2>5. iv2[i] = [iv[i] EXCEPT !.refs = n] BY <2>4
  <2> QED BY <2>1, <2>5 DEF RecordType
<1>3. iv2 \in [Invs -> RecordType] BY <1>2
<1>4. Issued(iv2, {}, t2) BY DEF Issued
<1>5. Counted(iv2, {}, t2)
  <2> SUFFICES ASSUME NEW i \in Invs
               PROVE  Cardinality(TicketsOf({}, i)) + Cardinality(BoundTo(t2, i)) <= iv2[i].refs
    BY DEF Counted
  <2>1. TicketsOf({}, i) = {} /\ BoundTo(t2, i) = {} BY DEF TicketsOf, BoundTo
  <2>2. Cardinality({}) = 0 BY FS_EmptySet
  <2>3. Cardinality(TicketsOf({}, i)) = 0 /\ Cardinality(BoundTo(t2, i)) = 0 BY <2>1, <2>2, SMTT(30)
  <2>4. iv2[i].refs \in Nat BY <1>3 DEF RecordType
  <2> QED BY <2>3, <2>4
<1>6. {} \in SUBSET Pairs OBVIOUS
<1>7. Records(iv2, fr, q, {}, t2, sc) BY <1>2, <1>3, <1>4, <1>5, <1>6, RecordsKept
<1> QED BY <1>2, <1>7

----------------------------------------------------------------------------
\* The threads.

\* The records went on to iv2: no generation went back, no answer in place appeared,
\* and no caller about to discharge finds its record queued.
Older(iv, iv2, t) ==
  /\ \A i \in Invs :
       /\ iv[i].gen <= iv2[i].gen
       /\ iv2[i].replied /\ ~iv2[i].stored =>
            iv2[i].gen = iv[i].gen /\ iv[i].replied /\ ~iv[i].stored
  /\ \A c \in Clients : t[c].pc = "discharge" => iv2[t[c].at[1]].state # "Admitted"

\* Only the record of thread u changes.
Only(t, t2, u) ==
  t2 \in [Threads -> ThreadType] /\ \A v \in Threads \ {u} : t2[v] = t[v]

\* Callers, receivers and nobody are apart.
LEMMA Kinds ==
  /\ \A c \in Clients : c \in Threads /\ c \notin Servers /\ c # Nobody
  /\ \A s \in Servers : s \in Threads /\ s \notin Clients /\ s # Nobody
BY InvocationsAssumption DEF Threads

\* A step of the records leaves the threads in order.
LEMMA CallsAged ==
  ASSUME NEW iv \in [Invs -> RecordType], NEW iv2 \in [Invs -> RecordType],
         NEW t, NEW tk, NEW tk2, NEW ow, Calls(iv, t, tk, ow), Older(iv, iv2, t),
         \A s \in Servers : t[s].pc \in {"answer", "discharge"} => t[s].at \in tk2
  PROVE  Calls(iv2, t, tk2, ow)
<1>1. \A s \in Servers : Servant(t, tk2, s) /\ Replies(t, ow, s) BY DEF Calls, Servant
<1>2. ASSUME NEW c \in Clients PROVE Caller(iv2, t, ow, c)
  <2>1. Caller(iv, t, ow, c) /\ t[c] \in ThreadType BY Kinds DEF Calls
  <2>2. t[c].at # NoTicket => /\ t[c].at[1] \in Invs /\ t[c].at[2] \in Nat
                              /\ t[c].at[2] <= iv2[t[c].at[1]].gen
    <3> SUFFICES ASSUME t[c].at # NoTicket
                 PROVE  /\ t[c].at[1] \in Invs /\ t[c].at[2] \in Nat
                        /\ t[c].at[2] <= iv2[t[c].at[1]].gen
      BY Zenon
    <3>1. t[c].at[1] \in Invs /\ t[c].at[2] \in Nat BY <2>1 DEF ThreadType, Handles, Pairs
    <3>2. iv[t[c].at[1]].gen \in Nat /\ iv2[t[c].at[1]].gen \in Nat BY <3>1, Zenon DEF RecordType
    <3>3. /\ t[c].at[2] <= iv[t[c].at[1]].gen
          /\ iv[t[c].at[1]].gen <= iv2[t[c].at[1]].gen
      BY <2>1, <3>1, Zenon DEF Caller, Older
    <3> QED BY <3>1, <3>2, <3>3
  <2>3. /\ ~Crossing /\ t[c].pc \in {"admitted", "blocked", "woken"}
        /\ iv2[t[c].at[1]].gen = t[c].at[2]
        /\ iv2[t[c].at[1]].replied /\ ~iv2[t[c].at[1]].stored
        => t[c].pc # "admitted" /\ InPlace(iv, t, c)
    <3>1. t[c].pc \in {"admitted", "blocked", "woken"} => t[c].at # NoTicket BY <2>1, Zenon DEF Caller
    <3> QED BY <2>1, <2>2, <3>1, Zenon DEF Caller, Older
  <2> QED BY <2>1, <2>2, <2>3, Zenon DEF Caller, Older, InPlace
<1> QED BY <1>1, <1>2 DEF Calls

\* A step of one caller that no replier has claimed leaves the others in order.
LEMMA ClientKeeps ==
  ASSUME NEW iv, NEW t, NEW tk, NEW ow, Calls(iv, t, tk, ow), NEW c \in Clients,
         NEW t2, Only(t, t2, c), NEW ow2 \in {ow, ow \ {c}}, Caller(iv, t2, ow2, c),
         \A s \in Servers : t[s].peer # c,
         t2[c].at # NoTicket => \A d \in Clients \ {c} : t[d].at # t2[c].at
  PROVE  Calls(iv, t2, tk, ow2)
<1>1. \A v \in Threads \ {c} : t2[v] = t[v] BY DEF Only
<1>2. \A s \in Servers : t2[s] = t[s] BY <1>1, Kinds
<1>3. \A s \in Servers : Servant(t2, tk, s) BY <1>2 DEF Calls, Servant
<1>4. ASSUME NEW s \in Servers PROVE Replies(t2, ow2, s)
  <2>1. t[s].peer # Nobody => t[s].peer \in Threads \ {c} /\ t2[t[s].peer] = t[t[s].peer]
    BY <1>1, Kinds, Zenon DEF Calls, ThreadType
  <2> QED BY <1>2, <2>1 DEF Calls, Replies
<1>5. ASSUME NEW d \in Clients PROVE Caller(iv, t2, ow2, d)
  <2>1. CASE d = c BY <2>1
  <2>2. CASE d # c
    <3>1. t2[d] = t[d] /\ (d \in ow2 <=> d \in ow) BY <1>1, <2>2, Kinds, Zenon
    <3>2. Caller(iv, t, ow, d) BY DEF Calls
    <3> QED BY <1>2, <3>1, <3>2, ZenonT(30) DEF Caller, InPlace
  <2> QED BY <2>1, <2>2
<1>6. Apart(t2)
  <2>1. \A d \in Clients \ {c} : t2[d] = t[d] BY <1>1, Kinds, Zenon
  <2> QED BY <1>2, <2>1 DEF Calls, Apart
<1> QED BY <1>3, <1>4, <1>5, <1>6 DEF Calls, Only

\* The same for a step that takes nothing off what the threads are owed.
LEMMA ClientStays ==
  ASSUME NEW iv, NEW t, NEW tk, NEW ow, Calls(iv, t, tk, ow), NEW c \in Clients,
         NEW t2, Only(t, t2, c), Caller(iv, t2, ow, c), \A s \in Servers : t[s].peer # c,
         t2[c].at # NoTicket => \A d \in Clients \ {c} : t[d].at # t2[c].at
  PROVE  Calls(iv, t2, tk, ow)
<1>1. PICK ow2 \in {ow, ow \ {c}} : ow2 = ow BY Zenon
<1>2. Caller(iv, t2, ow2, c) BY <1>1, Zenon
<1>3. Calls(iv, t2, tk, ow2) BY <1>1, <1>2, ClientKeeps, Zenon
<1> QED BY <1>1, <1>3, Zenon

\* A step of one receiving thread that claims nobody leaves the others in order.
LEMMA ServerKeeps ==
  ASSUME NEW iv, NEW t, NEW tk, NEW ow, Calls(iv, t, tk, ow), NEW s \in Servers,
         NEW t2, Only(t, t2, s), NEW ow2 \in {ow, ow \ {s}}, Servant(t2, tk, s),
         t2[s].peer = t[s].peer, t[s].peer # Nobody => t2[s].at = t[s].at,
         t2[s].at # NoTicket => \A r \in Servers \ {s} : t[r].at # t2[s].at
  PROVE  Calls(iv, t2, tk, ow2)
<1>1. \A v \in Threads \ {s} : t2[v] = t[v] BY Zenon DEF Only
<1>2. \A c \in Clients : t2[c] = t[c] /\ (c \in ow2 <=> c \in ow) BY <1>1, Kinds
<1>3. \A r \in Servers \ {s} : t2[r] = t[r] BY <1>1, Kinds, Zenon
<1>4. \A r \in Servers : t2[r].peer = t[r].peer BY <1>3, Zenon
<1>5. \A r \in Servers : Servant(t2, tk, r) BY <1>3 DEF Calls, Servant
<1>6. ASSUME NEW r \in Servers PROVE Replies(t2, ow2, r)
  <2>1. t[r].peer # Nobody => t[r].peer \in Clients /\ t2[r].at = t[r].at
    BY <1>3, Kinds, Zenon DEF Calls, ThreadType
  <2>2. Replies(t, ow, r) BY Zenon DEF Calls
  <2> QED BY <1>2, <1>4, <2>1, <2>2, Zenon DEF Replies
<1>7. ASSUME NEW c \in Clients PROVE Caller(iv, t2, ow2, c)
  <2>1. Caller(iv, t, ow, c) BY Zenon DEF Calls
  <2> QED BY <1>2, <1>4, <2>1, ZenonT(30) DEF Caller, InPlace
<1>8. Apart(t2) BY <1>2, <1>3 DEF Calls, Apart
<1> QED BY <1>5, <1>6, <1>7, <1>8, Zenon DEF Calls, Only

-----------------------------------------------------------------------------
(* Threads: claims, answers and waits.                                     *)

\* `claim_handoff`: what a claim leaves of a thread's record.
LEMMA ClaimedIs ==
  ASSUME NEW x \in ThreadType
  PROVE  /\ Claimed(x) \in ThreadType /\ Claimed(x).pc = x.pc /\ Claimed(x).at = x.at
         /\ Claimed(x).wait = "None" /\ Claimed(x).aux = NoTicket
         /\ Claimed(x).peer = x.peer /\ Claimed(x).got = x.got /\ Claimed(x).bound = x.bound
BY Zenon DEF Claimed, ThreadType, Handles

\* The threads of a set are claimed.
Claims(t, t2, set) ==
  t2 = [u \in Threads |-> IF u \in set THEN Claimed(t[u]) ELSE t[u]]

\* Claiming sleepers, callers only from their wait for a reply, keeps the threads in
\* order: each owes its wake.
LEMMA ClaimKeeps ==
  ASSUME NEW iv, NEW t, NEW tk, NEW ow, Calls(iv, t, tk, ow),
         NEW set \in SUBSET Threads, \A u \in set : t[u].pc = "blocked",
         \A c \in set \cap Clients :
            t[c].wait = "Reply" \/ (Crossing /\ \A s \in Servers : t[s].peer # c),
         NEW t2, Claims(t, t2, set)
  PROVE  Calls(iv, t2, tk, ow \cup set)
<1>1. t \in [Threads -> ThreadType] /\ ow \in SUBSET Threads BY DEF Calls
<1>2. \A u \in Threads :
        /\ t2[u] \in ThreadType /\ t2[u].pc = t[u].pc /\ t2[u].at = t[u].at
        /\ t2[u].peer = t[u].peer /\ t2[u].got = t[u].got /\ t2[u].bound = t[u].bound
        /\ u \in set => t2[u].wait = "None" /\ t2[u].aux = NoTicket
        /\ u \notin set => t2[u] = t[u]
  BY <1>1, ClaimedIs DEF Claims
<1>3. t2 \in [Threads -> ThreadType] BY <1>2 DEF Claims
<1>4. \A s \in Servers : Servant(t2, tk, s)
  <2> SUFFICES ASSUME NEW s \in Servers PROVE Servant(t2, tk, s) OBVIOUS
  <2>1. Servant(t, tk, s) /\ s \in Threads BY Kinds DEF Calls
  <2> QED BY <1>2, <2>1 DEF Servant
<1>5. ASSUME NEW s \in Servers PROVE Replies(t2, ow \cup set, s)
  <2> SUFFICES ASSUME t[s].peer # Nobody PROVE Replies(t2, ow \cup set, s)
    BY <1>2, Kinds, Zenon DEF Replies
  <2>1. t[s].peer \in Clients /\ t[s].peer \in Threads BY <1>1, Kinds DEF ThreadType
  <2>2. Replies(t, ow, s) BY DEF Calls
  <2>3. t[s].peer \notin set BY <2>1, <2>2 DEF Replies
  <2>4. t2[s].peer = t[s].peer /\ t2[s].at = t[s].at BY <1>2, Kinds
  <2> QED BY <1>2, <2>1, <2>2, <2>3, <2>4 DEF Replies
<1>6. ASSUME NEW c \in Clients PROVE Caller(iv, t2, ow \cup set, c)
  <2>1. Caller(iv, t, ow, c) /\ c \in Threads BY Kinds DEF Calls
  <2>2. \A s \in Servers : t2[s].peer = t[s].peer BY <1>2, Kinds
  <2>3. CASE c \notin set
    <3>1. t2[c] = t[c] /\ (c \in ow \cup set <=> c \in ow) BY <1>2, <2>1, <2>3
    <3> QED BY <2>1, <2>2, <3>1, Zenon DEF Caller, InPlace
  <2>4. CASE c \in set
    <3>1. t[c].pc = "blocked" /\ c \in ow \cup set BY <2>4, Zenon
    <3>2. t[c].wait = "Reply" => /\ t[c].aux = NoTicket /\ \A s \in Servers : t[s].peer # c
      <4>1. t[c].wait = "Reply" => t[c].aux = NoTicket BY <2>1, Zenon DEF Caller
      <4>2. ASSUME NEW s \in Servers, t[s].peer = c PROVE t[c].wait = "None"
        <5>1. Replies(t, ow, s) /\ t[s].peer # Nobody BY <4>2, Kinds, Zenon DEF Calls
        <5> QED BY <4>2, <5>1, Zenon DEF Replies
      <4>3. t[c].wait = "None" => t[c].wait # "Reply" OBVIOUS
      <4> QED BY <4>1, <4>2, <4>3, Zenon
    <3>3. t[c].at # NoTicket BY <2>1, <3>1, Zenon DEF Caller
    <3>4. Crossing \/ t[c].wait = "Reply" BY <2>4
    <3>5. ~(/\ ~Crossing /\ iv[t[c].at[1]].gen = t[c].at[2]
            /\ iv[t[c].at[1]].replied /\ ~iv[t[c].at[1]].stored)
      BY <2>1, <3>1, <3>2, <3>3, <3>4, Zenon DEF Caller, InPlace
    <3>6. /\ t2[c].pc = t[c].pc /\ t2[c].at = t[c].at /\ t2[c].peer = t[c].peer
          /\ t2[c].got = t[c].got /\ t2[c].bound = t[c].bound
          /\ t2[c].wait = "None" /\ t2[c].aux = NoTicket
      BY <1>2, <2>1, <2>4, Zenon
    <3> QED BY <2>1, <3>1, <3>5, <3>6, Zenon DEF Caller
  <2> QED BY <2>3, <2>4
<1>7. Apart(t2) BY <1>2, Kinds DEF Calls, Apart
<1> QED BY <1>1, <1>3, <1>4, <1>5, <1>6, <1>7, Zenon DEF Calls

\* The end of the receiving domain, when none of its threads is inside a hold.
LEMMA ServersEnd ==
  ASSUME NEW iv, NEW t, NEW tk, NEW ow, Calls(iv, t, tk, ow),
         \A s \in Servers : t[s].peer = Nobody,
         NEW t2, t2 = [u \in Threads |-> IF u \in Servers THEN [Thread EXCEPT !.pc = "dead"]
                                         ELSE t[u]]
  PROVE  Calls(iv, t2, {}, ow \ Servers)
<1>1. t \in [Threads -> ThreadType] /\ ow \in SUBSET Threads BY DEF Calls
<1>2. [Thread EXCEPT !.pc = "dead"] \in ThreadType
  BY DEF Thread, ThreadType, Handles, ServerPcs
<1>3. t2 \in [Threads -> ThreadType] BY <1>1, <1>2
<1>4. \A s \in Servers : /\ t2[s].pc = "dead" /\ t2[s].at = NoTicket /\ t2[s].wait = "None"
                         /\ t2[s].peer = Nobody
  BY Kinds DEF Thread
<1>5. \A c \in Clients : t2[c] = t[c] /\ (c \in ow \ Servers <=> c \in ow) BY Kinds
<1>6. \A s \in Servers : Servant(t2, {}, s) /\ Replies(t2, ow \ Servers, s)
  BY <1>4, Zenon DEF Servant, Replies, ServerPcs, InHold
<1>7. \A c \in Clients : Caller(iv, t2, ow \ Servers, c)
  <2> SUFFICES ASSUME NEW c \in Clients PROVE Caller(iv, t2, ow \ Servers, c) BY Zenon
  <2>1. Caller(iv, t, ow, c) BY DEF Calls
  <2>2. \A s \in Servers : t[s].peer # c BY Kinds
  <2> QED BY <1>5, <2>1, <2>2, Zenon DEF Caller, InPlace
<1>8. Apart(t2)
  <2>1. Apart(t) BY DEF Calls
  <2>2. \A c \in Clients : t2[c].at = t[c].at BY <1>5, Zenon
  <2>3. \A c, d \in Clients : c # d /\ t2[c].at # NoTicket => t2[c].at # t2[d].at
    BY <2>1, <2>2 DEF Apart
  <2>4. \A r \in Servers : t2[r].at = NoTicket BY <1>4
  <2> QED BY <2>4, <2>3 DEF Apart
<1> QED BY <1>1, <1>3, <1>6, <1>7, <1>8, Zenon DEF Calls

\* `reply` into the buffer of a sleeping caller: receiver s claims caller w, who sleeps
\* on the call that s answers.
Answers(iv, iv2, t, t2, s, w) ==
  /\ t2 \in [Threads -> ThreadType] /\ \A u \in Threads \ {s, w} : t2[u] = t[u]
  /\ t2[s].pc = "discharge" /\ t2[s].peer = w /\ t2[s].at = t[s].at /\ t2[s].wait = t[s].wait
  /\ t2[w].pc = t[w].pc /\ t2[w].at = t[w].at /\ t2[w].peer = t[w].peer
  /\ t2[w].bound = t[w].bound
  /\ t2[w].wait = "None" /\ t2[w].aux = NoTicket /\ t2[w].got = t[s].at
  /\ \A i \in Invs : /\ iv2[i].gen = iv[i].gen /\ iv2[i].state = iv[i].state
                     /\ iv2[i].stored = iv[i].stored
                     /\ i # t[s].at[1] => iv2[i].replied = iv[i].replied

\* `reply` in its second hold keeps the threads in order: the caller it claims has its answer
\* and is about to be woken.
LEMMA AnswerKeeps ==
  ASSUME NEW iv, NEW iv2, NEW t, NEW tk, NEW ow, Calls(iv, t, tk, ow),
         NEW s \in Servers, NEW w \in Clients, NEW t2, Answers(iv, iv2, t, t2, s, w),
         t[s].pc = "answer", t[s].at \in tk, tk \in SUBSET Pairs,
         Named(iv, t[s].at),
         t[w].pc = "blocked", t[w].wait = "Reply", t[w].at = t[s].at
  PROVE  Calls(iv2, t2, tk, ow)
<1>1. t \in [Threads -> ThreadType] /\ ow \in SUBSET Threads /\ Apart(t) BY DEF Calls
<1>2. s \in Threads /\ w \in Threads /\ s # w /\ w # Nobody BY Kinds
<1>3. /\ \A r \in Servers \ {s} : t2[r] = t[r]
      /\ \A c \in Clients \ {w} : t2[c] = t[c]
  BY Kinds DEF Answers
<1>4. \A u \in Threads : t2[u].at = t[u].at BY <1>3 DEF Answers
<1>5. t[s].at # NoTicket /\ t[s].at[1] \in Invs
  <2>1. Servant(t, tk, s) BY DEF Calls
  <2>2. t[s].at # NoTicket BY <2>1 DEF Servant, InHold
  <2> QED BY <2>2 DEF Pairs
<1>6. \A r \in Servers : t[r].peer # w BY <1>2, Zenon DEF Calls, Replies
<1>7. w \notin ow BY Zenon DEF Calls, Caller
<1>8. t[s].peer = Nobody BY DEF Calls, Servant
<1>9. \A r \in Servers : Servant(t2, tk, r)
  <2>1. Servant(t2, tk, s)
    <3>1. Servant(t, tk, s) BY DEF Calls
    <3> QED BY <1>5, <3>1 DEF Servant, Answers, ServerPcs, InHold
  <2>2. \A r \in Servers \ {s} : Servant(t2, tk, r) BY <1>3 DEF Calls, Servant
  <2> QED BY <2>1, <2>2
<1>10. ASSUME NEW r \in Servers PROVE Replies(t2, ow, r)
  <2>1. CASE r = s BY <1>7, <2>1 DEF Replies, Answers
  <2>2. CASE r # s
    <3>1. Replies(t, ow, r) /\ t2[r] = t[r] BY <1>3, <2>2 DEF Calls
    <3>2. t[r].peer # Nobody => t2[t[r].peer] = t[t[r].peer]
      <4>1. t[r].peer # Nobody => t[r].peer \in Clients BY <1>1, Kinds DEF ThreadType
      <4> QED BY <1>3, <1>6, <4>1
    <3> QED BY <3>1, <3>2, Zenon DEF Replies
  <2> QED BY <2>1, <2>2
<1>11. ASSUME NEW c \in Clients PROVE Caller(iv2, t2, ow, c)
  <2>1. Caller(iv, t, ow, c) BY DEF Calls
  <2>2. t[c] \in ThreadType BY <1>1, Kinds
  <2>3. t[c].at # NoTicket => t[c].at \in Pairs /\ t[c].at[1] \in Invs /\ t[c].at = <<t[c].at[1], t[c].at[2]>>
    BY <2>2 DEF ThreadType, Handles, Pairs
  <2>4. CASE c = w
    <3>1. t2[s].peer = w BY DEF Answers
    <3>2. /\ t2[w].pc = "blocked" /\ t2[w].at = t[s].at /\ t2[w].peer = Nobody
          /\ t2[w].bound = NoTicket /\ t2[w].wait = "None" /\ t2[w].aux = NoTicket
          /\ t2[w].got = t[s].at
      BY <2>1, <2>4 DEF Answers, Caller
    <3>3. t[s].at[2] <= iv2[t[s].at[1]].gen BY <1>5, <2>1, <2>4 DEF Answers, Caller
    <3> QED BY <1>5, <1>7, <2>4, <3>1, <3>2, <3>3, Zenon DEF Caller, InPlace, ClientPcs
  <2>5. CASE c # w
    <3>1. t2[c] = t[c] BY <1>3, <2>5, Zenon
    <3>2. \A r \in Servers : t[r].peer = c => t2[r].peer = c BY <1>2, <1>3, <1>8, Kinds
    <3>3. InPlace(iv, t, c) => InPlace(iv2, t2, c) BY <3>1, <3>2 DEF InPlace
    <3>4. ASSUME t[c].at # NoTicket, iv2[t[c].at[1]].gen = t[c].at[2],
                 iv2[t[c].at[1]].replied
          PROVE  iv[t[c].at[1]].replied /\ iv[t[c].at[1]].gen = t[c].at[2]
      <4>1. t[c].at[1] = t[s].at[1] => t[c].at = t[w].at
        <5> SUFFICES ASSUME t[c].at[1] = t[s].at[1] PROVE t[c].at = t[w].at BY Zenon
        <5>1. t[s].at = <<t[s].at[1], t[s].at[2]>> BY DEF Pairs
        <5>2. t[c].at[2] = t[s].at[2]
          <6>1. t[s].at[1] \in Invs /\ iv[t[s].at[1]].gen = t[s].at[2] BY <1>5 DEF Named, Pairs
          <6>2. iv2[t[s].at[1]].gen = iv[t[s].at[1]].gen BY <6>1, Zenon DEF Answers
          <6>3. iv2[t[s].at[1]].gen = t[c].at[2] BY <3>4, Zenon
          <6> QED BY <6>1, <6>2, <6>3, Zenon
        <5> QED BY <2>3, <3>4, <5>1, <5>2, Zenon
      <4>2. t[c].at # t[w].at BY <1>1, <2>5, <3>4, Zenon DEF Apart
      <4> QED BY <2>3, <3>4, <4>1, <4>2, Zenon DEF Answers
    <3>5. /\ ~Crossing /\ t2[c].pc \in {"admitted", "blocked", "woken"}
          /\ iv2[t2[c].at[1]].gen = t2[c].at[2]
          /\ iv2[t2[c].at[1]].replied /\ ~iv2[t2[c].at[1]].stored
          => t2[c].pc # "admitted" /\ InPlace(iv2, t2, c)
      <4>1. t[c].pc \in {"admitted", "blocked", "woken"} => t[c].at # NoTicket
        BY <2>1, Zenon DEF Caller
      <4>2. t[c].at # NoTicket => iv2[t[c].at[1]].stored = iv[t[c].at[1]].stored
        BY <2>3, Zenon DEF Answers
      <4> QED BY <2>1, <3>1, <3>3, <3>4, <4>1, <4>2, Zenon DEF Caller
    <3>6. t[c].at # NoTicket => /\ iv2[t[c].at[1]].gen = iv[t[c].at[1]].gen
                               /\ iv2[t[c].at[1]].state = iv[t[c].at[1]].state
      BY <2>3, Zenon DEF Answers
    <3>7. t[c].pc = "discharge" => t[c].at # NoTicket BY <2>1, Zenon DEF Caller
    <3> QED BY <2>1, <3>1, <3>2, <3>5, <3>6, <3>7, ZenonT(30) DEF Caller
  <2> QED BY <2>4, <2>5
<1>12. Apart(t2) BY <1>1, <1>4, Kinds DEF Apart
<1> QED BY <1>1, <1>9, <1>10, <1>11, <1>12, Zenon DEF Calls, Answers

\* The replier leaves the kernel: it names the answer to the caller it claimed and
\* owes it a wake.
Leaves(t, t2, s, w) ==
  /\ t2 \in [Threads -> ThreadType] /\ \A u \in Threads \ {s, w} : t2[u] = t[u]
  /\ t2[s].pc = "user" /\ t2[s].peer = Nobody /\ t2[s].at = NoTicket /\ t2[s].wait = "None"
  /\ t2[w].pc = t[w].pc /\ t2[w].at = t[w].at /\ t2[w].peer = t[w].peer
  /\ t2[w].bound = t[w].bound /\ t2[w].wait = t[w].wait /\ t2[w].got = t[w].got
  /\ t2[w].aux = t[s].at

\* The end of `reply` keeps the threads in order: the caller that was claimed is owed its
\* wake.
LEMMA ReplierDone ==
  ASSUME NEW iv, NEW t, NEW tk, NEW ow, Calls(iv, t, tk, ow), NEW s \in Servers,
         NEW w \in Clients, t[s].pc = "collect", t[s].peer = w, NEW t2, Leaves(t, t2, s, w)
  PROVE  Calls(iv, t2, tk, ow \cup {w})
<1>1. t \in [Threads -> ThreadType] /\ ow \in SUBSET Threads /\ Apart(t) BY DEF Calls
<1>2. s \in Threads /\ w \in Threads /\ s # w /\ w # Nobody BY Kinds, Zenon
<1>3. /\ \A r \in Servers \ {s} : t2[r] = t[r]
      /\ \A c \in Clients \ {w} : t2[c] = t[c]
  BY Kinds DEF Leaves
<1>4. Replies(t, ow, s) /\ Servant(t, tk, s) BY DEF Calls
<1>5. /\ t[w].pc = "blocked" /\ t[w].wait = "None" /\ t[w].at = t[s].at /\ t[w].got = t[s].at
      /\ t[s].at # NoTicket
  BY <1>2, <1>4, Zenon DEF Replies, Servant, InHold
<1>6. ASSUME NEW r \in Servers, r # s PROVE t[r].peer # w
  <2>1. t[r].peer = w => t[r].at = t[s].at BY <1>2, <1>5, Zenon DEF Calls, Replies
  <2> QED BY <1>1, <1>5, <1>6, <2>1, Zenon DEF Apart
<1>7. \A r \in Servers : Servant(t2, tk, r)
  <2>1. Servant(t2, tk, s) BY Zenon DEF Servant, Leaves, ServerPcs, InHold
  <2>2. \A r \in Servers \ {s} : Servant(t2, tk, r) BY <1>3, Zenon DEF Calls, Servant
  <2> QED BY <2>1, <2>2, Zenon
<1>8. ASSUME NEW r \in Servers PROVE Replies(t2, ow \cup {w}, r)
  <2>1. CASE r = s BY <2>1, Zenon DEF Replies, Leaves
  <2>2. CASE r # s
    <3>1. Replies(t, ow, r) /\ t2[r] = t[r] /\ t[r].peer # w BY <1>3, <1>6, <2>2, Zenon DEF Calls
    <3>2. t[r].peer # Nobody => t2[t[r].peer] = t[t[r].peer]
      <4>1. t[r].peer # Nobody => t[r].peer \in Clients BY <1>1, Kinds DEF ThreadType
      <4> QED BY <1>3, <3>1, <4>1, Zenon
    <3> QED BY <3>1, <3>2, Zenon DEF Replies
  <2> QED BY <2>1, <2>2, Zenon
<1>9. ASSUME NEW c \in Clients PROVE Caller(iv, t2, ow \cup {w}, c)
  <2>1. Caller(iv, t, ow, c) BY DEF Calls
  <2>2. CASE c = w
    <3>1. /\ t2[w].pc = "blocked" /\ t2[w].wait = "None" /\ t2[w].at = t[w].at
          /\ t2[w].got = t[w].at /\ t2[w].aux = t[w].at /\ t2[w].at # NoTicket
          /\ t2[w].bound = NoTicket /\ t2[w].peer = Nobody
      BY <1>5, <2>1, <2>2 DEF Leaves, Caller
    <3>2. t2[w].at[2] <= iv[t2[w].at[1]].gen BY <1>5, <2>1, <2>2, <3>1, Zenon DEF Caller
    <3> QED BY <2>2, <3>1, <3>2, Zenon DEF Caller, InPlace, ClientPcs
  <2>3. CASE c # w
    <3>1. t2[c] = t[c] /\ (c \in ow \cup {w} <=> c \in ow) BY <1>3, <2>3, Zenon
    <3>2. \A r \in Servers : t[r].peer = c => t2[r].peer = c BY <1>3, <2>3, Zenon
    <3> QED BY <2>1, <3>1, <3>2, Zenon DEF Caller, InPlace
  <2> QED BY <2>2, <2>3, Zenon
<1>10. Apart(t2)
  <2>1. \A c \in Clients : t2[c].at = t[c].at BY <1>3, Zenon DEF Leaves
  <2>2. \A r \in Servers : t2[r].at \in {t[r].at, NoTicket} BY <1>3, Zenon DEF Leaves
  <2>3. \A c, d \in Clients : c # d /\ t2[c].at # NoTicket => t2[c].at # t2[d].at
    BY <1>1, <2>1 DEF Apart
  <2>4. \A r, v \in Servers : r # v /\ t2[r].at # NoTicket => t2[r].at # t2[v].at
    BY <1>1, <2>2 DEF Apart
  <2> QED BY <2>3, <2>4, Zenon DEF Apart
<1>11. ow \cup {w} \in SUBSET Threads BY <1>1, <1>2, Zenon
<1> QED BY <1>7, <1>8, <1>9, <1>10, <1>11, Zenon DEF Calls, Leaves

\* Nobody is claimed by a replier while no thread is inside a hold.
LEMMA Unheld ==
  ASSUME NEW iv, NEW t, NEW tk, NEW ow, Calls(iv, t, tk, ow),
         \A u \in Threads : t[u].pc \notin InHold
  PROVE  /\ \A s \in Servers : t[s].peer = Nobody
         /\ \A u \in Threads : t[u].pc \notin {"answer", "discharge"}
BY Kinds, Zenon DEF Calls, Servant, InHold

\* A step after which no more receivers wait and no more is queued for them.
LEMMA ReachedLess ==
  ASSUME NEW q, NEW ch, NEW t, NEW up, Reached(q, ch, t, up), NEW q2, NEW t2, NEW up2,
         NEW ch2 \in [open : BOOLEAN, receivers : SUBSET Servers],
         ch2.receivers = ch.receivers,
         \A s \in Servers : t2[s].pc = "blocked" /\ t2[s].wait = "Receive" =>
                            t[s].pc = "blocked" /\ t[s].wait = "Receive",
         q2 # <<>> /\ up2 = "Runnable" => q # <<>> /\ up = "Runnable"
  PROVE  Reached(q2, ch2, t2, up2)
BY Zenon DEF Reached

\* `take_receiver`: it claims a waiting receiver if there is one, and every other
\* waiting receiver keeps its bit.
LEMMA TakenIs ==
  ASSUME NEW up, Reached(queue, channel, th, up)
  PROVE  /\ ReceiverTaken \in SUBSET Servers /\ ReceiversLeft \in SUBSET Servers
         /\ \A s \in ReceiverTaken : Waiting(s, "Receive")
         /\ \A s \in Servers : Waiting(s, "Receive") =>
              ReceiverTaken # {} /\ (s \in ReceiverTaken \/ s \in ReceiversLeft)
<1>1. /\ channel.receivers \in SUBSET Servers
      /\ \A s \in Servers : Waiting(s, "Receive") => s \in WaitingReceivers
  BY Zenon DEF Reached, WaitingReceivers, Waiting
<1>2. WaitingReceivers \in SUBSET Servers /\ WaitingReceivers \in SUBSET Nat
  BY <1>1, InvocationsAssumption, Zenon DEF WaitingReceivers
<1>3. ReceiversLeft \in SUBSET Servers BY <1>1 DEF ReceiversLeft
<1>4. CASE WaitingReceivers = {} BY <1>1, <1>3, <1>4, Zenon DEF ReceiverTaken
<1>5. CASE WaitingReceivers # {}
  <2> DEFINE m == Min(WaitingReceivers)
  <2>1. m \in WaitingReceivers /\ \A y \in WaitingReceivers : m <= y
    BY <1>2, <1>5, LeastNat, Zenon DEF Min
  <2>2. ReceiverTaken = {m} BY <1>5 DEF ReceiverTaken
  <2> HIDE DEF m
  <2>3. \A s \in WaitingReceivers : s = m \/ s > m BY <1>2, <2>1
  <2>4. \A s \in WaitingReceivers : s \in ReceiverTaken \/ s \in ReceiversLeft
    BY <2>2, <2>3, Zenon DEF ReceiversLeft, WaitingReceivers
  <2>5. Waiting(m, "Receive") BY <2>1 DEF WaitingReceivers
  <2> QED BY <1>1, <1>2, <1>3, <2>1, <2>2, <2>4, <2>5, Zenon
<1> QED BY <1>4, <1>5, Zenon

-----------------------------------------------------------------------------
(* The flush and an expired wait.                                          *)

\* A ticket is not the value that stands for none.
LEMMA SomeTicket ==
  ASSUME NEW k \in Pairs
  PROVE  k # NoTicket
<1>1. PICK a \in Invs, b \in Nat : k = <<a, b>> BY DEF Pairs
<1>2. Len(<<a, b>>) = 2 /\ Len(<<>>) = 0 OBVIOUS
<1> QED BY <1>1, <1>2 DEF NoTicket

\* What the invariant says of the types.
LEMMA Parts ==
  ASSUME IInv
  PROVE  /\ inv \in [Invs -> RecordType] /\ tickets \in SUBSET Pairs
         /\ th \in [Threads -> ThreadType] /\ owed \in SUBSET Threads
         /\ queue \in Seq(Invs) /\ IsInjective(queue)
         /\ Range(queue) = {i \in Invs : inv[i].state = "Admitted"}
         /\ channel \in [open : BOOLEAN, receivers : SUBSET Servers]
BY DEF IInv, Records, Typed, Queued, Calls, Reached

\* The records that a receiving thread works on in a hold, or has a ticket for, were
\* delivered.
LEMMA Obliged ==
  ASSUME IInv, NEW k \in tickets
  PROVE  /\ k \in Pairs /\ k[1] \in Invs /\ k = <<k[1], k[2]>> /\ k # NoTicket
         /\ inv[k[1]].state \notin {"Empty", "Admitted"} /\ inv[k[1]].gen = k[2]
         /\ k[1] \notin Range(queue)
<1>1. k \in Pairs BY Parts
<1>2. k[1] \in Invs /\ k = <<k[1], k[2]>> /\ k # NoTicket BY <1>1, SomeTicket DEF Pairs
<1>3. Named(inv, k) /\ inv[k[1]].state # "Admitted" BY DEF IInv, Records, Issued
<1> QED BY <1>1, <1>2, <1>3, Parts DEF Named

\* The type and the place of a caller or of a receiving thread.
LEMMA Place ==
  ASSUME IInv
  PROVE  /\ \A c \in Clients : th[c] \in ThreadType /\ Caller(inv, th, owed, c)
         /\ \A s \in Servers : /\ th[s] \in ThreadType /\ Servant(th, tickets, s)
                               /\ Replies(th, owed, s)
         /\ \A c \in Clients : th[c].at # NoTicket =>
              /\ th[c].at \in Pairs /\ th[c].at[1] \in Invs
              /\ th[c].at = <<th[c].at[1], th[c].at[2]>>
<1>1. /\ \A c \in Clients : th[c] \in ThreadType /\ Caller(inv, th, owed, c)
      /\ \A s \in Servers : /\ th[s] \in ThreadType /\ Servant(th, tickets, s)
                            /\ Replies(th, owed, s)
  BY Kinds, Zenon DEF IInv, Calls
<1>2. ASSUME NEW c \in Clients, th[c].at # NoTicket
      PROVE  /\ th[c].at \in Pairs /\ th[c].at[1] \in Invs
             /\ th[c].at = <<th[c].at[1], th[c].at[2]>>
  <2>1. th[c].at \in Pairs BY <1>1, <1>2, Zenon DEF ThreadType, Handles
  <2> QED BY <2>1 DEF Pairs
<1> QED BY <1>1, <1>2, Zenon

\* A caller that is not asleep is claimed by no replier.
LEMMA Unclaimed ==
  ASSUME IInv, NEW c \in Clients, th[c].pc # "blocked" \/ th[c].wait # "None" \/ c \in owed
  PROVE  \A s \in Servers : th[s].peer # c
BY Place, Kinds DEF Replies

\* A thread that is in no call.
LEMMA AtRest ==
  ASSUME NEW b \in Handles
  PROVE  LET x == [Thread EXCEPT !.bound = b]
         IN  /\ x \in ThreadType /\ x.pc = "user" /\ x.at = NoTicket /\ x.wait = "None"
             /\ x.aux = NoTicket /\ x.peer = Nobody /\ x.got = NoTicket /\ x.bound = b
BY DEF Thread, ThreadType, Handles, ServerPcs

\* The record of a thread that is in no call, field by field.
LEMMA ThreadIs ==
  /\ Thread \in ThreadType /\ Thread.pc = "user" /\ Thread.at = NoTicket
  /\ Thread.wait = "None" /\ Thread.aux = NoTicket /\ Thread.peer = Nobody
  /\ Thread.got = NoTicket /\ Thread.bound = NoTicket
BY DEF Thread, ThreadType, Handles, ServerPcs

\* The caller goes back to its program.
LEMMA ClientBack ==
  ASSUME NEW iv, NEW t, NEW tk, NEW ow, Calls(iv, t, tk, ow), NEW c \in Clients, c \notin ow,
         \A s \in Servers : t[s].peer # c, NEW t2, t2 = [t EXCEPT ![c] = Thread]
  PROVE  Calls(iv, t2, tk, ow)
<1>1. t \in [Threads -> ThreadType] /\ c \in Threads BY Kinds DEF Calls
<1>2. Only(t, t2, c) /\ t2[c] = Thread BY <1>1, ThreadIs DEF Only
<1>3. Caller(iv, t2, ow, c) BY <1>2, ThreadIs, Zenon DEF Caller, ClientPcs, InPlace
<1>4. t2[c].at = NoTicket BY <1>2, ThreadIs
<1> QED BY <1>2, <1>3, <1>4, ClientKeeps, Zenon

\* The receiving thread goes back to its program.
LEMMA ServerBack ==
  ASSUME NEW iv, NEW t, NEW tk, NEW ow, Calls(iv, t, tk, ow), NEW s \in Servers,
         t[s].peer = Nobody, NEW t2, Only(t, t2, s), NEW ow2 \in {ow, ow \ {s}},
         t2[s].pc = "user", t2[s].at = NoTicket, t2[s].wait # "Reply", t2[s].peer = Nobody
  PROVE  Calls(iv, t2, tk, ow2)
<1>1. Servant(t2, tk, s) BY DEF Servant, ServerPcs, InHold
<1> QED BY <1>1, ServerKeeps, ZenonT(30)

\* The threads after a change of the table that keeps the answers.
LEMMA TableStep ==
  ASSUME IInv, NEW iv2 \in [Invs -> RecordType], NEW tk2,
         \A i \in Invs : /\ iv2[i].gen = inv[i].gen
                         /\ iv2[i].replied /\ ~iv2[i].stored => inv[i].replied /\ ~inv[i].stored
                         /\ iv2[i].state = "Admitted" => inv[i].state = "Admitted",
         \A s \in Servers : th[s].pc \in {"answer", "discharge"} => th[s].at \in tk2
  PROVE  Calls(iv2, th, tk2, owed)
<1>1. \A i \in Invs : inv[i].gen \in Nat BY Parts DEF RecordType
<1>2. \A i \in Invs : inv[i].gen <= iv2[i].gen BY <1>1
<1>3. \A c \in Clients : th[c].pc = "discharge" =>
         th[c].at[1] \in Invs /\ inv[th[c].at[1]].state # "Admitted"
  BY Place, Zenon DEF Caller
<1>4. \A c \in Clients : th[c].pc = "discharge" => iv2[th[c].at[1]].state # "Admitted"
  BY <1>3
<1>5. Older(inv, iv2, th) BY <1>2, <1>4, Zenon DEF Older
<1> QED BY <1>5, Parts, CallsAged, Zenon DEF IInv

\* Threads inside the hold of a ticket have it.
LEMMA Held ==
  ASSUME IInv
  PROVE  \A s \in Servers : th[s].pc \in {"answer", "discharge"} => th[s].at \in tickets
BY Place, Zenon DEF Servant

\* A write of one field of a record that no account and no answer depends on.
LEMMA WaiterSet ==
  ASSUME NEW r \in RecordType, NEW x, x = [r EXCEPT !.waiter = Nobody]
  PROVE  /\ x \in RecordType /\ x.state = r.state /\ x.effect = r.effect
         /\ x.charged = r.charged /\ x.gen = r.gen /\ x.refs = r.refs
         /\ x.replied = r.replied /\ x.stored = r.stored
BY DEF RecordType
----------------------------------------------------------------------------
\* One lemma per action: the invariant is kept.

\* `flush_wakes`
LEMMA StepWake ==
  ASSUME IInv, NEW u \in Threads, Wake(u)
  PROVE  IInv'
<1>1. \A s \in Servers : th'[s].bound = th[s].bound BY Parts, Kinds DEF Wake, Thread
<1>2. Records(inv, free, queue, tickets, th', scope) BY <1>1, BindingsKept, Zenon DEF IInv
<1>3. \A s \in Servers : th'[s].pc = "blocked" /\ th'[s].wait = "Receive" =>
                         th[s].pc = "blocked" /\ th[s].wait = "Receive"
  BY Parts, Kinds DEF Wake, Thread
<1>4. Reached(queue, channel, th', domain[Server])
  BY <1>3, Parts, ReachedLess DEF IInv
<1>5. CASE u \in Clients
  <2>1. th[u].pc = "blocked" /\ th[u].wait = "None" /\ u \in owed
    BY <1>5, Place, Zenon DEF Caller, Wake
  <2>2. th' = [th EXCEPT ![u].pc = "woken"] BY <1>5, <2>1, Kinds DEF Wake
  <2>3. /\ th'[u] \in ThreadType /\ th'[u].pc = "woken" /\ th'[u].at = th[u].at
        /\ th'[u].wait = "None" /\ th'[u].aux = th[u].aux /\ th'[u].peer = th[u].peer
        /\ th'[u].got = th[u].got /\ th'[u].bound = th[u].bound
    BY <2>1, <2>2, Parts, Zenon DEF ThreadType, ClientPcs
  <2>4. Only(th, th', u) BY <2>2, <2>3, Parts DEF Only
  <2>5. \A s \in Servers : th[s].peer # u BY <1>5, <2>1, Unclaimed
  <2>6. Caller(inv, th, owed, u) BY <1>5, Place, Zenon
  <2>7. InPlace(inv, th, u) => th'[u].aux = th'[u].at BY <2>3, <2>5 DEF InPlace
  <2>8. Caller(inv, th', owed \ {u}, u)
    BY <2>1, <2>3, <2>6, <2>7, Zenon DEF Caller, InPlace, ClientPcs
  <2>9. th[u].at # NoTicket => \A d \in Clients \ {u} : th[d].at # th[u].at
    BY <1>5, Zenon DEF IInv, Calls, Apart
  <2>10. Calls(inv, th', tickets, owed \ {u})
    <3>1. Calls(inv, th, tickets, owed) BY Zenon DEF IInv
    <3>2. owed \ {u} \in {owed, owed \ {u}} BY Zenon
    <3>3. th'[u].at # NoTicket => \A d \in Clients \ {u} : th[d].at # th'[u].at
      BY <2>3, <2>9, Zenon
    <3> QED BY <1>5, <2>4, <2>5, <2>8, <3>1, <3>2, <3>3, ClientKeeps, Zenon
  <2> QED BY <1>2, <1>4, <2>10, Zenon DEF IInv, Wake
<1>6. CASE u \in Servers
  <2>1. CASE th[u].pc = "blocked"
    <3>1. th' = [th EXCEPT ![u] = [Thread EXCEPT !.bound = th[u].bound]] /\ u \notin Clients
      BY <1>6, <2>1, Kinds DEF Wake
    <3>2. th[u].bound \in Handles /\ th[u].peer = Nobody
      BY <1>6, <2>1, Place, Zenon DEF ThreadType, Servant
    <3>3. /\ th'[u] \in ThreadType /\ th'[u].pc = "user" /\ th'[u].at = NoTicket
          /\ th'[u].wait = "None" /\ th'[u].peer = Nobody
      BY <3>1, <3>2, AtRest, Parts
    <3>4. Only(th, th', u) BY <3>1, <3>3, Parts, Zenon DEF Only
    <3>5. Calls(inv, th', tickets, owed \ {u})
      BY <1>6, <3>2, <3>3, <3>4, ServerBack, Zenon DEF IInv
    <3> QED BY <1>2, <1>4, <3>5 DEF IInv, Wake
  <2>2. CASE th[u].pc # "blocked"
    <3>1. th' = th BY <2>2 DEF Wake
    <3>2. Only(th, th, u) BY Parts DEF Only
    <3>3. th[u].at # NoTicket => \A r \in Servers \ {u} : th[r].at # th[u].at
      BY <1>6 DEF IInv, Calls, Apart
    <3>4. Servant(th, tickets, u) BY <1>6, Place, Zenon
    <3>5. Calls(inv, th, tickets, owed \ {u})
      BY <1>6, <3>2, <3>3, <3>4, ServerKeeps DEF IInv
    <3> QED BY <1>2, <1>4, <3>1, <3>5, Zenon DEF IInv, Wake
  <2> QED BY <2>1, <2>2
<1> QED BY <1>5, <1>6 DEF Threads

\* `expire_waits`
LEMMA StepExpireWait ==
  ASSUME IInv, NEW u \in Threads, ExpireWait(u)
  PROVE  IInv'
<1>1. Claims(th, th', {u}) BY Parts, Zenon DEF Claims, ExpireWait
<1>2. Claimed(th[u]).bound = th[u].bound /\ Claimed(th[u]).wait = "None" BY Parts, ClaimedIs
<1>3. /\ \A s \in Servers : th'[s].bound = th[s].bound
      /\ \A s \in Servers : th'[s].pc = "blocked" /\ th'[s].wait = "Receive" =>
                            th[s].pc = "blocked" /\ th[s].wait = "Receive"
  BY <1>1, <1>2, Kinds, Zenon DEF Claims
<1>4. Records(inv, free, queue, tickets, th', scope) BY <1>3, BindingsKept DEF IInv
<1>5. Reached(queue, channel, th', domain[Server])
  BY <1>3, Parts, ReachedLess DEF IInv
<1>6. u \in Clients => th[u].wait = "Reply"
  <2>1. u \in Clients => th[u].wait \in {"None", "Reply", "Receive"} /\ th[u].wait # "Receive"
    BY Place, Zenon DEF ThreadType, Caller
  <2> QED BY <2>1 DEF ExpireWait
<1>7. {u} \in SUBSET Threads /\ \A v \in {u} : th[v].pc = "blocked" BY DEF ExpireWait
<1>8. Calls(inv, th', tickets, owed \cup {u})
  BY <1>1, <1>6, <1>7, ClaimKeeps, Zenon DEF IInv
<1> QED BY <1>4, <1>5, <1>8 DEF IInv, ExpireWait
=============================================================================
