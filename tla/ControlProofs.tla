--------------------------- MODULE ControlProofs ----------------------------
(***************************************************************************)
(* The control plane: the lock that every control operation holds, and the *)
(* life of the scopes that those operations work on.                       *)
(*                                                                         *)
(* The control lock is safe for any number of processors and any ticket    *)
(* width that names more tickets than there are processors.                *)
(*                                                                         *)
(* A scope's life is proved for a table of any size, any tree and any      *)
(* number of domains and calls.  The invariant is local: it compares a     *)
(* scope with its parent only (Nested), and what is in it with its state   *)
(* (Clear).  What it says of whole subtrees follows because a chain is the *)
(* least set closed under the parent link.                                 *)
(***************************************************************************)
EXTENDS BrLock, ScopeLifecycle, FiniteSetTheorems, TLAPS

-----------------------------------------------------------------------------
(* The control lock (BrLock).                                              *)

\* A set of processors is finite and has at most NCpu members: the processors
\* in write are fewer than the tickets a u32 names.
LEMMA CpuSubset ==
  ASSUME NEW S, S \subseteq Cpus
  PROVE  /\ IsFiniteSet(S)
         /\ Cardinality(S) \in Nat
         /\ Cardinality(S) <= NCpu
<1>1. IsFiniteSet(Cpus) /\ Cardinality(Cpus) = NCpu
  <2>1. 0 \in Int /\ NCpu - 1 \in Int
    BY NCpuAssumption
  <2>2. IsFiniteSet(0..(NCpu - 1))
        /\ Cardinality(0..(NCpu - 1)) = IF 0 > NCpu - 1 THEN 0 ELSE (NCpu - 1) - 0 + 1
    BY <2>1, FS_Interval
  <2> QED BY <2>2, NCpuAssumption DEF Cpus
<1>2. IsFiniteSet(S) /\ Cardinality(S) <= Cardinality(Cpus)
  BY <1>1, FS_Subset
<1>3. Cardinality(S) \in Nat
  BY <1>2, FS_CardinalityType
<1> QED BY <1>1, <1>2, <1>3

\* The lock starts free.
LEMMA InitIInv == LockInit => LockIInv
<1> SUFFICES ASSUME LockInit PROVE LockIInv
  OBVIOUS
<1>1. LockTypeOK
  BY NCpuAssumption, TicketModAssumption DEF LockInit, LockTypeOK
<1>2. Writers = {}
  BY DEF LockInit, Writers, WritePcs
<1>3. Cardinality(Writers) = 0
  BY <1>2, FS_EmptySet
<1>4. TicketInv
  BY <1>2, <1>3, TicketModAssumption, NCpuAssumption DEF LockInit, TicketInv
<1>5. HoldInv
  BY DEF LockInit, HoldInv, Past, Holding, Scanned
<1> QED BY <1>1, <1>4, <1>5 DEF LockIInv

\* A step that moves no processor into or out of write and leaves the ticket
\* counters alone keeps the outstanding tickets as they are.
LEMMA TicketsUntouched ==
  ASSUME TicketInv, Writers' = Writers,
         UNCHANGED <<next, serving, ticket>>
  PROVE  TicketInv'
BY DEF TicketInv, Offset

\* Taking a ticket: the new one follows every outstanding one, and the ticket
\* space is larger than the number of processors, so it equals none of them.
LEMMA TicketTaken ==
  ASSUME LockIInv, NEW c \in Cpus, WriteTicket(c)
  PROVE  TicketInv'
<1> DEFINE N == Cardinality(Writers)
<1>1. /\ pc[c] = "out" /\ pc' = [pc EXCEPT ![c] = "turn"]
      /\ ticket' = [ticket EXCEPT ![c] = next]
      /\ next' = Wrap(next) /\ serving' = serving
  BY DEF WriteTicket, Goto
<1>2. c \notin Writers /\ Writers' = Writers \union {c}
  BY <1>1 DEF Writers, WritePcs, LockIInv, LockTypeOK
<1>3. IsFiniteSet(Writers) /\ N \in Nat
  BY CpuSubset DEF Writers
<1>4. Cardinality(Writers') = N + 1
  BY <1>2, <1>3, FS_AddElement
<1>5. Cardinality(Writers') <= NCpu
  BY CpuSubset DEF Writers
<1>6. N + 1 < TicketMod
  BY <1>4, <1>5, <1>3, NCpuAssumption, TicketModAssumption
<1>7. next' = IF serving' + (N + 1) < TicketMod
                THEN serving' + (N + 1) ELSE serving' + (N + 1) - TicketMod
  BY <1>1, <1>3, <1>6, TicketModAssumption DEF LockIInv, TicketInv, LockTypeOK, Wrap
<1>8. Offset(next) = N
  BY <1>3, <1>6, TicketModAssumption DEF LockIInv, TicketInv, LockTypeOK, Offset
<1>9. \A d \in Writers : ticket'[d] = ticket[d]
  BY <1>1, <1>2 DEF Writers, LockIInv, LockTypeOK
<1>10. ticket'[c] = next
  BY <1>1 DEF LockIInv, LockTypeOK
<1>11. \A d \in Writers : ticket[d] # next
  BY <1>8, <1>3 DEF LockIInv, TicketInv, Offset, Writers, LockTypeOK
<1>12. \A d \in Writers' : Offset(ticket[d])' < N + 1
  <2> SUFFICES ASSUME NEW d \in Writers' PROVE Offset(ticket[d])' < N + 1
    OBVIOUS
  <2>1. CASE d = c
    BY <2>1, <1>1, <1>8, <1>10, <1>3 DEF Offset
  <2>2. CASE d \in Writers
    <3>1. Offset(ticket[d]) \in Int /\ Offset(ticket[d]) < N
      BY <2>2, TicketModAssumption DEF LockIInv, TicketInv, LockTypeOK, Offset, Writers
    <3>2. Offset(ticket[d])' = Offset(ticket[d])
      BY <2>2, <1>1, <1>9 DEF Offset
    <3> QED BY <3>1, <3>2, <1>3
  <2> QED BY <2>1, <2>2, <1>2
<1>13. \A d, e \in Writers' : ticket'[d] = ticket'[e] => d = e
  BY <1>2, <1>9, <1>10, <1>11 DEF LockIInv, TicketInv
<1> QED BY <1>4, <1>7, <1>12, <1>13 DEF TicketInv

\* Passing the turn on: the holder's ticket is the one being served, so every
\* other outstanding ticket is one place nearer afterwards.
LEMMA TicketServed ==
  ASSUME LockIInv, NEW c \in Cpus, WriteServe(c)
  PROVE  TicketInv'
<1> DEFINE N == Cardinality(Writers)
<1>1. /\ pc[c] = "handover" /\ pc' = [pc EXCEPT ![c] = "out"]
      /\ ticket' = ticket /\ next' = next /\ serving' = Wrap(serving)
  BY DEF WriteServe, Goto
<1>2. c \in Writers /\ Writers' = Writers \ {c}
  BY <1>1 DEF Writers, WritePcs, LockIInv, LockTypeOK
<1>3. IsFiniteSet(Writers) /\ N \in Nat /\ N <= NCpu
  BY CpuSubset DEF Writers
<1>4. Cardinality(Writers') = N - 1
  BY <1>2, <1>3, FS_RemoveElement
<1>5. N - 1 \in Nat
  BY <1>4, CpuSubset DEF Writers
<1>6. ticket[c] = serving
  BY <1>1 DEF LockIInv, HoldInv, Past
<1>7. next' = IF serving' + (N - 1) < TicketMod
                THEN serving' + (N - 1) ELSE serving' + (N - 1) - TicketMod
  BY <1>1, <1>3, <1>5, TicketModAssumption, NCpuAssumption
  DEF LockIInv, TicketInv, LockTypeOK, Wrap
<1>8. \A d \in Writers' : Offset(ticket[d])' < N - 1
  <2> SUFFICES ASSUME NEW d \in Writers' PROVE Offset(ticket[d])' < N - 1
    OBVIOUS
  <2>1. d \in Writers /\ ticket[d] # serving
    BY <1>2, <1>6 DEF LockIInv, TicketInv
  <2>2. ticket[d] \in 0..(TicketMod - 1) /\ serving \in 0..(TicketMod - 1)
    BY <2>1 DEF Writers, LockIInv, LockTypeOK
  <2>3. Offset(ticket[d])' = Offset(ticket[d]) - 1
    BY <2>1, <2>2, <1>1, TicketModAssumption DEF Offset, Wrap
  <2>4. Offset(ticket[d]) \in Int /\ Offset(ticket[d]) < N
    BY <2>1, <2>2, TicketModAssumption DEF LockIInv, TicketInv, Offset
  <2> QED BY <2>3, <2>4, <1>3
<1>9. \A d, e \in Writers' : ticket'[d] = ticket'[e] => d = e
  BY <1>1, <1>2 DEF LockIInv, TicketInv
<1> QED BY <1>4, <1>7, <1>8, <1>9 DEF TicketInv

\* Every step keeps the types.
LEMMA NextTypeOK == LockTypeOK /\ [LockNext]_lock_vars => LockTypeOK'
<1> SUFFICES ASSUME LockTypeOK, [LockNext]_lock_vars PROVE LockTypeOK'
  OBVIOUS
<1> USE NCpuAssumption, TicketModAssumption DEF LockTypeOK, ReadPcs, WritePcs
<1>1. CASE UNCHANGED lock_vars
  BY <1>1 DEF lock_vars
<1>2. ASSUME NEW c \in Cpus, ReadStep(c) PROVE LockTypeOK'
  BY <1>2 DEF ReadStep, ReadAnnounce, ReadCheck, ReadWithdraw, ReadDrop, Goto
<1>3. ASSUME NEW c \in Cpus, WriteStep(c) PROVE LockTypeOK'
  <2>1. CASE WriteTicket(c)
    BY <2>1 DEF WriteTicket, Goto, Wrap
  <2>2. CASE WriteTurn(c)
    BY <2>2 DEF WriteTurn, Goto
  <2>3. CASE WriteExclude(c)
    BY <2>3 DEF WriteExclude, Goto
  <2>4. CASE WriteScan(c)
    BY <2>4 DEF WriteScan, Goto
  <2>5. CASE WriteDrop(c)
    BY <2>5 DEF WriteDrop, Goto
  <2>6. CASE WriteServe(c)
    BY <2>6 DEF WriteServe, Goto, Wrap
  <2> QED BY <1>3, <2>1, <2>2, <2>3, <2>4, <2>5, <2>6 DEF WriteStep
<1> QED BY <1>1, <1>2, <1>3 DEF LockNext

\* At most one processor is past its turn: two would have the same ticket.
LEMMA OnePast ==
  ASSUME LockIInv, NEW c \in Cpus, NEW d \in Cpus, Past(c), Past(d)
  PROVE  c = d
BY DEF LockIInv, TicketInv, HoldInv, Past, Writers, WritePcs

\* Every step keeps the flag, the counts and the looks already taken right.
LEMMA NextHoldInv == LockIInv /\ [LockNext]_lock_vars => HoldInv'
<1> SUFFICES ASSUME LockIInv, [LockNext]_lock_vars PROVE HoldInv'
  OBVIOUS
<1> USE DEF Past, Holding
<1>1. CASE UNCHANGED lock_vars
  BY <1>1 DEF lock_vars, LockIInv, HoldInv, Scanned
<1>2. ASSUME NEW c \in Cpus, ReadStep(c) PROVE HoldInv'
  <2>1. CASE ReadAnnounce(c)
    <3>0. \A d \in Cpus : Scanned(d) \subseteq Cpus
      BY NCpuAssumption DEF LockIInv, LockTypeOK, Scanned, Cpus
    <3>1. \A d \in Cpus : Scanned(d)' = Scanned(d)
      BY <2>1 DEF ReadAnnounce, Goto, LockIInv, LockTypeOK, Scanned
    <3>2. \A d \in Cpus : pc'[d] = "shared" => pc[d] = "shared"
      BY <2>1 DEF ReadAnnounce, Goto, LockIInv, LockTypeOK
    <3>3. \A d \in Cpus : \A r \in Scanned(d)' : pc'[r] # "shared"
      BY <3>0, <3>1, <3>2 DEF LockIInv, HoldInv
    <3> QED BY <2>1, <3>3 DEF ReadAnnounce, Goto, LockIInv, LockTypeOK, HoldInv
  <2>2. CASE ReadCheck(c)
    <3>1. \A d \in Cpus : Past(d)' <=> Past(d)
      BY <2>2 DEF ReadCheck, Goto, LockIInv, LockTypeOK
    <3>2. \A d \in Cpus : Holding(d)' <=> Holding(d)
      BY <2>2 DEF ReadCheck, Goto, LockIInv, LockTypeOK
    <3>3. \A d \in Cpus : Scanned(d)' = Scanned(d)
      BY <2>2 DEF ReadCheck, Goto, LockIInv, LockTypeOK, Scanned
    <3>4. \A d \in Cpus : \A r \in Scanned(d) : pc'[r] # "shared"
      <4> SUFFICES ASSUME NEW d \in Cpus, NEW r \in Scanned(d), pc'[r] = "shared"
                   PROVE FALSE
        OBVIOUS
      <4>1. Holding(d) /\ r \in Cpus
        BY NCpuAssumption DEF Scanned, Cpus, LockIInv, LockTypeOK
      <4>2. excluding = 1
        BY <4>1 DEF LockIInv, HoldInv
      <4>3. pc[r] # "shared"
        BY DEF LockIInv, HoldInv
      <4> QED BY <2>2, <4>1, <4>2, <4>3 DEF ReadCheck, Goto, LockIInv, LockTypeOK
    <3> QED BY <2>2, <3>1, <3>2, <3>3, <3>4
            DEF ReadCheck, Goto, LockIInv, LockTypeOK, HoldInv
  <2>3. CASE ReadWithdraw(c)
    BY <2>3 DEF ReadWithdraw, Goto, LockIInv, LockTypeOK, HoldInv, Scanned
  <2>4. CASE ReadDrop(c)
    BY <2>4 DEF ReadDrop, Goto, LockIInv, LockTypeOK, HoldInv, Scanned
  <2> QED BY <1>2, <2>1, <2>2, <2>3, <2>4 DEF ReadStep
<1>3. ASSUME NEW c \in Cpus, WriteStep(c) PROVE HoldInv'
  <2>1. CASE WriteTicket(c)
    BY <2>1 DEF WriteTicket, Goto, LockIInv, LockTypeOK, HoldInv, Scanned
  <2>2. CASE WriteTurn(c)
    BY <2>2 DEF WriteTurn, Goto, LockIInv, LockTypeOK, HoldInv, Scanned
  <2>3. CASE WriteExclude(c)
    <3>1. Scanned(c)' = {}
      BY <2>3 DEF WriteExclude, Goto, LockIInv, LockTypeOK, Scanned
    <3>2. \A d \in Cpus : d # c => Scanned(d)' = Scanned(d)
      BY <2>3 DEF WriteExclude, Goto, LockIInv, LockTypeOK, Scanned
    <3> QED BY <2>3, <3>1, <3>2 DEF WriteExclude, Goto, LockIInv, LockTypeOK, HoldInv
  <2>4. CASE WriteScan(c)
    <3>1. CASE /\ pc[c] = "scan" /\ scan[c] < NCpu /\ readers[scan[c]] = 0
               /\ scan' = [scan EXCEPT ![c] = @ + 1]
               /\ UNCHANGED <<next, serving, excluding, readers, pc, ticket>>
      <4>1. scan[c] \in Cpus
        BY <3>1, NCpuAssumption DEF LockIInv, LockTypeOK, Cpus
      <4>2. pc[scan[c]] # "shared"
        BY <3>1, <4>1 DEF LockIInv, HoldInv
      <4>3. Scanned(c)' = Scanned(c) \union {scan[c]}
        BY <3>1, <4>1 DEF Scanned, LockIInv, LockTypeOK
      <4>4. \A d \in Cpus : d # c => Scanned(d)' = Scanned(d)
        BY <3>1 DEF Scanned, LockIInv, LockTypeOK
      <4> QED BY <3>1, <4>2, <4>3, <4>4 DEF LockIInv, HoldInv
    <3>2. CASE /\ Goto(c, "scan", "exclusive") /\ scan[c] = NCpu
               /\ UNCHANGED <<next, serving, excluding, readers, ticket, scan>>
      <4>1. Scanned(c)' = Scanned(c)
        BY <3>2, NCpuAssumption DEF Scanned, Goto, Cpus, LockIInv, LockTypeOK
      <4>2. \A d \in Cpus : d # c => Scanned(d)' = Scanned(d)
        BY <3>2 DEF Scanned, Goto, LockIInv, LockTypeOK
      <4>3. \A d \in Cpus : pc'[d] = "shared" <=> pc[d] = "shared"
        BY <3>2 DEF Goto, LockIInv, LockTypeOK
      <4>4. \A d \in Cpus : Holding(d)' <=> Holding(d)
        BY <3>2 DEF Goto, LockIInv, LockTypeOK
      <4>5. \A d \in Cpus : Scanned(d) \subseteq Cpus
        BY NCpuAssumption DEF Scanned, Cpus, LockIInv, LockTypeOK
      <4>6. \A d \in Cpus : \A r \in Scanned(d)' : pc'[r] # "shared"
        BY <4>1, <4>2, <4>3, <4>5 DEF LockIInv, HoldInv
      <4> QED BY <3>2, <4>4, <4>6 DEF Goto, LockIInv, LockTypeOK, HoldInv
    <3> QED BY <2>4, <3>1, <3>2 DEF WriteScan
  <2>5. CASE WriteDrop(c)
    <3>1. \A d \in Cpus : d # c => ~Past(d)
      BY <2>5, OnePast DEF WriteDrop, Goto
    <3>2. \A d \in Cpus : ~Holding(d)'
      BY <2>5, <3>1 DEF WriteDrop, Goto, LockIInv, LockTypeOK
    <3>3. \A d \in Cpus : Scanned(d)' = {}
      BY <3>2 DEF Scanned
    <3> QED BY <2>5, <3>2, <3>3 DEF WriteDrop, Goto, LockIInv, LockTypeOK, HoldInv
  <2>6. CASE WriteServe(c)
    <3>1. \A d \in Cpus : d # c => ~Past(d)
      BY <2>6, OnePast DEF WriteServe, Goto
    <3>2. \A d \in Cpus : ~Past(d)'
      BY <2>6, <3>1 DEF WriteServe, Goto, LockIInv, LockTypeOK
    <3>3. \A d \in Cpus : Scanned(d)' = {}
      BY <3>2 DEF Scanned
    <3> QED BY <2>6, <3>1, <3>2, <3>3 DEF WriteServe, Goto, LockIInv, LockTypeOK, HoldInv
  <2> QED BY <1>3, <2>1, <2>2, <2>3, <2>4, <2>5, <2>6 DEF WriteStep
<1> QED BY <1>1, <1>2, <1>3 DEF LockNext

\* Every step keeps the outstanding tickets in order.
LEMMA NextTicketInv == LockIInv /\ [LockNext]_lock_vars => TicketInv'
<1> SUFFICES ASSUME LockIInv, [LockNext]_lock_vars PROVE TicketInv'
  OBVIOUS
<1>1. CASE UNCHANGED lock_vars
  BY <1>1, TicketsUntouched DEF lock_vars, LockIInv, Writers
<1>2. ASSUME NEW c \in Cpus, ReadStep(c) PROVE TicketInv'
  <2>1. Writers' = Writers
    BY <1>2 DEF ReadStep, ReadAnnounce, ReadCheck, ReadWithdraw, ReadDrop, Goto,
                Writers, WritePcs, LockIInv, LockTypeOK
  <2>2. UNCHANGED <<next, serving, ticket>>
    BY <1>2 DEF ReadStep, ReadAnnounce, ReadCheck, ReadWithdraw, ReadDrop
  <2> QED BY <2>1, <2>2, TicketsUntouched DEF LockIInv
<1>3. ASSUME NEW c \in Cpus, WriteStep(c) PROVE TicketInv'
  <2>1. CASE WriteTurn(c) \/ WriteExclude(c) \/ WriteScan(c) \/ WriteDrop(c)
    <3>1. Writers' = Writers
      BY <2>1 DEF WriteTurn, WriteExclude, WriteScan, WriteDrop, Goto,
                  Writers, WritePcs, LockIInv, LockTypeOK
    <3>2. UNCHANGED <<next, serving, ticket>>
      BY <2>1 DEF WriteTurn, WriteExclude, WriteScan, WriteDrop
    <3> QED BY <3>1, <3>2, TicketsUntouched DEF LockIInv
  <2> QED BY <1>3, <2>1, TicketTaken, TicketServed DEF WriteStep
<1> QED BY <1>1, <1>2, <1>3 DEF LockNext

\* The ticket and flag invariant of the control lock is inductive.
THEOREM LockInductive == LockSpec => []LockIInv
<1>1. LockIInv /\ [LockNext]_lock_vars => LockIInv'
  BY NextTypeOK, NextHoldInv, NextTicketInv DEF LockIInv
<1> QED BY InitIInv, <1>1, PTL DEF LockSpec

\* A processor holding the machine exclusively is alone in it, for any number
\* of processors and also across the wrap of the ticket counters.
THEOREM ExclusiveIsAlone == LockSpec => []Exclusion
<1>1. LockIInv => Exclusion
  <2> SUFFICES ASSUME LockIInv, NEW c \in Cpus, NEW d \in Cpus,
                      pc[c] = "exclusive", c # d
               PROVE pc[d] \notin {"shared", "exclusive"}
    BY DEF Exclusion
  <2>1. pc[d] # "exclusive"
    BY OnePast DEF Past
  <2>2. pc[d] # "shared"
    BY DEF LockIInv, HoldInv, Scanned
  <2> QED BY <2>1, <2>2
<1> QED BY LockInductive, <1>1, PTL

-----------------------------------------------------------------------------
(* The refinement.                                                         *)

\* The tickets of the line do not move while nobody joins or leaves it.
LEMMA LineUntouched ==
  ASSUME Waiting' = Waiting, UNCHANGED <<serving, ticket>>
  PROVE  [d \in Cpus |-> Before(d)]' = [d \in Cpus |-> Before(d)]
BY DEF Before, Offset

\* A processor in line has a ticket of its own, at its own distance from the
\* one being served.
LEMMA WaitingOffset ==
  ASSUME LockIInv, NEW c \in Writers
  PROVE  /\ Offset(ticket[c]) \in Nat
         /\ ticket[c] \in 0..(TicketMod - 1)
         /\ Offset(ticket[c]) = 0 <=> ticket[c] = serving
BY TicketModAssumption DEF LockIInv, LockTypeOK, Offset, Writers

\* A shared handshake is a shared hold granted or given back, or nothing.
LEMMA ReadRefines ==
  ASSUME LockIInv, NEW c \in Cpus, ReadStep(c)
  PROVE  [Abstract!ANext]_(Abstract!avars)
<1>0. Waiting' = Waiting /\ UNCHANGED <<serving, ticket>>
  BY DEF ReadStep, ReadAnnounce, ReadCheck, ReadWithdraw, ReadDrop, Goto,
         Waiting, WritePcs, LockIInv, LockTypeOK
<1>1. [d \in Cpus |-> Before(d)]' = [d \in Cpus |-> Before(d)]
  BY <1>0, LineUntouched
<1>2. {d \in Cpus : pc[d] = "exclusive"}' = {d \in Cpus : pc[d] = "exclusive"}
  BY DEF ReadStep, ReadAnnounce, ReadCheck, ReadWithdraw, ReadDrop, Goto,
         LockIInv, LockTypeOK
<1>3. CASE ReadCheck(c) /\ excluding = 0
  <2>1. /\ {d \in Cpus : pc[d] = "shared"}' = {d \in Cpus : pc[d] = "shared"} \union {c}
        /\ c \notin {d \in Cpus : pc[d] = "shared"}
        /\ c \notin Waiting
    BY <1>3 DEF ReadCheck, Goto, LockIInv, LockTypeOK, Waiting, WritePcs
  <2>2. {d \in Cpus : pc[d] = "exclusive"} = {}
    BY <1>3 DEF LockIInv, HoldInv, Holding
  <2>3. Abstract!GrantShared(c)
    BY <1>0, <1>1, <1>2, <2>1, <2>2 DEF Abstract!GrantShared
  <2> QED BY <2>3 DEF Abstract!ANext
<1>4. CASE ReadDrop(c)
  <2>1. /\ {d \in Cpus : pc[d] = "shared"}' = {d \in Cpus : pc[d] = "shared"} \ {c}
        /\ c \in {d \in Cpus : pc[d] = "shared"}
    BY <1>4 DEF ReadDrop, Goto, LockIInv, LockTypeOK
  <2>2. Abstract!ReleaseShared(c)
    BY <1>0, <1>1, <1>2, <2>1 DEF Abstract!ReleaseShared
  <2> QED BY <2>2 DEF Abstract!ANext
<1>5. CASE ReadAnnounce(c) \/ ReadWithdraw(c) \/ (ReadCheck(c) /\ excluding = 1)
  <2>1. {d \in Cpus : pc[d] = "shared"}' = {d \in Cpus : pc[d] = "shared"}
    BY <1>5 DEF ReadAnnounce, ReadWithdraw, ReadCheck, Goto, LockIInv, LockTypeOK
  <2> QED BY <1>0, <1>1, <1>2, <2>1 DEF Abstract!avars
<1> QED BY <1>3, <1>4, <1>5 DEF ReadStep, LockIInv, LockTypeOK

\* Taking a ticket joins the line behind everybody in it.
LEMMA TicketRefines ==
  ASSUME LockIInv, NEW c \in Cpus, WriteTicket(c)
  PROVE  Abstract!Ask(c)
<1>1. /\ pc[c] = "out" /\ pc' = [pc EXCEPT ![c] = "turn"]
      /\ ticket' = [ticket EXCEPT ![c] = next] /\ serving' = serving
  BY DEF WriteTicket, Goto
<1>2. c \notin Waiting /\ Waiting' = Waiting \union {c}
  BY <1>1 DEF Waiting, WritePcs, LockIInv, LockTypeOK
<1>3. /\ {d \in Cpus : pc[d] = "exclusive"}' = {d \in Cpus : pc[d] = "exclusive"}
      /\ {d \in Cpus : pc[d] = "shared"}' = {d \in Cpus : pc[d] = "shared"}
      /\ c \notin {d \in Cpus : pc[d] = "shared"}
  BY <1>1 DEF LockIInv, LockTypeOK
<1>4. Offset(next) = Cardinality(Writers) /\ Cardinality(Writers) \in Nat
  <2>1. Cardinality(Writers) \in Nat /\ Cardinality(Writers) < TicketMod
    BY CpuSubset, NCpuAssumption, TicketModAssumption DEF Writers
  <2> QED BY <2>1, TicketModAssumption DEF LockIInv, TicketInv, LockTypeOK, Offset
<1>5. Waiting \subseteq Writers
  BY DEF Waiting, Writers
<1>6. \A d \in Waiting : Offset(ticket[d])' = Offset(ticket[d])
                         /\ Offset(ticket[d]) \in Nat
                         /\ Offset(ticket[d]) < Offset(next)
  <2> SUFFICES ASSUME NEW d \in Waiting
               PROVE /\ Offset(ticket[d])' = Offset(ticket[d])
                     /\ Offset(ticket[d]) \in Nat
                     /\ Offset(ticket[d]) < Offset(next)
    OBVIOUS
  <2>1. ticket'[d] = ticket[d]
    BY <1>1, <1>2 DEF Waiting, LockIInv, LockTypeOK
  <2>2. Offset(ticket[d]) \in Nat /\ Offset(ticket[d]) < Cardinality(Writers)
    BY <1>5, WaitingOffset DEF LockIInv, TicketInv
  <2> QED BY <1>1, <1>4, <2>1, <2>2 DEF Offset
<1>7. Offset(ticket[c])' = Offset(next)
  BY <1>1 DEF Offset, LockIInv, LockTypeOK
<1>8. Before(c)' = Waiting
  BY <1>2, <1>4, <1>6, <1>7 DEF Before
<1>9. \A d \in Cpus : d # c => Before(d)' = Before(d)
  BY <1>2, <1>4, <1>6, <1>7 DEF Before
<1>10. [d \in Cpus |-> Before(d)]' = [[d \in Cpus |-> Before(d)] EXCEPT ![c] = Waiting]
  BY <1>8, <1>9
<1> QED BY <1>2, <1>3, <1>10 DEF Abstract!Ask

\* Letting the machine go takes the head of the line out of it.
LEMMA DropRefines ==
  ASSUME LockIInv, NEW c \in Cpus, WriteDrop(c)
  PROVE  Abstract!ReleaseExclusive(c)
<1>1. pc[c] = "exclusive" /\ pc' = [pc EXCEPT ![c] = "handover"]
      /\ UNCHANGED <<serving, ticket>>
  BY DEF WriteDrop, Goto
<1>2. c \in Waiting /\ Waiting' = Waiting \ {c}
  BY <1>1 DEF Waiting, WritePcs, LockIInv, LockTypeOK
<1>3. {d \in Cpus : pc[d] = "exclusive"} = {c}
  BY <1>1, OnePast DEF Past
<1>4. /\ {d \in Cpus : pc[d] = "exclusive"}' = {}
      /\ {d \in Cpus : pc[d] = "shared"}' = {d \in Cpus : pc[d] = "shared"}
  BY <1>1, <1>3 DEF LockIInv, LockTypeOK
<1>5. Before(c) = {}
  <2>1. ticket[c] = serving /\ c \in Writers
    BY <1>1 DEF LockIInv, HoldInv, Past, Writers, WritePcs
  <2>2. Offset(ticket[c]) = 0
    BY <2>1, WaitingOffset
  <2>3. \A d \in Waiting : Offset(ticket[d]) \in Nat
    BY WaitingOffset DEF Waiting, Writers
  <2> QED BY <2>2, <2>3 DEF Before
<1>6. \A d \in Cpus : Before(d)' = Before(d) \ {c}
  BY <1>1, <1>2, <1>5 DEF Before, Offset
<1>7. [d \in Cpus |-> Before(d)]' = [d \in Cpus |-> [e \in Cpus |-> Before(e)][d] \ {c}]
  BY <1>6
<1> QED BY <1>2, <1>3, <1>4, <1>7 DEF Abstract!ReleaseExclusive

\* The exclusive handshake joins, is granted, gives back, or does nothing.
LEMMA WriteRefines ==
  ASSUME LockIInv, NEW c \in Cpus, WriteStep(c)
  PROVE  [Abstract!ANext]_(Abstract!avars)
<1>1. CASE WriteTicket(c)
  BY <1>1, TicketRefines DEF Abstract!ANext
<1>2. CASE WriteDrop(c)
  BY <1>2, DropRefines DEF Abstract!ANext
<1>3. CASE WriteScan(c) /\ pc'[c] = "exclusive" /\ pc[c] = "scan"
  <2>1. Goto(c, "scan", "exclusive") /\ scan[c] = NCpu
        /\ UNCHANGED <<serving, ticket>>
    BY <1>3 DEF WriteScan, LockIInv, LockTypeOK
  <2>2. Waiting' = Waiting /\ c \in Waiting
    BY <2>1 DEF Goto, Waiting, WritePcs, LockIInv, LockTypeOK
  <2>3. [d \in Cpus |-> Before(d)]' = [d \in Cpus |-> Before(d)]
    BY <2>1, <2>2, LineUntouched
  <2>4. {d \in Cpus : pc[d] = "exclusive"} = {}
    BY <2>1, OnePast DEF Past, Goto
  <2>5. {d \in Cpus : pc[d] = "exclusive"}' = {c}
    BY <2>1, <2>4 DEF Goto, LockIInv, LockTypeOK
  <2>6. {d \in Cpus : pc[d] = "shared"} = {}
    <3>1. Scanned(c) = Cpus
      BY <2>1, NCpuAssumption DEF Scanned, Goto, Cpus
    <3> QED BY <3>1 DEF LockIInv, HoldInv
  <2>7. {d \in Cpus : pc[d] = "shared"}' = {}
    BY <2>1, <2>6 DEF Goto, LockIInv, LockTypeOK
  <2>8. Before(c) = {}
    <3>1. ticket[c] = serving /\ c \in Writers
      BY <2>1 DEF LockIInv, HoldInv, Past, Writers, WritePcs, Goto
    <3>2. Offset(ticket[c]) = 0
      BY <3>1, WaitingOffset
    <3>3. \A d \in Waiting : Offset(ticket[d]) \in Nat
      BY WaitingOffset DEF Waiting, Writers
    <3> QED BY <3>2, <3>3 DEF Before
  <2>9. Abstract!GrantExclusive(c)
    BY <2>2, <2>3, <2>4, <2>5, <2>6, <2>7, <2>8 DEF Abstract!GrantExclusive
  <2> QED BY <2>9 DEF Abstract!ANext
<1>4. CASE WriteTurn(c) \/ WriteExclude(c) \/ (WriteScan(c) /\ pc' = pc)
  <2>1. Waiting' = Waiting /\ UNCHANGED <<serving, ticket>>
    BY <1>4 DEF WriteTurn, WriteExclude, WriteScan, Goto, Waiting, WritePcs,
                LockIInv, LockTypeOK
  <2>2. [d \in Cpus |-> Before(d)]' = [d \in Cpus |-> Before(d)]
    BY <2>1, LineUntouched
  <2>3. /\ {d \in Cpus : pc[d] = "exclusive"}' = {d \in Cpus : pc[d] = "exclusive"}
        /\ {d \in Cpus : pc[d] = "shared"}' = {d \in Cpus : pc[d] = "shared"}
    BY <1>4 DEF WriteTurn, WriteExclude, WriteScan, Goto, LockIInv, LockTypeOK
  <2> QED BY <2>1, <2>2, <2>3 DEF Abstract!avars
<1>5. CASE WriteServe(c)
  <2>1. /\ pc[c] = "handover" /\ pc' = [pc EXCEPT ![c] = "out"]
        /\ ticket' = ticket /\ serving' = Wrap(serving)
    BY <1>5 DEF WriteServe, Goto
  <2>2. Waiting' = Waiting
    BY <2>1 DEF Waiting, WritePcs, LockIInv, LockTypeOK
  <2>3. ticket[c] = serving /\ c \in Writers /\ c \notin Waiting
    BY <2>1 DEF LockIInv, HoldInv, Past, Writers, WritePcs, Waiting
  <2>4. \A d \in Waiting : Offset(ticket[d])' = Offset(ticket[d]) - 1
                           /\ Offset(ticket[d]) \in Nat
    <3> SUFFICES ASSUME NEW d \in Waiting
                 PROVE Offset(ticket[d])' = Offset(ticket[d]) - 1
                       /\ Offset(ticket[d]) \in Nat
      OBVIOUS
    <3>1. d \in Writers
      BY DEF Waiting, Writers
    <3>2. ticket[d] # serving
      BY <2>3, <3>1 DEF LockIInv, TicketInv
    <3>3. ticket[d] \in 0..(TicketMod - 1) /\ serving \in 0..(TicketMod - 1)
      BY <3>1 DEF Writers, LockIInv, LockTypeOK
    <3> QED BY <2>1, <3>1, <3>2, <3>3, WaitingOffset, TicketModAssumption
            DEF Offset, Wrap
  <2>5. \A d \in Cpus : Before(d)' = Before(d)
    <3>1. \A d, e \in Waiting : (Offset(ticket[e]) < Offset(ticket[d]))'
                                <=> Offset(ticket[e]) < Offset(ticket[d])
      <4> SUFFICES ASSUME NEW d \in Waiting, NEW e \in Waiting
                   PROVE Offset(ticket[e])' < Offset(ticket[d])'
                           <=> Offset(ticket[e]) < Offset(ticket[d])
        OBVIOUS
      <4>1. Offset(ticket[d])' = Offset(ticket[d]) - 1 /\ Offset(ticket[d]) \in Nat
        BY <2>4
      <4>2. Offset(ticket[e])' = Offset(ticket[e]) - 1 /\ Offset(ticket[e]) \in Nat
        BY <2>4
      <4> QED BY <4>1, <4>2
    <3> QED BY <2>2, <3>1 DEF Before
  <2>6. [d \in Cpus |-> Before(d)]' = [d \in Cpus |-> Before(d)]
    BY <2>5
  <2>7. /\ {d \in Cpus : pc[d] = "exclusive"}' = {d \in Cpus : pc[d] = "exclusive"}
        /\ {d \in Cpus : pc[d] = "shared"}' = {d \in Cpus : pc[d] = "shared"}
    BY <2>1 DEF LockIInv, LockTypeOK
  <2> QED BY <2>2, <2>6, <2>7 DEF Abstract!avars
<1>6. WriteScan(c) => pc' = pc \/ (pc'[c] = "exclusive" /\ pc[c] = "scan")
  BY DEF WriteScan, Goto, LockIInv, LockTypeOK
<1> QED BY <1>1, <1>2, <1>3, <1>4, <1>5, <1>6 DEF WriteStep

\* The handshake implements the abstract lock: exclusive holds are exclusive
\* and are granted in the order in which they were asked for.
THEOREM Refinement == LockSpec => Implements
<1>1. LockInit => Abstract!AInit
  BY DEF LockInit, Abstract!AInit, Before, Waiting, WritePcs
<1>2. LockIInv /\ [LockNext]_lock_vars => [Abstract!ANext]_(Abstract!avars)
  <2> SUFFICES ASSUME LockIInv, [LockNext]_lock_vars
               PROVE [Abstract!ANext]_(Abstract!avars)
    OBVIOUS
  <2>1. CASE UNCHANGED lock_vars
    <3>1. Waiting' = Waiting /\ UNCHANGED <<serving, ticket>>
      BY <2>1 DEF lock_vars, Waiting
    <3>2. [d \in Cpus |-> Before(d)]' = [d \in Cpus |-> Before(d)]
      BY <3>1, LineUntouched
    <3> QED BY <2>1, <3>1, <3>2 DEF lock_vars, Abstract!avars
  <2> QED BY <2>1, ReadRefines, WriteRefines DEF LockNext
<1> QED BY <1>1, <1>2, LockInductive, PTL DEF LockSpec, Implements, Abstract!ASpec

-----------------------------------------------------------------------------
(* The life of a scope (ScopeLifecycle).                                   *)

\* The slots are numbers, the root's is one of them, and a vacant parent link
\* names none.
LEMMA SlotFacts == Slots \subseteq Nat /\ Root \in Slots /\ NoScope \notin Slots
BY BoundsAssumption DEF Slots, Root, NoScope

\* The order in which a scope passes through its states.
LEMMA RankFacts ==
  /\ Rank("Empty") = 0 /\ Rank("Open") = 1 /\ Rank("Fenced") = 2
  /\ Rank("Quiescent") = 3 /\ Rank("Retired") = 4
BY DEF Rank

-----------------------------------------------------------------------------
(* Chains.                                                                 *)

\* `is_within`: the walk up from a scope starts at the scope.
LEMMA ChainSelf ==
  ASSUME NEW s \in Slots
  PROVE  s \in Chain(s)
BY DEF Chain

\* Whatever is above the parent is above the child.
LEMMA ChainParent ==
  ASSUME NEW s \in Slots, parent[s] # NoScope
  PROVE  Chain(parent[s]) \subseteq Chain(s)
BY DEF Chain

\* A set that holds s and is closed under the parent link holds the chain of s.
LEMMA ChainLeast ==
  ASSUME NEW s \in Slots, NEW S \in SUBSET Slots, s \in S,
         \A t \in S : parent[t] # NoScope => parent[t] \in S
  PROVE  Chain(s) \subseteq S
BY DEF Chain

\* Ranks do not decrease down a chain.
LEMMA ChainRank ==
  ASSUME IInv, NEW s \in Slots, NEW n \in Chain(s)
  PROVE  Rank(state[n]) <= Rank(state[s])
<1> DEFINE S == {t \in Slots : Rank(state[t]) <= Rank(state[s])}
<1>1. \A t \in Slots : Rank(state[t]) \in 0..4
  BY RankFacts DEF IInv, TypeOK, States
<1>2. s \in S
  BY <1>1
<1>3. \A t \in S : parent[t] # NoScope => parent[t] \in S
  BY <1>1 DEF IInv, TypeOK, Nested
<1>4. Chain(s) \subseteq S
  <2> HIDE DEF S
  <2>1. S \in SUBSET Slots
    BY DEF S
  <2> QED BY <1>2, <1>3, <2>1, ChainLeast
<1> QED BY <1>4

\* An open scope has only open ancestors: the state of the parent, which
\* create_child and create_in test, says what is_open says.
LEMMA OpenUpwards ==
  ASSUME IInv, NEW s \in Slots, state[s] = "Open"
  PROVE  is_open(s)
<1>1. \A n \in Chain(s) : n \in Slots /\ state[n] # "Empty"
  <2> DEFINE S == {t \in Slots : state[t] # "Empty"}
  <2>1. s \in S
    BY DEF IInv, TypeOK
  <2>2. \A t \in S : parent[t] # NoScope => parent[t] \in S
    BY RankFacts DEF IInv, TypeOK, Nested
  <2>3. Chain(s) \subseteq S
    <3> HIDE DEF S
    <3>1. S \in SUBSET Slots
      BY DEF S
    <3> QED BY <2>1, <2>2, <3>1, ChainLeast
  <2> QED BY <2>3
<1>2. \A n \in Chain(s) : Rank(state[n]) <= 1
  BY ChainRank, RankFacts
<1>3. \A n \in Chain(s) : state[n] = "Open"
  BY <1>1, <1>2, RankFacts DEF IInv, TypeOK, States
<1> QED BY <1>3 DEF is_open

-----------------------------------------------------------------------------
(* Domains and calls.                                                      *)

\* Nothing that keeps a scope busy is in it.
Idle(s) == Owned(s) = {} /\ Effects(s) = {}

\* release_invocation leaves every counter a number: the decrement saturates.
LEMMA LoweredType ==
  ASSUME TypeOK, NEW ended \in SUBSET Records
  PROVE  Lowered(ended) \in [Slots -> Nat]
<1> SUFFICES ASSUME NEW s \in Slots
             PROVE  LET n == Cardinality({c \in ended : call[c].scope = s})
                    IN  (IF n <= calls[s] THEN calls[s] - n ELSE 0) \in Nat
  BY DEF Lowered
<1> DEFINE B == {c \in ended : call[c].scope = s}
<1>1. B \subseteq Records
  OBVIOUS
<1>2. Cardinality(B) \in Nat
  BY <1>1, FS_Subset, FS_CardinalityType, BoundsAssumption
<1>3. calls[s] \in Nat
  BY DEF TypeOK
<1> HIDE DEF B
<1>4. (IF Cardinality(B) <= calls[s] THEN calls[s] - Cardinality(B) ELSE 0) \in Nat
  BY <1>2, <1>3
<1> QED BY <1>4 DEF B

\* A record that is in use is charged to a scope of the table.
LEMMA InUse ==
  ASSUME TypeOK, NEW c \in Records, call[c].stage # "none"
  PROVE  call[c] \in [stage : Stages, scope : Slots, from : Domains \cup {Nobody},
                      waits : BOOLEAN]
BY DEF TypeOK, CallType, NoCall

\* Calls that end leave a table of records, and no effect more than before.
LEMMA EndedFacts ==
  ASSUME TypeOK, NEW ended \in SUBSET Records, NEW kept \in SUBSET Taken
  PROVE  /\ Ended(ended, kept) \in [Records -> CallType]
         /\ \A c \in Records : Ended(ended, kept)[c].stage = "effect"
                                 => Ended(ended, kept)[c] = call[c]
<1> SUFFICES ASSUME NEW c \in Records
             PROVE  /\ Ended(ended, kept)[c] \in CallType
                    /\ Ended(ended, kept)[c].stage = "effect" => Ended(ended, kept)[c] = call[c]
  BY DEF Ended
<1>1. CASE c \in kept
  <2>1. call[c].stage # "none"
    BY <1>1 DEF Taken
  <2>2. Ended(ended, kept)[c] = [call[c] EXCEPT !.stage = "spent"]
    BY <1>1 DEF Ended
  <2> QED BY <2>1, <2>2, InUse DEF CallType, Stages
<1>2. CASE c \in ended \ kept
  BY <1>2 DEF Ended, CallType, NoCall
<1>3. CASE c \notin ended \cup kept
  BY <1>3 DEF Ended, TypeOK
<1> QED BY <1>1, <1>2, <1>3

\* So does the death of a domain (on_domain_death).
LEMMA OrphanedFacts ==
  ASSUME TypeOK, NEW d \in Domains, NEW ended \in SUBSET Taken, NEW kept \in SUBSET Taken
  PROVE  /\ Orphaned(d, ended, kept) \in [Records -> CallType]
         /\ \A c \in Records : Orphaned(d, ended, kept)[c].stage = "effect"
              => /\ call[c].stage = "effect"
                 /\ Orphaned(d, ended, kept)[c].scope = call[c].scope
<1>0. ended \cup Cancelled(d) \in SUBSET Records
  BY DEF Taken, Cancelled, Sent
<1>1. PICK E : E = Ended(ended \cup Cancelled(d), kept)
  OBVIOUS
<1>2. /\ E \in [Records -> CallType]
      /\ \A c \in Records : E[c].stage = "effect" => E[c] = call[c]
  BY <1>0, <1>1, EndedFacts
<1>3. PICK O : O = Orphaned(d, ended, kept)
  OBVIOUS
<1>4. O = [c \in Records |-> O[c]]
  BY <1>3 DEF Orphaned
<1>5. ASSUME NEW c \in Records
      PROVE  /\ O[c] \in CallType
             /\ O[c].stage = "effect"
                  => call[c].stage = "effect" /\ O[c].scope = call[c].scope
  <2>1. CASE c \in Sent(d) \ ended /\ call[c].stage \in {"taken", "effect"}
    <3>1. O[c] = [call[c] EXCEPT !.from = Nobody, !.waits = FALSE]
      BY <1>3, <2>1 DEF Orphaned
    <3>2. call[c] \in [stage : Stages, scope : Slots, from : Domains \cup {Nobody},
                       waits : BOOLEAN]
      BY <2>1, InUse
    <3>3. O[c] = [stage |-> call[c].stage, scope |-> call[c].scope, from |-> Nobody,
                  waits |-> FALSE]
      BY <3>1, <3>2
    <3> QED BY <3>2, <3>3 DEF CallType
  <2>2. CASE ~(c \in Sent(d) \ ended /\ call[c].stage \in {"taken", "effect"})
    <3>1. O[c] = E[c]
      BY <1>1, <1>3, <2>2 DEF Orphaned
    <3> QED BY <1>2, <3>1
  <2> QED BY <2>1, <2>2
<1>6. O \in [Records -> CallType]
  BY <1>4, <1>5
<1> QED BY <1>3, <1>5, <1>6

\* Effects that are not new are effects of the same scopes.
LEMMA EffectsShrink ==
  ASSUME NEW nc, call' = nc,
         \A c \in Records : nc[c].stage = "effect"
                              => call[c].stage = "effect" /\ nc[c].scope = call[c].scope
  PROVE  \A s \in Slots : Effects(s)' \subseteq Effects(s)
BY DEF Effects

\* A step of a domain or of a call keeps the invariant when it brings no domain
\* and no effect into a scope that is not open or draining.
LEMMA BusyKeeps ==
  ASSUME IInv, UNCHANGED <<state, gen, parent, depth>>, named' \subseteq named,
         domain' \in [Domains -> DomainType], call' \in [Records -> CallType],
         calls' \in [Slots -> Nat],
         \A s \in Slots : Rank(state[s]) \notin {1, 2} =>
           Owned(s)' \subseteq Owned(s) /\ Effects(s)' \subseteq Effects(s)
  PROVE  IInv'
<1>1. TypeOK'
  BY DEF IInv, TypeOK
<1>2. Nested'
  BY DEF IInv, Nested
<1>3. Clear'
  <2> SUFFICES ASSUME NEW s \in Slots
               PROVE  /\ state[s] = "Empty" => parent[s] = NoScope /\ s \notin named'
                      /\ Rank(state[s]) \notin {1, 2} => Owned(s)' = {} /\ Effects(s)' = {}
    BY DEF Clear
  <2>1. /\ state[s] = "Empty" => parent[s] = NoScope /\ s \notin named
        /\ Rank(state[s]) \notin {1, 2} => Owned(s) = {} /\ Effects(s) = {}
    BY DEF IInv, Clear
  <2> QED BY <2>1
<1> QED BY <1>1, <1>2, <1>3 DEF IInv

-----------------------------------------------------------------------------
(* Closing.                                                                *)

\* `is_within`: the walk that reached an entry goes on to its parent.
LEMMA ChainClosed ==
  ASSUME TypeOK, NEW t \in Slots, NEW n \in Chain(t), parent[n] # NoScope
  PROVE  parent[n] \in Chain(t)
BY DEF Chain, TypeOK

\* What is quiet below a scope is quiet below its children.
LEMMA QuietChild ==
  ASSUME TypeOK, NEW pend, NEW s \in Slots, parent[s] # NoScope, Quiet(parent[s], pend)
  PROVE  Quiet(s, pend)
<1>1. Below(s) \subseteq Below(parent[s])
  <2> SUFFICES ASSUME NEW t \in Below(s) PROVE t \in Below(parent[s])
    OBVIOUS
  <2>1. t \in Slots /\ state[t] # "Empty" /\ s \in Chain(t)
    BY DEF Below, is_within
  <2>2. parent[s] \in Chain(t)
    BY <2>1, ChainClosed
  <2> QED BY <2>1, <2>2 DEF Below, is_within
<1> QED BY <1>1 DEF Quiet

\* The states `st' are nested, idle where closed, and empty where the table is.
Shaped(st) ==
  /\ st \in [Slots -> States]
  /\ \A s \in Slots : parent[s] # NoScope => Rank(st[parent[s]]) \in 1..Rank(st[s])
  /\ \A s \in Slots : Rank(st[s]) \notin {1, 2} => Idle(s)
  /\ \A s \in Slots : st[s] = "Empty" <=> state[s] = "Empty"

\* The states of the table are a shape the closing operations start from.
LEMMA ShapedNow == IInv => Shaped(state)
BY DEF IInv, TypeOK, Nested, Clear, Shaped, Idle

\* `advance_quiescence` turns such a shape into another: an entry becomes
\* quiescent only with its whole subtree.
LEMMA PromotedShaped ==
  ASSUME IInv, NEW st, Shaped(st), NEW pend
  PROVE  Shaped(Promoted(st, pend))
<1>0. PICK pt : pt = Promoted(st, pend)
  OBVIOUS
<1>1. st \in [Slots -> States] /\ TypeOK
  BY DEF Shaped, IInv
<1>2. pt \in [Slots -> States]
  BY <1>0, <1>1 DEF Promoted, States
<1>3. ASSUME NEW s \in Slots, parent[s] # NoScope
      PROVE Rank(pt[parent[s]]) \in 1..Rank(pt[s])
  <2>1. parent[s] \in Slots /\ Rank(st[parent[s]]) \in 1..Rank(st[s])
    BY <1>1, <1>3 DEF TypeOK, Shaped
  <2>2. CASE ~(st[parent[s]] = "Fenced" /\ Quiet(parent[s], pend))
    <3>1. pt[parent[s]] = st[parent[s]]
      BY <1>0, <2>1, <2>2 DEF Promoted
    <3>2. Rank(pt[s]) \in {Rank(st[s]), 3} /\ (st[s] # "Fenced" => pt[s] = st[s])
      BY <1>0, RankFacts DEF Promoted
    <3> QED BY <2>1, <3>1, <3>2, RankFacts, <1>1 DEF States
  <2>3. CASE st[parent[s]] = "Fenced" /\ Quiet(parent[s], pend)
    <3>1. pt[parent[s]] = "Quiescent"
      BY <1>0, <2>1, <2>3 DEF Promoted
    <3>2. Quiet(s, pend)
      BY <1>1, <1>3, <2>3, QuietChild
    <3>3. pt[s] = IF st[s] = "Fenced" THEN "Quiescent" ELSE st[s]
      BY <1>0, <3>2 DEF Promoted
    <3> QED BY <1>1, <2>1, <2>3, <3>1, <3>3, RankFacts DEF States
  <2> QED BY <2>2, <2>3
<1>4. ASSUME NEW s \in Slots, Rank(pt[s]) \notin {1, 2} PROVE Idle(s)
  <2>1. CASE st[s] = "Fenced" /\ Quiet(s, pend)
    <3>1. s \in Below(s)
      BY <2>1, ChainSelf DEF Below, is_within, Shaped
    <3> QED BY <2>1, <3>1 DEF Quiet, Idle
  <2>2. CASE ~(st[s] = "Fenced" /\ Quiet(s, pend))
    <3>1. pt[s] = st[s]
      BY <1>0, <2>2 DEF Promoted
    <3> QED BY <1>4, <3>1 DEF Shaped
  <2> QED BY <2>1, <2>2
<1>5. \A s \in Slots : pt[s] = "Empty" <=> state[s] = "Empty"
  BY <1>0 DEF Promoted, Shaped
<1> QED BY <1>0, <1>2, <1>3, <1>4, <1>5 DEF Shaped

\* A step that changes only the states and the queued calls, and leaves the
\* states well shaped.
LEMMA ShapedStep ==
  ASSUME IInv, NEW st, Shaped(st), state' = st,
         UNCHANGED <<gen, parent, depth, named, domain>>,
         call' \in [Records -> CallType], calls' \in [Slots -> Nat],
         \A s \in Slots : Effects(s)' \subseteq Effects(s)
  PROVE  IInv'
<1>1. TypeOK'
  BY DEF IInv, TypeOK, Shaped
<1>2. Nested'
  BY DEF IInv, Nested, Shaped
<1>3. Clear'
  <2>1. \A s \in Slots : Owned(s)' = Owned(s)
    BY DEF Owned
  <2>2. ASSUME NEW s \in Slots, Rank(st[s]) \notin {1, 2}
        PROVE  Owned(s)' = {} /\ Effects(s)' = {}
    <3>1. Idle(s)
      BY <2>2 DEF Shaped
    <3> QED BY <2>1, <3>1 DEF Idle
  <2>3. \A s \in Slots : st[s] = "Empty" => parent[s] = NoScope /\ s \notin named
    BY DEF IInv, Clear, Shaped
  <2> QED BY <2>2, <2>3 DEF Clear
<1> QED BY <1>1, <1>2, <1>3 DEF IInv

\* `advance_quiescence` keeps the invariant.
LEMMA TickKeeps ==
  ASSUME IInv, tick
  PROVE  IInv'
<1>1. PICK st : st = state
  OBVIOUS
<1>2. Shaped(st)
  BY <1>1, ShapedNow
<1>3. PICK pend : pend = calls
  OBVIOUS
<1>4. PICK nt : nt = Promoted(st, pend)
  OBVIOUS
<1>5. Shaped(nt)
  BY <1>2, <1>4, PromotedShaped
<1>6. state' = nt /\ UNCHANGED <<gen, parent, depth, named, domain, call, calls>>
  BY <1>1, <1>3, <1>4 DEF tick
<1>7. \A s \in Slots : Effects(s)' \subseteq Effects(s)
  BY <1>6 DEF Effects
<1>8. call' \in [Records -> CallType] /\ calls' \in [Slots -> Nat]
  BY <1>6 DEF IInv, TypeOK
<1> QED BY <1>5, <1>6, <1>7, <1>8, ShapedStep

\* `fence` keeps it: it closes a whole subtree, withdraws what nobody has
\* received, and then promotes what is quiet.
LEMMA FenceKeeps ==
  ASSUME IInv, NEW root \in Slots, fence(root)
  PROVE  IInv'
<1> DEFINE closed == [s \in Slots |-> IF state[s] = "Open" /\ is_within(root, s)
                                        THEN "Fenced" ELSE state[s]]
           undelivered == {c \in Records : /\ call[c].stage = "queued"
                                           /\ is_within(root, call[c].scope)}
<1>1. PICK st : st = closed
  OBVIOUS
<1>2. Shaped(st)
  <2>1. st \in [Slots -> States]
    BY <1>1 DEF IInv, TypeOK, States
  <2>2. ASSUME NEW s \in Slots, parent[s] # NoScope
        PROVE Rank(st[parent[s]]) \in 1..Rank(st[s])
    <3>1. parent[s] \in Slots /\ Rank(state[parent[s]]) \in 1..Rank(state[s])
      BY <2>2 DEF IInv, TypeOK, Nested
    <3>2. is_within(root, parent[s]) => is_within(root, s)
      BY <2>2, ChainParent DEF is_within
    <3>3. state[s] \in States /\ state[parent[s]] \in States
      BY <3>1 DEF IInv, TypeOK
    <3> QED BY <1>1, <3>1, <3>2, <3>3, RankFacts DEF States
  <2>3. ASSUME NEW s \in Slots, Rank(st[s]) \notin {1, 2} PROVE Idle(s)
    <3>1. st[s] = state[s]
      BY <1>1, <2>3, RankFacts
    <3> QED BY <2>3, <3>1 DEF IInv, Clear, Idle
  <2>4. \A s \in Slots : st[s] = "Empty" <=> state[s] = "Empty"
    BY <1>1
  <2> QED BY <2>1, <2>2, <2>3, <2>4 DEF Shaped
<1>3. PICK gone \in SUBSET Records : gone = undelivered
  OBVIOUS
<1>4. /\ call' = Ended(gone, {}) /\ calls' = Lowered(gone)
      /\ state' = Promoted(st, calls')
      /\ UNCHANGED <<gen, parent, depth, named, domain>>
  BY <1>1, <1>3 DEF fence
<1>5. PICK nt : nt = Promoted(st, calls')
  OBVIOUS
<1>6. Shaped(nt)
  <2>1. PICK pend : pend = calls'
    OBVIOUS
  <2> QED BY <1>2, <1>5, <2>1, PromotedShaped
<1>7. PICK nc : nc = Ended(gone, {})
  OBVIOUS
<1>8. /\ nc \in [Records -> CallType]
      /\ \A c \in Records : nc[c].stage = "effect" => nc[c] = call[c]
  BY <1>7, EndedFacts DEF IInv
<1>9. \A s \in Slots : Effects(s)' \subseteq Effects(s)
  BY <1>4, <1>7, <1>8, EffectsShrink
<1>10. calls' \in [Slots -> Nat]
  BY <1>4, LoweredType DEF IInv
<1> QED BY <1>4, <1>5, <1>6, <1>7, <1>8, <1>9, <1>10, ShapedStep

\* `retire` keeps it: it retires a whole quiescent subtree.
LEMMA RetireKeeps ==
  ASSUME IInv, NEW root \in Slots, retire(root)
  PROVE  IInv'
<1>0. PICK s0, pend : s0 = state /\ pend = calls
  OBVIOUS
<1>1. PICK st : st = Promoted(s0, pend)
  OBVIOUS
<1>2. Shaped(st)
  <2>1. Shaped(s0)
    BY <1>0, ShapedNow
  <2> QED BY <1>1, <2>1, PromotedShaped
<1>3. PICK nt : nt = [s \in Slots |-> IF s \in Below(root) THEN "Retired" ELSE st[s]]
  OBVIOUS
<1>4. /\ st[root] = "Quiescent" /\ state' = nt
      /\ UNCHANGED <<gen, parent, depth, named, domain, call, calls>>
  BY <1>0, <1>1, <1>3 DEF retire
<1>5. \A t \in Below(root) : Idle(t)
  <2>1. CASE state[root] = "Fenced"
    <3>1. Quiet(root, pend)
      BY <1>0, <1>1, <1>4, <2>1 DEF Promoted
    <3> QED BY <3>1 DEF Quiet, Idle
  <2>2. CASE state[root] # "Fenced"
    <3>1. state[root] = "Quiescent"
      BY <1>0, <1>1, <1>4, <2>2 DEF Promoted
    <3> SUFFICES ASSUME NEW t \in Below(root) PROVE Idle(t)
      OBVIOUS
    <3>2. t \in Slots /\ root \in Chain(t)
      BY DEF Below, is_within
    <3>3. Rank(state[t]) >= 3
      BY <3>1, <3>2, ChainRank, RankFacts DEF IInv, TypeOK, States
    <3>4. Rank(state[t]) \in 0..4
      BY <3>2, RankFacts DEF IInv, TypeOK, States
    <3>5. Rank(state[t]) \notin {1, 2}
      BY <3>3, <3>4
    <3> QED BY <3>2, <3>5 DEF IInv, Clear, Idle
  <2> QED BY <2>1, <2>2
<1>6. Shaped(nt)
  <2>1. nt \in [Slots -> States]
    BY <1>2, <1>3 DEF Shaped, States
  <2>2. ASSUME NEW s \in Slots, parent[s] # NoScope
        PROVE  Rank(nt[parent[s]]) \in 1..Rank(nt[s])
    <3>1. parent[s] \in Slots /\ Rank(st[parent[s]]) \in 1..Rank(st[s])
      BY <1>2, <2>2 DEF IInv, TypeOK, Shaped
    <3>2. parent[s] \in Below(root) => s \in Below(root)
      <4>1. Chain(parent[s]) \subseteq Chain(s)
        BY <2>2, ChainParent
      <4>2. state[s] # "Empty"
        BY <2>2 DEF IInv, Clear
      <4> QED BY <4>1, <4>2 DEF Below, is_within
    <3>3. st[s] \in States /\ st[parent[s]] \in States
      BY <1>2, <3>1 DEF Shaped
    <3> QED BY <1>3, <3>1, <3>2, <3>3, RankFacts DEF States
  <2>3. \A s \in Slots : Rank(nt[s]) \notin {1, 2} => Idle(s)
    BY <1>2, <1>3, <1>5 DEF Shaped
  <2>4. \A s \in Slots : nt[s] = "Empty" <=> state[s] = "Empty"
    BY <1>2, <1>3 DEF Shaped, Below
  <2> QED BY <2>1, <2>2, <2>3, <2>4 DEF Shaped
<1>7. \A s \in Slots : Effects(s)' \subseteq Effects(s)
  BY <1>4 DEF Effects
<1>8. call' \in [Records -> CallType] /\ calls' \in [Slots -> Nat]
  BY <1>4 DEF IInv, TypeOK
<1> QED BY <1>4, <1>6, <1>7, <1>8, ShapedStep

-----------------------------------------------------------------------------
(* Creation.                                                               *)

\* `create_child` fills an entry that nothing names or runs in, below an open
\* parent.
LEMMA CreateFacts ==
  ASSUME IInv, NEW p \in Slots, NEW handle \in BOOLEAN, create_child(p, handle)
  PROVE  \E k \in Slots :
           /\ Occupy(k, p, handle)
           /\ state[p] = "Open" /\ p # k
           /\ state[k] \in {"Empty", "Retired"}
           /\ k \notin named /\ Idle(k)
           /\ \A s \in Slots : parent[s] # k
<1>1. PICK k \in Vacant : Occupy(k, p, handle)
  BY DEF create_child
<1>2. /\ k \in Slots /\ state[k] \in {"Empty", "Retired"} /\ k \notin named
      /\ state[k] = "Retired" => \A o \in Slots : state[o] # "Empty" => parent[o] # k
  BY <1>1 DEF Vacant, Empties, Collectable, IInv, Clear
<1>3. Idle(k)
  BY <1>2, RankFacts DEF IInv, Clear, Idle
<1>4. ASSUME NEW s \in Slots, parent[s] = k PROVE FALSE
  <2>1. k # NoScope /\ state[s] # "Empty"
    BY <1>2, <1>4, SlotFacts DEF IInv, Clear
  <2>2. Rank(state[k]) >= 1
    BY <1>4, <2>1 DEF IInv, Nested
  <2>3. state[k] = "Retired"
    BY <1>2, <2>2, RankFacts
  <2> QED BY <1>2, <1>4, <2>1, <2>3
<1>5. state[p] = "Open"
  BY DEF create_child, MayCreate
<1> QED BY <1>1, <1>2, <1>3, <1>4, <1>5

\* `create_child` keeps the invariant.
LEMMA CreateKeeps ==
  ASSUME IInv, NEW p \in Slots, NEW handle \in BOOLEAN, create_child(p, handle)
  PROVE  IInv'
<1>1. PICK k \in Slots :
        /\ Occupy(k, p, handle)
        /\ state[p] = "Open" /\ p # k
        /\ state[k] \in {"Empty", "Retired"}
        /\ k \notin named /\ Idle(k)
        /\ \A s \in Slots : parent[s] # k
  BY CreateFacts
<1>2. TypeOK'
  <2>1. gen' \in [Slots -> Nat] /\ depth' \in [Slots -> Nat] /\ calls' \in [Slots -> Nat]
    BY <1>1 DEF Occupy, IInv, TypeOK
  <2>2. /\ state' \in [Slots -> States]
        /\ parent' \in [Slots -> Slots \cup {NoScope}]
        /\ named' \in SUBSET Slots
    BY <1>1 DEF Occupy, IInv, TypeOK, States
  <2>3. domain' = domain /\ call' = call
    BY <1>1 DEF Occupy
  <2> QED BY <2>1, <2>2, <2>3 DEF IInv, TypeOK
<1>3. Nested'
  <2> SUFFICES ASSUME NEW s \in Slots, parent'[s] # NoScope
               PROVE  /\ Rank(state'[parent'[s]]) \in 1..Rank(state'[s])
                      /\ depth'[s] = depth'[parent'[s]] + 1
    BY DEF Nested
  <2>1. CASE s = k
    <3>1. parent'[s] = p /\ state'[p] = "Open" /\ state'[s] = "Open"
          /\ depth'[s] = depth[p] + 1 /\ depth'[p] = depth[p]
      BY <1>1, <2>1 DEF Occupy, IInv, TypeOK
    <3> QED BY <3>1, RankFacts
  <2>2. CASE s # k
    <3>1. parent'[s] = parent[s] /\ parent[s] # k /\ parent[s] \in Slots
      BY <1>1, <2>2 DEF Occupy, IInv, TypeOK
    <3>2. /\ state'[s] = state[s] /\ state'[parent[s]] = state[parent[s]]
          /\ depth'[s] = depth[s] /\ depth'[parent[s]] = depth[parent[s]]
      BY <1>1, <2>2, <3>1 DEF Occupy, IInv, TypeOK
    <3> QED BY <3>1, <3>2 DEF IInv, Nested
  <2> QED BY <2>1, <2>2
<1>4. Clear'
  <2> SUFFICES ASSUME NEW s \in Slots
               PROVE  /\ state'[s] = "Empty" => parent'[s] = NoScope /\ s \notin named'
                      /\ Rank(state'[s]) \notin {1, 2} => Owned(s)' = {} /\ Effects(s)' = {}
    BY DEF Clear
  <2>1. Owned(s)' = Owned(s) /\ Effects(s)' = Effects(s)
    BY <1>1 DEF Owned, Effects, Occupy
  <2>2. CASE s = k
    <3>1. state'[s] = "Open"
      BY <1>1, <2>2 DEF Occupy, IInv, TypeOK
    <3> QED BY <3>1, RankFacts
  <2>3. CASE s # k
    <3>1. /\ state'[s] = state[s] /\ parent'[s] = parent[s]
          /\ s \notin named => s \notin named'
      BY <1>1, <2>3 DEF Occupy, IInv, TypeOK
    <3> QED BY <2>1, <3>1 DEF IInv, Clear
  <2> QED BY <2>2, <2>3
<1> QED BY <1>2, <1>3, <1>4 DEF IInv

\* What a refused creation leaves behind: one entry collected, the others as
\* they were.
Emptied(k) ==
  /\ state' = [state EXCEPT ![k] = "Empty"]
  /\ parent' = [parent EXCEPT ![k] = NoScope]
  /\ depth' = [depth EXCEPT ![k] = 0]
  /\ calls' = [calls EXCEPT ![k] = 0]
  /\ UNCHANGED <<gen, named, domain, call>>

\* A creation refused for want of room has emptied a retired entry that no
\* other entry names as its parent.
LEMMA RefusedFacts ==
  ASSUME IInv, NEW p \in Slots, create_refused(p)
  PROVE  \E k \in Slots :
           /\ Emptied(k)
           /\ state[k] = "Retired"
           /\ k \notin named /\ Idle(k)
           /\ \A s \in Slots : parent[s] # k
<1>1. PICK k \in Collectable : Emptied(k)
  BY DEF create_refused, Emptied
<1>2. /\ k \in Slots /\ state[k] = "Retired" /\ k \notin named
      /\ \A o \in Slots : state[o] # "Empty" => parent[o] # k
  BY <1>1 DEF Collectable
<1>3. Idle(k)
  BY <1>2, RankFacts DEF IInv, Clear, Idle
<1>4. \A s \in Slots : parent[s] # k
  BY <1>2, SlotFacts DEF IInv, Clear
<1> QED BY <1>1, <1>2, <1>3, <1>4

\* A refused creation keeps the invariant.
LEMMA RefusedKeeps ==
  ASSUME IInv, NEW p \in Slots, create_refused(p)
  PROVE  IInv'
<1>1. PICK k \in Slots :
        /\ Emptied(k)
        /\ state[k] = "Retired"
        /\ k \notin named /\ Idle(k)
        /\ \A s \in Slots : parent[s] # k
  BY RefusedFacts
<1>2. TypeOK'
  BY <1>1 DEF Emptied, IInv, TypeOK, States
<1>3. Nested'
  <2> SUFFICES ASSUME NEW s \in Slots, parent'[s] # NoScope
               PROVE  /\ Rank(state'[parent'[s]]) \in 1..Rank(state'[s])
                      /\ depth'[s] = depth'[parent'[s]] + 1
    BY DEF Nested
  <2>1. s # k /\ parent'[s] = parent[s] /\ parent[s] # k /\ parent[s] \in Slots
    BY <1>1 DEF Emptied, IInv, TypeOK
  <2>2. /\ state'[s] = state[s] /\ state'[parent[s]] = state[parent[s]]
        /\ depth'[s] = depth[s] /\ depth'[parent[s]] = depth[parent[s]]
    BY <1>1, <2>1 DEF Emptied, IInv, TypeOK
  <2> QED BY <2>1, <2>2 DEF IInv, Nested
<1>4. Clear'
  <2> SUFFICES ASSUME NEW s \in Slots
               PROVE  /\ state'[s] = "Empty" => parent'[s] = NoScope /\ s \notin named'
                      /\ Rank(state'[s]) \notin {1, 2} => Owned(s)' = {} /\ Effects(s)' = {}
    BY DEF Clear
  <2>1. Owned(s)' = Owned(s) /\ Effects(s)' = Effects(s) /\ named' = named
    BY <1>1 DEF Owned, Effects, Emptied
  <2>2. CASE s = k
    <3>1. parent'[s] = NoScope
      BY <1>1, <2>2 DEF Emptied, IInv, TypeOK
    <3> QED BY <1>1, <2>1, <2>2, <3>1 DEF Idle
  <2>3. CASE s # k
    <3>1. state'[s] = state[s] /\ parent'[s] = parent[s]
      BY <1>1, <2>3 DEF Emptied, IInv, TypeOK
    <3> QED BY <2>1, <3>1 DEF IInv, Clear
  <2> QED BY <2>2, <2>3
<1> QED BY <1>2, <1>3, <1>4 DEF IInv

-----------------------------------------------------------------------------
(* What domains and calls do.                                              *)

\* Closing a handle leaves the rest alone.
LEMMA CloseKeeps ==
  ASSUME IInv, NEW s \in Slots, close(s)
  PROVE  IInv'
<1>1. /\ UNCHANGED <<state, gen, parent, depth, domain, call, calls>>
      /\ named' \subseteq named
  BY DEF close
<1>2. \A t \in Slots : Owned(t)' = Owned(t) /\ Effects(t)' = Effects(t)
  BY <1>1 DEF Owned, Effects
<1>3. /\ domain' \in [Domains -> DomainType] /\ call' \in [Records -> CallType]
      /\ calls' \in [Slots -> Nat]
  BY <1>1 DEF IInv, TypeOK
<1> QED BY <1>1, <1>2, <1>3, BusyKeeps

\* A domain that is there is owned by, and charges, scopes of the table.
LEMMA IsThere ==
  ASSUME TypeOK, NEW d \in Domains, domain[d] # NoDomain
  PROVE  domain[d] \in [owner : Slots, charges : Slots, bound : BOOLEAN, dying : BOOLEAN]
BY DEF TypeOK, DomainType

\* `create_in` puts a domain in an open scope.
LEMMA CreateInKeeps ==
  ASSUME IInv, NEW d \in Domains, NEW s \in Slots, create_in(d, s)
  PROVE  IInv'
<1>1. /\ UNCHANGED <<state, gen, parent, depth, named, call, calls>>
      /\ state[s] = "Open"
      /\ domain' = [domain EXCEPT ![d] = [owner |-> s, charges |-> s, bound |-> FALSE,
                                          dying |-> FALSE]]
  BY DEF create_in
<1>2. domain' \in [Domains -> DomainType]
  BY <1>1 DEF IInv, TypeOK, DomainType
<1>3. \A t \in Slots : Rank(state[t]) \notin {1, 2} => Owned(t)' \subseteq Owned(t)
  BY <1>1, RankFacts DEF Owned, IInv, TypeOK
<1>4. \A t \in Slots : Effects(t)' = Effects(t)
  BY <1>1 DEF Effects
<1>5. call' \in [Records -> CallType] /\ calls' \in [Slots -> Nat]
  BY <1>1 DEF IInv, TypeOK
<1> QED BY <1>1, <1>2, <1>3, <1>4, <1>5, BusyKeeps

\* A stopped domain stays where it is until it is reaped.
LEMMA StoppedFacts ==
  ASSUME TypeOK, NEW d \in Domains, Live(d),
         domain' = [domain EXCEPT ![d].dying = TRUE]
  PROVE  /\ domain' \in [Domains -> DomainType]
         /\ \A t \in Slots : Owned(t)' = Owned(t)
<1>1. domain[d] \in [owner : Slots, charges : Slots, bound : BOOLEAN, dying : BOOLEAN]
  BY IsThere DEF Live
<1>2. [domain[d] EXCEPT !.dying = TRUE] \in DomainType
  BY <1>1 DEF DomainType
<1>3. domain' \in [Domains -> DomainType]
  BY <1>2 DEF TypeOK
<1>4. \A q \in Domains : domain'[q].owner = domain[q].owner
  BY <1>1 DEF TypeOK
<1> QED BY <1>3, <1>4 DEF Owned

\* `terminate_in` keeps the invariant.
LEMMA TerminateKeeps ==
  ASSUME IInv, NEW d \in Domains, terminate(d)
  PROVE  IInv'
<1>1. PICK ended \in SUBSET Taken, kept \in SUBSET Taken :
        /\ Stopped(d, ended, kept)
        /\ call' = Orphaned(d, ended, kept)
        /\ calls' = Lowered(ended \cup Cancelled(d))
  BY DEF terminate
<1>2. /\ domain' = [domain EXCEPT ![d].dying = TRUE]
      /\ named' \subseteq named /\ UNCHANGED <<state, gen, parent, depth>>
  BY <1>1 DEF Stopped
<1>3. /\ domain' \in [Domains -> DomainType]
      /\ \A t \in Slots : Owned(t)' = Owned(t)
  BY <1>2, StoppedFacts DEF terminate, IInv
<1>4. PICK nc : nc = Orphaned(d, ended, kept)
  OBVIOUS
<1>5. /\ nc \in [Records -> CallType]
      /\ \A c \in Records : nc[c].stage = "effect"
           => call[c].stage = "effect" /\ nc[c].scope = call[c].scope
  BY <1>4, OrphanedFacts DEF IInv
<1>6. \A s \in Slots : Effects(s)' \subseteq Effects(s)
  BY <1>1, <1>4, <1>5, EffectsShrink
<1>7. ended \cup Cancelled(d) \in SUBSET Records
  BY DEF Taken, Cancelled, Sent
<1>8. calls' \in [Slots -> Nat]
  BY <1>1, <1>7, LoweredType DEF IInv
<1> QED BY <1>1, <1>2, <1>3, <1>4, <1>5, <1>6, <1>8, BusyKeeps

\* A fault keeps it: its report is not an effect.
LEMMA FaultKeeps ==
  ASSUME IInv, NEW d \in Domains, NEW r \in Records, fault(d, r)
  PROVE  IInv'
<1>1. PICK e : e = domain[d].charges
  OBVIOUS
<1>2. PICK ended \in SUBSET Taken, kept \in SUBSET Taken :
        /\ Stopped(d, ended, kept)
        /\ call' = [Orphaned(d, ended, kept) EXCEPT ![r] = Report(e)]
        /\ calls' = [Lowered(ended \cup Cancelled(d)) EXCEPT ![e] = @ + 1]
  BY <1>1 DEF fault
<1>3. /\ domain' = [domain EXCEPT ![d].dying = TRUE]
      /\ named' \subseteq named /\ UNCHANGED <<state, gen, parent, depth>>
  BY <1>2 DEF Stopped
<1>4. /\ domain' \in [Domains -> DomainType]
      /\ \A t \in Slots : Owned(t)' = Owned(t)
  BY <1>3, StoppedFacts DEF fault, Runs, IInv
<1>5. e \in Slots
  BY <1>1, IsThere DEF fault, Runs, Live, IInv
<1>6. PICK oc : oc = Orphaned(d, ended, kept)
  OBVIOUS
<1>7. /\ oc \in [Records -> CallType]
      /\ \A c \in Records : oc[c].stage = "effect"
           => call[c].stage = "effect" /\ oc[c].scope = call[c].scope
  BY <1>6, OrphanedFacts DEF IInv
<1>8. PICK nc : nc = [oc EXCEPT ![r] = Report(e)]
  OBVIOUS
<1>9. Report(e) \in CallType /\ Report(e).stage # "effect"
  BY <1>5 DEF Report, CallType, Stages
<1>10. nc \in [Records -> CallType]
  BY <1>7, <1>8, <1>9
<1>11. \A c \in Records : nc[c].stage = "effect"
           => call[c].stage = "effect" /\ nc[c].scope = call[c].scope
  BY <1>7, <1>8, <1>9
<1>12. call' = nc
  BY <1>2, <1>6, <1>8
<1>13. \A s \in Slots : Effects(s)' \subseteq Effects(s)
  BY <1>11, <1>12, EffectsShrink
<1>14. ended \cup Cancelled(d) \in SUBSET Records
  BY DEF Taken, Cancelled, Sent
<1>15. PICK low \in [Slots -> Nat] : low = Lowered(ended \cup Cancelled(d))
  BY <1>14, LoweredType DEF IInv
<1>16. calls' = [low EXCEPT ![e] = low[e] + 1]
  BY <1>2, <1>5, <1>15
<1>17. calls' \in [Slots -> Nat]
  <2>1. PICK n \in Nat : n = low[e] + 1
    BY <1>5, <1>15
  <2>2. calls' = [low EXCEPT ![e] = n]
    BY <1>16, <2>1
  <2> QED BY <1>15, <2>1, <2>2
<1> QED BY <1>3, <1>4, <1>10, <1>12, <1>13, <1>17, BusyKeeps

\* `reap_dead` takes a domain and the calls it was woken from.
LEMMA ReapKeeps ==
  ASSUME IInv, NEW d \in Domains, reap_dead(d)
  PROVE  IInv'
<1>1. /\ UNCHANGED <<state, gen, parent, depth, named, calls>>
      /\ domain' = [domain EXCEPT ![d] = NoDomain]
      /\ call' = [c \in Records |-> IF call[c].from = d THEN NoCall ELSE call[c]]
  BY DEF reap_dead
<1>2. domain' \in [Domains -> DomainType]
  BY <1>1 DEF IInv, TypeOK, DomainType
<1>3. \A t \in Slots : Owned(t)' \subseteq Owned(t)
  BY <1>1, SlotFacts DEF Owned, IInv, TypeOK, NoDomain
<1>4. PICK nc : nc = [c \in Records |-> IF call[c].from = d THEN NoCall ELSE call[c]]
  OBVIOUS
<1>5. nc \in [Records -> CallType]
  BY <1>4 DEF IInv, TypeOK, CallType
<1>6. \A c \in Records : nc[c].stage = "effect"
           => call[c].stage = "effect" /\ nc[c].scope = call[c].scope
  BY <1>4 DEF NoCall
<1>7. \A s \in Slots : Effects(s)' \subseteq Effects(s)
  BY <1>1, <1>4, <1>6, EffectsShrink
<1>8. calls' \in [Slots -> Nat]
  BY <1>1 DEF IInv, TypeOK
<1> QED BY <1>1, <1>2, <1>3, <1>4, <1>5, <1>7, <1>8, BusyKeeps

\* Binding a worker and taking it back change what it charges, not where it is.
LEMMA ChargesKeeps ==
  ASSUME IInv, NEW d \in Domains, Runs(d),
         UNCHANGED <<state, gen, parent, depth, named, call, calls>>,
         NEW b \in BOOLEAN, NEW e \in Slots,
         domain' = [domain EXCEPT ![d].bound = b, ![d].charges = e]
  PROVE  IInv'
<1>1. domain[d] \in [owner : Slots, charges : Slots, bound : BOOLEAN, dying : BOOLEAN]
  BY IsThere DEF Runs, Live, IInv
<1>2. PICK y : y = [[domain[d] EXCEPT !.bound = b] EXCEPT !.charges = e]
  OBVIOUS
<1>3. y \in DomainType /\ y.owner = domain[d].owner
  BY <1>1, <1>2 DEF DomainType
<1>4. domain' = [domain EXCEPT ![d] = y]
  BY <1>2 DEF IInv, TypeOK
<1>5. domain' \in [Domains -> DomainType]
  BY <1>3, <1>4 DEF IInv, TypeOK
<1>6. \A q \in Domains : domain'[q].owner = domain[q].owner
  BY <1>3, <1>4 DEF IInv, TypeOK
<1>7. \A t \in Slots : Owned(t)' = Owned(t) /\ Effects(t)' = Effects(t)
  BY <1>6 DEF Owned, Effects
<1>8. call' \in [Records -> CallType] /\ calls' \in [Slots -> Nat] /\ named' \subseteq named
  BY DEF IInv, TypeOK
<1> QED BY <1>5, <1>7, <1>8, BusyKeeps

\* A worker bound to a call charges the scope of the call, when that is open.
LEMMA BindKeeps ==
  ASSUME IInv, NEW d \in Domains, NEW r \in Records, bind_worker(d, r)
  PROVE  IInv'
<1>1. UNCHANGED <<state, gen, parent, depth, named, call, calls>> /\ Runs(d)
  BY DEF bind_worker
<1>2. domain[d].charges \in Slots
  BY <1>1, IsThere DEF Runs, Live, IInv
<1>3. call[r].scope \in Slots
  BY InUse DEF bind_worker, Taken, IInv
<1>4. PICK e \in Slots : e = IF is_open(call[r].scope) THEN call[r].scope
                              ELSE domain[d].charges
  BY <1>2, <1>3
<1>5. domain' = [domain EXCEPT ![d].bound = TRUE, ![d].charges = e]
  BY <1>4 DEF bind_worker, IInv, TypeOK
<1> QED BY <1>1, <1>5, ChargesKeeps

\* A worker taken back charges its own scope.
LEMMA UnbindKeeps ==
  ASSUME IInv, NEW d \in Domains, unbind_worker(d)
  PROVE  IInv'
<1>1. /\ UNCHANGED <<state, gen, parent, depth, named, call, calls>> /\ Runs(d)
      /\ domain' = [domain EXCEPT ![d].bound = FALSE, ![d].charges = domain[d].owner]
  BY DEF unbind_worker
<1>2. domain[d].owner \in Slots
  BY <1>1, IsThere DEF Runs, Live, IInv
<1> QED BY <1>1, <1>2, ChargesKeeps

\* One record changes, and an effect that is new is in an open scope.
LEMMA RecordKeeps ==
  ASSUME IInv, UNCHANGED <<state, gen, parent, depth, named, domain>>,
         NEW r \in Records, NEW x \in CallType, call' = [call EXCEPT ![r] = x],
         calls' \in [Slots -> Nat],
         x.stage = "effect" => \/ state[x.scope] = "Open"
                               \/ call[r].stage = "effect" /\ x.scope = call[r].scope
  PROVE  IInv'
<1>1. call' \in [Records -> CallType]
  BY DEF IInv, TypeOK
<1>2. \A t \in Slots : Owned(t)' = Owned(t)
  BY DEF Owned
<1>3. ASSUME NEW t \in Slots, Rank(state[t]) \notin {1, 2},
             NEW c \in Records, call'[c].scope = t, call'[c].stage = "effect"
      PROVE  call[c].scope = t /\ call[c].stage = "effect"
  <2>1. CASE c # r
    BY <1>3, <2>1 DEF IInv, TypeOK
  <2>2. CASE c = r
    <3>1. call'[c] = x
      BY <2>2 DEF IInv, TypeOK
    <3>2. state[t] # "Open"
      BY <1>3, RankFacts
    <3> QED BY <1>3, <2>2, <3>1, <3>2
  <2> QED BY <2>1, <2>2
<1>4. \A t \in Slots : Rank(state[t]) \notin {1, 2} => Effects(t)' \subseteq Effects(t)
  BY <1>3 DEF Effects
<1>5. domain' \in [Domains -> DomainType] /\ named' \subseteq named
  BY DEF IInv, TypeOK
<1> QED BY <1>1, <1>2, <1>4, <1>5, BusyKeeps

\* An admission, by a thread of a domain that is there.
LEMMA AdmitKeeps ==
  ASSUME IInv, NEW d \in Domains, NEW r \in Records, NEW w \in BOOLEAN, admit(d, r, w)
  PROVE  IInv'
<1>1. domain[d].charges \in Slots
  BY IsThere DEF admit, Runs, Live, IInv
<1>2. PICK x : x = [stage |-> "queued", scope |-> domain[d].charges, from |-> d, waits |-> w]
  OBVIOUS
<1>3. x \in CallType /\ x.stage # "effect"
  BY <1>1, <1>2 DEF CallType, Stages
<1>4. /\ call' = [call EXCEPT ![r] = x]
      /\ UNCHANGED <<state, gen, parent, depth, named, domain>>
  BY <1>2 DEF admit
<1>5. calls' \in [Slots -> Nat]
  BY <1>1 DEF admit, IInv, TypeOK
<1> QED BY <1>3, <1>4, <1>5, RecordKeeps

\* A delivery, the end of a wait, and the beginning of an effect.
LEMMA AdvanceKeeps ==
  ASSUME IInv, NEW r \in Records, deliver(r) \/ give_up(r) \/ begin_effect(r)
  PROVE  IInv'
<1>1. UNCHANGED <<state, gen, parent, depth, named, domain, calls>>
  BY DEF deliver, give_up, begin_effect
<1>0. call[r] # NoCall
  <2>1. call[r] = NoCall => call[r].stage = "none" /\ ~call[r].waits
    BY DEF NoCall
  <2>2. call[r].stage \in {"queued", "taken"} \/ call[r].waits
    BY Zenon DEF deliver, give_up, begin_effect
  <2> QED BY <2>1, <2>2
<1>2. call[r] \in [stage : Stages, scope : Slots, from : Domains \cup {Nobody},
                   waits : BOOLEAN]
  BY <1>0 DEF IInv, TypeOK, CallType
<1>3. PICK x \in CallType :
        /\ call' = [call EXCEPT ![r] = x]
        /\ x.stage = "effect" => \/ state[x.scope] = "Open"
                                 \/ call[r].stage = "effect" /\ x.scope = call[r].scope
  <2>1. CASE deliver(r)
    <3>1. PICK f \in Domains \cup {Nobody} :
            call' = [call EXCEPT ![r].stage = "taken", ![r].from = f]
      BY <1>2, <2>1 DEF deliver
    <3>2. PICK x : x = [[call[r] EXCEPT !.stage = "taken"] EXCEPT !.from = f]
      OBVIOUS
    <3>3. call' = [call EXCEPT ![r] = x]
      BY <3>1, <3>2 DEF IInv, TypeOK
    <3>4. x \in CallType /\ x.stage # "effect"
      BY <1>2, <3>2 DEF CallType, Stages
    <3> QED BY <3>3, <3>4
  <2>2. CASE give_up(r)
    <3>1. PICK f \in Domains \cup {Nobody} :
            call' = [call EXCEPT ![r].waits = FALSE, ![r].from = f]
      BY <1>2, <2>2 DEF give_up
    <3>2. PICK x : x = [[call[r] EXCEPT !.waits = FALSE] EXCEPT !.from = f]
      OBVIOUS
    <3>3. call' = [call EXCEPT ![r] = x]
      BY <3>1, <3>2 DEF IInv, TypeOK
    <3>4. x \in CallType
      BY <1>2, <3>2 DEF CallType
    <3>5. x.stage = call[r].stage /\ x.scope = call[r].scope
      BY <1>2, <3>2
    <3> QED BY <3>3, <3>4, <3>5
  <2>3. CASE begin_effect(r)
    <3>1. PICK x : x = [call[r] EXCEPT !.stage = "effect"]
      OBVIOUS
    <3>2. x \in CallType /\ x.scope = call[r].scope
      BY <1>2, <3>1 DEF CallType, Stages
    <3>3. state[call[r].scope] = "Open"
      BY <1>2, <2>3, ChainSelf DEF begin_effect, is_open
    <3>4. call' = [call EXCEPT ![r] = x]
      BY <2>3, <3>1 DEF begin_effect
    <3> QED BY <3>2, <3>3, <3>4
  <2> QED BY <2>1, <2>2, <2>3
<1>4. calls' \in [Slots -> Nat]
  BY <1>1 DEF IInv, TypeOK
<1> QED BY <1>1, <1>3, <1>4, RecordKeeps

\* A discharge, the first or the second of a record.
LEMMA ReleaseKeeps ==
  ASSUME IInv, NEW r \in Records, NEW kept \in BOOLEAN,
         release_invocation(r, kept) \/ release_again(r)
  PROVE  IInv'
<1>1. /\ UNCHANGED <<state, gen, parent, depth, named, domain>>
      /\ calls' = Lowered({r})
  BY DEF release_invocation, release_again
<1>2. PICK K \in SUBSET Taken : call' = Ended({r}, K)
  BY DEF release_invocation, release_again
<1>3. PICK nc : nc = Ended({r}, K)
  OBVIOUS
<1>4. /\ nc \in [Records -> CallType]
      /\ \A c \in Records : nc[c].stage = "effect" => nc[c] = call[c]
  BY <1>3, EndedFacts DEF IInv
<1>5. \A s \in Slots : Effects(s)' \subseteq Effects(s)
  BY <1>2, <1>3, <1>4, EffectsShrink
<1>6. calls' \in [Slots -> Nat]
  BY <1>1, LoweredType DEF IInv
<1>7. \A t \in Slots : Owned(t)' = Owned(t)
  BY <1>1 DEF Owned
<1>8. domain' \in [Domains -> DomainType]
  BY <1>1 DEF IInv, TypeOK
<1> QED BY <1>1, <1>2, <1>3, <1>4, <1>5, <1>6, <1>7, <1>8, BusyKeeps

-----------------------------------------------------------------------------
(* The theorems.                                                           *)

\* The table starts with the root alone, and no domain or call.
LEMMA InitHolds == Init => IInv
<1> SUFFICES ASSUME Init PROVE IInv
  OBVIOUS
<1>1. TypeOK
  BY SlotFacts DEF Init, TypeOK, States, DomainType, CallType
<1>2. Nested
  BY DEF Init, Nested
<1>3. Clear
  <2>1. \A s \in Slots : Owned(s) = {} /\ Effects(s) = {}
    BY SlotFacts DEF Init, Owned, Effects, NoDomain, NoCall
  <2> QED BY <2>1, RankFacts DEF Init, Clear
<1> QED BY <1>1, <1>2, <1>3 DEF IInv

\* Every operation keeps the invariant.
LEMMA NextKeeps == IInv /\ [Next]_vars => IInv'
<1> SUFFICES ASSUME IInv, [Next]_vars PROVE IInv'
  OBVIOUS
<1>1. ASSUME NEW s \in Slots, ScopeStep(s) PROVE IInv'
  BY <1>1, CreateKeeps, RefusedKeeps, CloseKeeps, FenceKeeps, RetireKeeps DEF ScopeStep
<1>2. ASSUME NEW d \in Domains, DomainStep(d) PROVE IInv'
  <2>1. CASE unbind_worker(d)
    BY <2>1, UnbindKeeps
  <2> QED BY <1>2, <2>1, CreateInKeeps, TerminateKeeps, ReapKeeps, FaultKeeps, BindKeeps, AdmitKeeps
          DEF DomainStep
<1>3. ASSUME NEW r \in Records, CallStep(r) PROVE IInv'
  BY <1>3, AdvanceKeeps, ReleaseKeeps DEF CallStep
<1>4. CASE UNCHANGED vars
  <2>1. \A s \in Slots : Owned(s)' = Owned(s) /\ Effects(s)' = Effects(s)
    BY <1>4 DEF Owned, Effects, vars
  <2> QED BY <1>4, <2>1 DEF IInv, TypeOK, Nested, Clear, vars
<1> QED BY <1>1, <1>2, <1>3, <1>4, TickKeeps DEF Next

\* The invariant of the scope table holds for any size of table, any number of
\* domains and any number of calls: states are nested along every parent link,
\* and no domain or effect is in a scope that has been closed for good.
THEOREM Inductive == Spec => []IInv
BY InitHolds, NextKeeps, PTL DEF Spec

\* What the invariant says of a scope and its parent it says of the subtree.
LEMMA QuietFromInv == IInv => QuietBelow
<1> SUFFICES ASSUME IInv, NEW s \in Slots, state[s] \in {"Quiescent", "Retired"},
                    NEW t \in Below(s)
             PROVE  Owned(t) = {} /\ Effects(t) = {}
  BY DEF QuietBelow
<1>1. t \in Slots /\ s \in Chain(t)
  BY DEF Below, is_within
<1>2. Rank(state[t]) >= 3
  BY <1>1, ChainRank, RankFacts DEF IInv, TypeOK, States
<1>3. Rank(state[t]) \notin {1, 2}
  BY <1>1, <1>2, RankFacts DEF IInv, TypeOK, States
<1> QED BY <1>1, <1>3 DEF IInv, Clear

\* Quiescence, once reported by advance_quiescence, is never taken back: no
\* domain is ever again in the perimeter and no effect is begun for it, neither
\* by a server that holds one of its calls (begin_effect) nor by a worker bound
\* to one of them (bind_worker).
THEOREM QuiescenceIsStable == Spec => []QuietBelow
BY Inductive, QuietFromInv, PTL

\* One step forward for every entry.
Onward(s) ==
  \/ gen'[s] = gen[s] /\ Rank(state'[s]) >= Rank(state[s])
  \/ /\ \/ gen'[s] = gen[s] + 1 /\ state'[s] = "Open"
        \/ gen'[s] = gen[s] /\ state'[s] = "Empty"
     /\ state[s] \in {"Empty", "Retired"}
     /\ s \notin named /\ Owned(s) = {} /\ Effects(s) = {}

\* What the end of a drain does to the ranks (advance_quiescence).
LEMMA PromotedRank ==
  ASSUME IInv, NEW st \in [Slots -> States], NEW pend,
         \A s \in Slots : Rank(st[s]) >= Rank(state[s])
  PROVE  \A s \in Slots : Rank(Promoted(st, pend)[s]) >= Rank(state[s])
<1> SUFFICES ASSUME NEW s \in Slots
             PROVE  Rank(Promoted(st, pend)[s]) >= Rank(state[s])
  OBVIOUS
<1>1. Rank(state[s]) \in 0..4
  BY RankFacts DEF IInv, TypeOK, States
<1>2. \/ Promoted(st, pend)[s] = st[s]
      \/ st[s] = "Fenced" /\ Promoted(st, pend)[s] = "Quiescent"
  BY DEF Promoted
<1> QED BY <1>1, <1>2, RankFacts

\* No operation takes an entry back, except to empty or refill one at its end.
LEMMA StepOnward ==
  ASSUME IInv, Next
  PROVE  \A s \in Slots : Onward(s)
<1>1. \A t \in Slots : Rank(state[t]) \in 0..4
  BY RankFacts DEF IInv, TypeOK, States
<1>2. CASE UNCHANGED <<state, gen>>
  BY <1>1, <1>2 DEF Onward
<1>3. \A s \in Slots : Rank(Promoted(state, calls)[s]) >= Rank(state[s])
  <2>1. state \in [Slots -> States]
    BY DEF IInv, TypeOK
  <2>2. \A s \in Slots : Rank(state[s]) >= Rank(state[s])
    BY <1>1, SMT
  <2> QED BY <2>1, <2>2, PromotedRank, Zenon
<1>4. CASE tick
  BY <1>3, <1>4 DEF tick, Onward
<1>5. ASSUME NEW r \in Slots, fence(r) PROVE \A s \in Slots : Onward(s)
  <2>1. PICK closed : closed = [s \in Slots |-> IF state[s] = "Open" /\ is_within(r, s)
                                                 THEN "Fenced" ELSE state[s]]
    OBVIOUS
  <2>2. gen' = gen /\ state' = Promoted(closed, calls')
    BY <1>5, <2>1 DEF fence
  <2>3. closed \in [Slots -> States]
    BY <2>1 DEF IInv, TypeOK, States
  <2>4. \A s \in Slots : Rank(closed[s]) >= Rank(state[s])
    BY <1>1, <2>1, RankFacts
  <2>5. \A s \in Slots : Rank(state'[s]) >= Rank(state[s])
    BY <2>2, <2>3, <2>4, PromotedRank
  <2> QED BY <2>2, <2>5 DEF Onward
<1>6. ASSUME NEW r \in Slots, retire(r) PROVE \A s \in Slots : Onward(s)
  <2>1. /\ gen' = gen
        /\ state' = [s \in Slots |-> IF s \in Below(r) THEN "Retired"
                                     ELSE Promoted(state, calls)[s]]
    BY <1>6 DEF retire
  <2>2. SUFFICES ASSUME NEW s \in Slots PROVE Onward(s)
    OBVIOUS
  <2>3. Rank(state'[s]) >= Rank(state[s])
    BY <1>1, <1>3, <2>1, RankFacts
  <2> QED BY <2>1, <2>3 DEF Onward
<1>7. ASSUME NEW p \in Slots, NEW b \in BOOLEAN, create_child(p, b)
      PROVE \A s \in Slots : Onward(s)
  <2>1. PICK k \in Slots :
          /\ Occupy(k, p, b)
          /\ state[k] \in {"Empty", "Retired"}
          /\ k \notin named /\ Owned(k) = {} /\ Effects(k) = {}
    BY <1>7, CreateFacts DEF Idle
  <2>2. /\ gen' = [gen EXCEPT ![k] = @ + 1]
        /\ state' = [state EXCEPT ![k] = "Open"]
    BY <2>1 DEF Occupy
  <2> QED BY <1>1, <2>1, <2>2 DEF Onward, IInv, TypeOK
<1>8. ASSUME NEW p \in Slots, create_refused(p)
      PROVE \A s \in Slots : Onward(s)
  <2>1. PICK k \in Slots :
          /\ Emptied(k) /\ state[k] = "Retired"
          /\ k \notin named /\ Owned(k) = {} /\ Effects(k) = {}
    BY <1>8, RefusedFacts DEF Idle
  <2>2. gen' = gen /\ state' = [state EXCEPT ![k] = "Empty"]
    BY <2>1 DEF Emptied
  <2> QED BY <1>1, <2>1, <2>2 DEF Onward, IInv, TypeOK
<1>9. ASSUME NEW s \in Slots, close(s) PROVE UNCHANGED <<state, gen>>
  BY <1>9 DEF close
<1>10. ASSUME NEW d \in Domains, DomainStep(d) PROVE UNCHANGED <<state, gen>>
  BY <1>10 DEF DomainStep, create_in, terminate, fault, Stopped, reap_dead, admit,
               bind_worker, unbind_worker
<1>11. ASSUME NEW r \in Records, CallStep(r) PROVE UNCHANGED <<state, gen>>
  BY <1>11 DEF CallStep, deliver, give_up, begin_effect, release_invocation, release_again
<1>12. ASSUME NEW s \in Slots, ScopeStep(s) PROVE \A t \in Slots : Onward(t)
  BY <1>2, <1>5, <1>6, <1>7, <1>8, <1>9, <1>12 DEF ScopeStep
<1> QED BY <1>2, <1>4, <1>10, <1>11, <1>12 DEF Next

\* A scope only moves forward, and its entry is given to the next one only
\* when no handle names it, no domain is in it and no effect is under way.
THEOREM LifecycleForward == Spec => Forward
<1>1. IInv /\ [Next]_vars => [\A s \in Slots : Onward(s)]_vars
  BY StepOnward
<1>2. [\A s \in Slots : Onward(s)]_vars
        => [\A s \in Slots :
             \/ gen'[s] = gen[s] /\ Rank(state'[s]) >= Rank(state[s])
             \/ /\ \/ gen'[s] = gen[s] + 1 /\ state'[s] = "Open"
                   \/ gen'[s] = gen[s] /\ state'[s] = "Empty"
                /\ state[s] \in {"Empty", "Retired"}
                /\ s \notin named /\ Owned(s) = {} /\ Effects(s) = {}]_vars
  BY DEF Onward
<1> QED BY <1>1, <1>2, Inductive, PTL DEF Spec, Forward
=============================================================================
