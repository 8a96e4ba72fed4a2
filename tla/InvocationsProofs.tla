-------------------------- MODULE InvocationsProofs -------------------------
(***************************************************************************)
(* The invocation path keeps its promises: every action of Invocations     *)
(* preserves the inductive invariant of InvocationsSteps, and with it what *)
(* the invariants of the model say, for any number of clients, receiving   *)
(* threads and records.  The theorems assume one user of a ticket at a     *)
(* time (OneUser).                                                         *)
(***************************************************************************)
EXTENDS InvocationsSteps

-----------------------------------------------------------------------------
(* The end of a hold: discharge and collection.                            *)

\* A thread goes on inside its hold: its program counter changes and nothing else.
Moves(t, t2, u, pc) ==
  /\ Only(t, t2, u) /\ t2[u].pc = pc /\ t2[u].at = t[u].at /\ t2[u].wait = t[u].wait
  /\ t2[u].aux = t[u].aux /\ t2[u].peer = t[u].peer /\ t2[u].got = t[u].got
  /\ t2[u].bound = t[u].bound

\* Writing a thread's program counter is such a move.
LEMMA MovesIs ==
  ASSUME NEW t \in [Threads -> ThreadType], NEW u \in Threads,
         NEW pc \in ClientPcs \cup ServerPcs
  PROVE  Moves(t, [t EXCEPT ![u].pc = pc], u, pc)
<1>1. t[u] \in ThreadType OBVIOUS
<1>2. [t[u] EXCEPT !.pc = pc] \in ThreadType BY <1>1 DEF ThreadType
<1>3. Only(t, [t EXCEPT ![u].pc = pc], u) BY <1>2 DEF Only
<1> QED BY <1>1, <1>3 DEF Moves, ThreadType

\* A step into the collection keeps the threads in order.
LEMMA ToCollect ==
  ASSUME NEW iv, NEW t, NEW tk, NEW ow, Calls(iv, t, tk, ow), NEW u \in Threads,
         t[u].pc = "discharge", NEW t2, Moves(t, t2, u, "collect")
  PROVE  Calls(iv, t2, tk, ow)
<1>1. t[u].at # NoTicket =>
        /\ u \in Clients => \A d \in Clients \ {u} : t[d].at # t[u].at
        /\ u \in Servers => \A r \in Servers \ {u} : t[r].at # t[u].at
  BY DEF Calls, Apart
<1>2. CASE u \in Clients
  <2>1. Caller(iv, t, ow, u) BY <1>2 DEF Calls
  <2>2. \A s \in Servers : t[s].peer # u BY <1>2, Kinds DEF Calls, Replies
  <2>3. Caller(iv, t2, ow, u) BY <2>1, Zenon DEF Caller, Moves, ClientPcs
  <2>4. Only(t, t2, u) /\ t2[u].at = t[u].at BY DEF Moves
  <2>5. t2[u].at # NoTicket => \A d \in Clients \ {u} : t[d].at # t2[u].at BY <1>1, <1>2, <2>4
  <2> QED BY <1>2, <2>2, <2>3, <2>4, <2>5, ClientStays, Zenon
<1>3. CASE u \in Servers
  <2>1. Servant(t, tk, u) BY <1>3 DEF Calls
  <2>2. Servant(t2, tk, u) BY <2>1 DEF Servant, Moves, ServerPcs, InHold
  <2> QED BY <1>1, <1>3, <2>2, ServerKeeps, ZenonT(30) DEF Moves
<1> QED BY <1>2, <1>3 DEF Threads

\* Records that keep their generations and answers, while no caller is about to
\* discharge or those discharged are not admitted again.
LEMMA AnswersKept ==
  ASSUME NEW iv \in [Invs -> RecordType], NEW iv2 \in [Invs -> RecordType], NEW t,
         \A i \in Invs : /\ iv2[i].gen = iv[i].gen /\ iv2[i].replied = iv[i].replied
                         /\ iv2[i].stored = iv[i].stored,
         \A c \in Clients : t[c].pc = "discharge" => iv2[t[c].at[1]].state # "Admitted"
  PROVE  Older(iv, iv2, t)
<1>1. \A i \in Invs : iv[i].gen \in Nat BY Zenon DEF RecordType
<1>2. \A i \in Invs : iv[i].gen <= iv2[i].gen BY <1>1
<1> QED BY <1>2 DEF Older

\* The first half of `release_invocation`
LEMMA StepDischarge ==
  ASSUME IInv, NEW u \in Threads, Discharge(u)
  PROVE  IInv'
<1> DEFINE i == th[u].at[1]
<1>1. th[u].pc = "discharge" /\ th' = [th EXCEPT ![u].pc = "collect"] BY DEF Discharge
<1>2. i \in Invs /\ inv[i].state # "Admitted"
  <2>1. CASE u \in Clients
    <3>1. th[u].at # NoTicket BY <1>1, <2>1, Place, Zenon DEF Caller
    <3> QED BY <1>1, <2>1, <3>1, Place, Zenon DEF Caller
  <2>2. CASE u \in Servers
    <3>1. th[u].at \in tickets BY <1>1, <2>2, Place DEF Servant
    <3> QED BY <3>1, Obliged
  <2> QED BY <2>1, <2>2, Zenon DEF Threads
<1>3. "collect" \in ClientPcs \cup ServerPcs BY DEF ClientPcs
<1>4. Moves(th, th', u, "collect") BY <1>1, <1>3, Parts, MovesIs, Zenon
<1>5. /\ \A s \in Servers : th'[s].bound = th[s].bound
      /\ \A s \in Servers : th'[s].pc = "blocked" => th'[s] = th[s]
  BY <1>4, Kinds, Zenon DEF Moves, Only
<1>6. Reached(queue, channel, th', domain[Server])
  BY <1>5, Parts, ReachedLess DEF IInv
<1>7. CASE inv[i].state = "Empty"
  <2>1. inv' = inv /\ scope' = scope BY <1>7 DEF Discharge
  <2>2. Records(inv, free, queue, tickets, th', scope) BY <1>5, BindingsKept DEF IInv
  <2>3. Calls(inv, th', tickets, owed) BY <1>1, <1>4, ToCollect DEF IInv
  <2> QED BY <1>6, <2>1, <2>2, <2>3, Zenon DEF IInv, Discharge
<1>8. CASE inv[i].state # "Empty"
  <2>1. inv' = [inv EXCEPT ![i] = Spent(@)] /\ scope' = Returned(scope, inv, {i})
    BY <1>8, Zenon DEF Discharge
  <2>2. inv' = [j \in Invs |-> IF j \in {i} THEN Spent(inv[j]) ELSE inv[j]]
    BY <1>2, <2>1, Parts, Zenon
  <2>3. Range(queue) = Range(queue) \ {i} BY <1>2, Parts, Zenon
  <2>4. {i} \in SUBSET Invs /\ \A j \in {i} : inv[j].state # "Empty" BY <1>2, <1>8, Zenon
  <2> HIDE DEF i
  <2>5. Records(inv', free, queue, tickets, th, scope')
    BY <2>1, <2>2, <2>3, <2>4, Parts, SpendKeeps, Zenon DEF IInv
  <2>6. Records(inv', free, queue, tickets, th', scope') BY <1>5, <2>5, BindingsKept
  <2>7. /\ inv' \in [Invs -> RecordType]
        /\ \A j \in Invs : /\ inv'[j].gen = inv[j].gen /\ inv'[j].replied = inv[j].replied
                           /\ inv'[j].stored = inv[j].stored
                           /\ inv'[j].state = inv[j].state \/ inv'[j].state = "Resolved"
    BY <2>2, Parts, SpentIs
  <2>8. Calls(inv', th, tickets, owed) BY <2>7, Held, TableStep
  <2>9. Calls(inv', th', tickets, owed) BY <1>1, <1>4, <2>8, ToCollect
  <2> QED BY <1>6, <2>6, <2>9, Zenon DEF IInv, Discharge
<1> QED BY <1>7, <1>8

\* The second half of `release_invocation`: `collect_invocation`, and the wake of `reply`
LEMMA StepCollect ==
  ASSUME IInv, NEW u \in Threads, Collect(u)
  PROVE  IInv'
<1> DEFINE i == th[u].at[1]
           w == th[u].peer
<1>1. th[u].pc = "collect" /\ th[u].at # NoTicket BY Place, Zenon DEF Collect, Caller, Servant, InHold, Threads
<1>2. i \in Invs BY <1>1, Parts DEF ThreadType, Handles, Pairs
<1>3. inv' = [j \in Invs |-> IF j \in {i} THEN Collected(inv[j]) ELSE inv[j]]
  BY <1>2, Parts, Zenon DEF Collect
<1>4. free' = free \cup {j \in {i} : Collectable(inv[j])} BY Zenon DEF Collect
<1>5. {i} \in SUBSET Invs BY <1>2
<1>6. th[u].bound \in Handles /\ w \in Clients \cup {Nobody} /\ (u \in Clients => w = Nobody /\ th[u].bound = NoTicket)
  BY Parts, Place, Zenon DEF ThreadType, Caller
<1>7. w # u /\ (w # Nobody => w \in Threads /\ u \in Servers) /\ Nobody \notin Threads
  BY <1>6, Kinds, Zenon DEF Threads
<1>8. PICK x, y : x = [Thread EXCEPT !.bound = th[u].bound] /\ y = [th[w] EXCEPT !.aux = th[u].at]
  BY Zenon
<1>9. th' = [v \in Threads |-> CASE v = u -> x [] v = w -> y [] OTHER -> th[v]]
  BY <1>8 DEF Collect
<1>10. th[u].peer = w /\ owed' = IF w = Nobody THEN owed ELSE owed \cup {w} BY Zenon DEF Collect
<1> HIDE DEF w
<1>11. th' = [v \in Threads |-> IF v = u THEN x ELSE IF v = w THEN y ELSE th[v]]
  BY <1>7, <1>9, Zenon
<1>12. /\ th'[u] \in ThreadType /\ th'[u].pc = "user" /\ th'[u].at = NoTicket
       /\ th'[u].wait = "None" /\ th'[u].peer = Nobody /\ th'[u].aux = NoTicket
       /\ th'[u].got = NoTicket /\ th'[u].bound = th[u].bound
  BY <1>6, <1>11, <1>8, AtRest, Zenon
<1> HIDE DEF i
<1>13. Records(inv', free', queue, tickets, th, scope)
  BY <1>3, <1>4, <1>5, CollectKeeps, Zenon DEF IInv
<1>14. /\ inv' \in [Invs -> RecordType]
       /\ \A j \in Invs : /\ inv'[j].gen = inv[j].gen /\ inv'[j].replied = inv[j].replied
                          /\ inv'[j].stored = inv[j].stored
                          /\ inv'[j].state = inv[j].state \/ inv'[j].state = "Empty"
  BY <1>3, Parts, CollectedIs, Zenon
<1>15. Calls(inv', th, tickets, owed) BY <1>14, Held, TableStep, Zenon
<1>16. \A s \in Servers : s # w BY <1>6, Kinds
<1>17. \A s \in Servers : th'[s].bound = th[s].bound /\ (th'[s].pc = "blocked" => th'[s] = th[s])
  BY <1>11, <1>12, <1>16, Kinds, Zenon
<1>18. Records(inv', free', queue, tickets, th', scope) BY <1>13, <1>17, BindingsKept, Zenon
<1>19. Reached(queue, channel, th', domain[Server])
  BY <1>17, Parts, ReachedLess DEF IInv
<1>20. CASE w = Nobody
  <2>1. owed' = owed BY <1>20, <1>10
  <2>2. \A v \in Threads \ {u} : th'[v] = th[v] BY <1>11, <1>7, <1>20
  <2>3. Only(th, th', u) BY <1>11, <1>12, <2>2, Parts, Zenon DEF Only
  <2>4. CASE u \in Clients
    <3>1. u \notin owed /\ \A s \in Servers : th[s].peer # u
      BY <1>1, <2>4, Place, Unclaimed, Zenon DEF Caller
    <3>2. Caller(inv', th', owed, u)
      BY <1>6, <1>12, <2>4, <3>1, Zenon DEF Caller, ClientPcs, InPlace
    <3>3. Calls(inv', th', tickets, owed)
      <4>1. owed \in {owed, owed \ {u}} BY Zenon
      <4>2. th'[u].at # NoTicket => \A d \in Clients \ {u} : th[d].at # th'[u].at
        BY <1>12, Zenon
      <4> QED BY <1>15, <2>3, <2>4, <3>1, <3>2, <4>1, <4>2, ClientKeeps, Zenon
    <3> QED BY <1>18, <1>19, <2>1, <3>3, Zenon DEF IInv, Collect
  <2>5. CASE u \in Servers
    <3>1. Calls(inv', th', tickets, owed)
      BY <1>12, <1>15, <1>20, <1>10, <2>3, <2>5, ServerBack, Zenon
    <3> QED BY <1>18, <1>19, <2>1, <3>1, Zenon DEF IInv, Collect
  <2> QED BY <2>4, <2>5, Zenon DEF Threads
<1>21. CASE w # Nobody
  <2>1. owed' = owed \cup {w} /\ w \in Clients /\ u \in Servers
    BY <1>6, <1>7, <1>21, <1>10, Zenon
  <2>2. th[w] \in ThreadType /\ th[u].at \in Handles BY <1>7, <2>1, Place, Parts, Zenon DEF ThreadType
  <2>3. th'[w] = y BY <1>11, <1>7, <1>21
  <2>4. th'[w] = [th[w] EXCEPT !.aux = th[u].at] BY <1>8, <2>3
  <2>5. /\ th'[w] \in ThreadType /\ th'[w].pc = th[w].pc /\ th'[w].at = th[w].at
        /\ th'[w].peer = th[w].peer /\ th'[w].bound = th[w].bound
        /\ th'[w].wait = th[w].wait /\ th'[w].got = th[w].got /\ th'[w].aux = th[u].at
    BY <2>2, <2>4 DEF ThreadType
  <2>6. \A v \in Threads \ {u, w} : th'[v] = th[v] BY <1>11
  <2>7. th' \in [Threads -> ThreadType] BY <1>11, <1>12, <2>5, <2>6, Parts
  <2>8. Leaves(th, th', u, w) BY <1>12, <2>5, <2>6, <2>7, Zenon DEF Leaves
  <2>9. Calls(inv', th', tickets, owed \cup {w})
    BY <1>1, <1>15, <1>10, <2>1, <2>8, ReplierDone, Zenon
  <2> QED BY <1>18, <1>19, <2>1, <2>9, Zenon DEF IInv, Collect
<1> QED BY <1>20, <1>21

-----------------------------------------------------------------------------
(* The caller.                                                             *)

\* `admit`: the machine after an admission is in order, and the ticket it makes is
\* one that no caller has.
LEMMA AdmitKeeps ==
  ASSUME IInv, ~Overtaken, NEW c \in Clients, NEW i \in Invs,
         NEW kind \in {"REQUEST", "FAULT"}, NEW waiter \in Clients \cup {Nobody},
         NEW room \in BOOLEAN, MayAdmit(i, kind),
         NEW m, m = Admitted(c, i, kind, waiter, room)
  PROVE  /\ Records(m.inv, m.free, m.queue, m.tickets, m.th, m.scope)
         /\ Calls(m.inv, m.th, m.tickets, m.owed)
         /\ Reached(m.queue, m.channel, m.th, domain[Server])
         /\ \A d \in Clients : /\ m.th[d] = th[d] /\ (d \in m.owed <=> d \in owed)
                               /\ th[d].at # <<i, m.inv[i].gen>>
         /\ \A u \in Threads : m.th[u].pc = th[u].pc
         /\ m.inv[i].gen \in Nat /\ ~m.inv[i].replied
<1>1. PICK r : r = Admission(i, c, kind, waiter, room) OBVIOUS
<1>2. PICK hand \in BOOLEAN : hand = HandsOver(room) BY Zenon DEF HandsOver
<1>3. /\ i \in free /\ \A u \in Threads : th[u].pc = "discharge" => th[u].at[1] # i
  BY DEF MayAdmit
<1>4. /\ r \in RecordType /\ r.gen = inv[i].gen + 1 /\ r.effect = "None" /\ ~r.replied
      /\ r.charged = (kind = "REQUEST")
      /\ r.state = IF hand THEN "Delivered" ELSE "Admitted"
      /\ r.refs = IF hand THEN 1 ELSE 0
  <2>1. inv[i].gen + 1 \in Nat BY Parts DEF RecordType
  <2>2. PICK st \in States, n \in Nat : /\ st = IF hand THEN "Delivered" ELSE "Admitted"
                                        /\ n = IF hand THEN 1 ELSE 0
    BY DEF States
  <2>3. r = [state |-> st, gen |-> inv[i].gen + 1, origin |-> c, waiter |-> waiter,
             kind |-> kind, effect |-> "None", charged |-> kind = "REQUEST", refs |-> n,
             replied |-> FALSE, stored |-> FALSE]
    BY <1>1, <1>2, <2>2, ZenonT(30) DEF Admission, Record
  <2>4. r \in RecordType BY <2>1, <2>3 DEF RecordType, Effects
  <2> QED BY <2>2, <2>3, <2>4
<1>5. /\ m.inv = [inv EXCEPT ![i] = r] /\ m.free = free \ {i}
      /\ m.queue = IF hand THEN queue ELSE Append(queue, i)
      /\ m.channel = [channel EXCEPT !.receivers = ReceiversLeft]
      /\ Claims(th, m.th, ReceiverTaken)
      /\ m.tickets = IF hand THEN tickets \cup {<<i, inv[i].gen + 1>>} ELSE tickets
      /\ m.owed = owed \cup ReceiverTaken
      /\ m.scope = [scope EXCEPT !.invocations = @ + 1,
                                 !.bytes = IF kind = "REQUEST" THEN @ + 1 ELSE @]
  BY <1>1, <1>2 DEF Admitted, Claims
<1>6. Records(inv, free, queue, tickets, th, scope) BY DEF IInv
<1>7. m.tickets = IF hand THEN tickets \cup {<<i, r.gen>>} ELSE tickets BY <1>4, <1>5
<1>8. m.scope = [scope EXCEPT !.invocations = @ + 1,
                              !.bytes = IF r.charged THEN @ + 1 ELSE @]
  BY <1>4, <1>5, Zenon
<1>9. Records(m.inv, m.free, m.queue, m.tickets, th, m.scope)
  <2>1. Records(m.inv, free \ {i}, m.queue, m.tickets, th, m.scope)
    <3>1. Enters(inv, queue, tickets, scope, i, r, hand, m.inv, m.queue, m.tickets, m.scope)
      BY <1>4, <1>5, <1>7, <1>8 DEF Enters
    <3> QED BY <1>3, <1>4, <1>6, <3>1, AdmitRecords
  <2> QED BY <1>5, <2>1
<1>10. /\ ReceiverTaken \in SUBSET Servers /\ ReceiversLeft \in SUBSET Servers
       /\ \A s \in ReceiverTaken : Waiting(s, "Receive")
       /\ \A s \in Servers : Waiting(s, "Receive") =>
             ReceiverTaken # {} /\ (s \in ReceiverTaken \/ s \in ReceiversLeft)
  BY TakenIs DEF IInv
<1>11. \A u \in Threads : /\ m.th[u].pc = th[u].pc /\ m.th[u].bound = th[u].bound
                          /\ u \notin ReceiverTaken => m.th[u] = th[u]
                          /\ u \in ReceiverTaken => m.th[u].wait = "None"
  BY <1>5, Parts, ClaimedIs DEF Claims
<1>12. Records(m.inv, m.free, m.queue, m.tickets, m.th, m.scope)
  BY <1>9, <1>11, Kinds, BindingsKept
<1>13. /\ m.inv \in [Invs -> RecordType] /\ m.inv[i] = r
       /\ \A j \in Invs \ {i} : m.inv[j] = inv[j]
  BY <1>4, <1>5, Parts
<1>14. inv[i].gen \in Nat /\ \A j \in Invs : inv[j].gen \in Nat BY Parts DEF RecordType
<1>15. \A d \in Clients : th[d].pc = "discharge" =>
         /\ th[d].at[1] \in Invs \ {i} /\ inv[th[d].at[1]].state # "Admitted"
  BY <1>3, Kinds, Place, Zenon DEF Caller
<1>16. Older(inv, m.inv, th)
  <2>1. \A j \in Invs : inv[j].gen <= m.inv[j].gen BY <1>4, <1>13, <1>14
  <2>2. \A j \in Invs : m.inv[j].replied => m.inv[j] = inv[j] BY <1>4, <1>13, Zenon
  <2> QED BY <1>13, <1>15, <2>1, <2>2, Zenon DEF Older
<1>17. \A s \in Servers : th[s].pc \in {"answer", "discharge"} => th[s].at \in m.tickets
  <2>1. tickets \subseteq m.tickets BY <1>5
  <2> QED BY <2>1, Place, Zenon DEF Servant
<1>18. Calls(m.inv, th, m.tickets, owed) BY <1>13, <1>16, <1>17, Parts, CallsAged, Zenon DEF IInv
<1>19. ReceiverTaken \in SUBSET Threads /\ ReceiverTaken \cap Clients = {}
  BY <1>10, Kinds
<1>20. Calls(m.inv, m.th, m.tickets, m.owed)
  <2>1. \A u \in ReceiverTaken : th[u].pc = "blocked" BY <1>10 DEF Waiting
  <2> QED BY <1>5, <1>18, <1>19, <2>1, ClaimKeeps
<1>21. Reached(m.queue, m.channel, m.th, domain[Server])
  <2>1. /\ m.channel \in [open : BOOLEAN, receivers : SUBSET Servers]
        /\ m.channel.receivers = ReceiversLeft
    BY <1>5, <1>10, Parts, Zenon
  <2>2. \A s \in Servers : m.th[s].pc = "blocked" /\ m.th[s].wait = "Receive" =>
                           s \notin ReceiverTaken /\ Waiting(s, "Receive")
    BY <1>11, Kinds, Zenon DEF Waiting
  <2>3. \E s \in Servers : ~(m.th[s].pc = "blocked" /\ m.th[s].wait = "Receive")
    <3>1. PICK s \in Servers : TRUE BY InvocationsAssumption, Zenon
    <3>2. CASE ReceiverTaken = {} BY <1>10, <2>2, <3>1, <3>2, Zenon
    <3>3. CASE ReceiverTaken # {} BY <1>10, <2>2, <3>3, Zenon
    <3> QED BY <3>2, <3>3, Zenon
  <2> QED BY <1>10, <2>1, <2>2, <2>3, Zenon DEF Reached
<1>22. ASSUME NEW d \in Clients
       PROVE  m.th[d] = th[d] /\ (d \in m.owed <=> d \in owed) /\ th[d].at # <<i, m.inv[i].gen>>
  <2>1. m.th[d] = th[d] /\ (d \in m.owed <=> d \in owed) BY <1>5, <1>11, <1>19, Kinds, Zenon
  <2>2. th[d].at # NoTicket => th[d].at[2] <= inv[th[d].at[1]].gen BY Place, Zenon DEF Caller
  <2>3. ASSUME th[d].at = <<i, inv[i].gen + 1>> PROVE FALSE
    <3>1. th[d].at # NoTicket /\ th[d].at[1] = i /\ th[d].at[2] = inv[i].gen + 1
      BY <1>14, <2>3, SomeTicket DEF Pairs
    <3>2. inv[i].gen + 1 <= inv[i].gen BY <2>2, <3>1, Zenon
    <3> QED BY <1>14, <3>2
  <2> QED BY <1>4, <1>13, <2>1, <2>3, Zenon
<1> QED BY <1>4, <1>11, <1>12, <1>13, <1>14, <1>20, <1>21, <1>22

\* `send`
LEMMA StepSend ==
  ASSUME IInv, ~Overtaken, NEW c \in Clients, Send(c)
  PROVE  IInv'
<1>1. PICK i \in Invs, room \in BOOLEAN :
        /\ MayAdmit(i, "REQUEST") /\ Admit(Admitted(c, i, "REQUEST", Nobody, room))
        /\ th' = Admitted(c, i, "REQUEST", Nobody, room).th
  BY DEF Send
<1> DEFINE m == Admitted(c, i, "REQUEST", Nobody, room)
<1>2. /\ Records(m.inv, m.free, m.queue, m.tickets, m.th, m.scope)
      /\ Calls(m.inv, m.th, m.tickets, m.owed)
      /\ Reached(m.queue, m.channel, m.th, domain[Server])
  BY <1>1, AdmitKeeps
<1> HIDE DEF m
<1> QED BY <1>1, <1>2, Zenon DEF IInv, Admit, m

\* `call`, up to the end of its admission
LEMMA StepCall ==
  ASSUME IInv, ~Overtaken, NEW c \in Clients, Call(c)
  PROVE  IInv'
<1>1. PICK i \in Invs, room \in BOOLEAN :
        LET m == Admitted(c, i, "REQUEST", c, room)
        IN  /\ MayAdmit(i, "REQUEST") /\ Admit(m)
            /\ th' = [m.th EXCEPT ![c].pc = "admitted", ![c].got = NoTicket,
                                  ![c].at = <<i, m.inv[i].gen>>]
  BY Zenon DEF Call
<1>2. PICK m : m = Admitted(c, i, "REQUEST", c, room) OBVIOUS
<1>3. th[c].pc = "user" BY Zenon DEF Call, MaySend
<1>4. /\ Records(m.inv, m.free, m.queue, m.tickets, m.th, m.scope)
      /\ Calls(m.inv, m.th, m.tickets, m.owed)
      /\ Reached(m.queue, m.channel, m.th, domain[Server])
      /\ \A d \in Clients : /\ m.th[d] = th[d] /\ (d \in m.owed <=> d \in owed)
                            /\ th[d].at # <<i, m.inv[i].gen>>
      /\ m.inv[i].gen \in Nat /\ ~m.inv[i].replied
  BY <1>1, <1>2, AdmitKeeps
<1>5. /\ Admit(m)
      /\ th' = [m.th EXCEPT ![c].pc = "admitted", ![c].got = NoTicket,
                            ![c].at = <<i, m.inv[i].gen>>]
  BY <1>1, <1>2, Zenon
<1>6. m.th \in [Threads -> ThreadType] /\ Caller(m.inv, m.th, m.owed, c) BY <1>4, Zenon DEF Calls
<1>7. m.th[c].pc = "user" /\ m.th[c].at = NoTicket BY <1>3, <1>4, <1>6, Zenon DEF Caller
<1>8. <<i, m.inv[i].gen>> \in Handles /\ <<i, m.inv[i].gen>> # NoTicket
  BY <1>4, SomeTicket, Zenon DEF Handles, Pairs
<1>9. PICK at \in Handles : at = <<i, m.inv[i].gen>> BY <1>8, Zenon
<1>10. PICK x : x = [[[m.th[c] EXCEPT !.pc = "admitted"] EXCEPT !.got = NoTicket] EXCEPT !.at = at]
  OBVIOUS
<1>11. th' = [m.th EXCEPT ![c] = x] BY <1>5, <1>6, <1>9, <1>10, Kinds, Zenon
<1>12. m.th[c] \in ThreadType BY <1>6, Kinds, Zenon
<1>13. /\ x \in ThreadType /\ x.pc = "admitted" /\ x.at = at
       /\ x.got = NoTicket /\ x.wait = m.th[c].wait /\ x.aux = m.th[c].aux
       /\ x.peer = m.th[c].peer /\ x.bound = m.th[c].bound
  BY <1>9, <1>10, <1>12, ZenonT(30) DEF ThreadType, Handles, ClientPcs
<1>14. /\ th'[c] \in ThreadType /\ th'[c].pc = "admitted" /\ th'[c].at = at
       /\ th'[c].got = NoTicket /\ th'[c].wait = m.th[c].wait /\ th'[c].aux = m.th[c].aux
       /\ th'[c].peer = m.th[c].peer /\ th'[c].bound = m.th[c].bound
  BY <1>6, <1>11, <1>13, Kinds, Zenon
<1>15. Only(m.th, th', c) BY <1>11, <1>6, <1>14, Kinds, Zenon DEF Only
<1>16. Caller(m.inv, th', m.owed, c)
  <2>1. at[1] = i /\ at[2] = m.inv[i].gen /\ at # NoTicket BY <1>8, <1>9, Zenon
  <2>2. at[2] <= m.inv[at[1]].gen /\ ~m.inv[at[1]].replied BY <1>4, <2>1
  <2>3. th'[c].aux = NoTicket /\ th'[c].wait \notin {"Receive", "Reply"}
    BY <1>6, <1>7, <1>14, Zenon DEF Caller
  <2>4. c \notin m.owed /\ th'[c].bound = NoTicket /\ th'[c].peer = Nobody
    BY <1>6, <1>7, <1>14, Zenon DEF Caller
  <2> QED BY <1>14, <2>1, <2>2, <2>3, <2>4, Zenon DEF Caller, ClientPcs
<1>17. \A s \in Servers : m.th[s].peer # c
  BY <1>4, <1>7, Kinds DEF Calls, Replies
<1>18. \A d \in Clients \ {c} : m.th[d].at # th'[c].at BY <1>4, <1>9, <1>14, Zenon
<1>19. Calls(m.inv, th', m.tickets, m.owed)
  <2>1. m.owed \in {m.owed, m.owed \ {c}} OBVIOUS
  <2>2. Calls(m.inv, m.th, m.tickets, m.owed) BY <1>4, Zenon
  <2> QED BY <1>15, <1>16, <1>17, <1>18, <2>1, <2>2, ClientKeeps, Zenon
<1>20. \A s \in Servers : th'[s] = m.th[s] BY <1>15, Kinds, Zenon DEF Only
<1>21. Records(m.inv, m.free, m.queue, m.tickets, th', m.scope) BY <1>4, <1>20, BindingsKept, Zenon
<1>22. Reached(m.queue, m.channel, th', domain[Server])
  <2>1. m.channel \in [open : BOOLEAN, receivers : SUBSET Servers] BY <1>4, Zenon DEF Reached
  <2> QED BY <1>4, <1>20, <2>1, ReachedLess
<1> QED BY <1>5, <1>19, <1>21, <1>22, Zenon DEF IInv, Admit

-----------------------------------------------------------------------------
(* The call's return and the receiver.                                     *)

\* `call` registers its wait
LEMMA StepRegister ==
  ASSUME IInv, NEW c \in Clients, Register(c)
  PROVE  IInv'
<1>1. /\ th[c].pc = "admitted"
      /\ th' = [th EXCEPT ![c].pc = "blocked", ![c].wait = "Reply", ![c].aux = NoTicket]
  BY DEF Register
<1>2. Caller(inv, th, owed, c) /\ th[c] \in ThreadType BY Place
<1>3. \A s \in Servers : th[s].peer # c BY <1>1, Unclaimed
<1>4. /\ th'[c] \in ThreadType /\ th'[c].pc = "blocked" /\ th'[c].wait = "Reply"
      /\ th'[c].aux = NoTicket /\ th'[c].at = th[c].at /\ th'[c].got = th[c].got
      /\ th'[c].peer = th[c].peer /\ th'[c].bound = th[c].bound
  BY <1>1, <1>2, Parts, Kinds, Zenon DEF ThreadType, Handles, ClientPcs
<1>5. Only(th, th', c) BY <1>1, <1>4, Parts, Kinds, Zenon DEF Only
<1>6. Caller(inv, th', owed, c) BY <1>1, <1>2, <1>4, Zenon DEF Caller, ClientPcs
<1>7. th[c].at # NoTicket => \A d \in Clients \ {c} : th[d].at # th[c].at
  BY DEF IInv, Calls, Apart
<1>8. th'[c].at # NoTicket => \A d \in Clients \ {c} : th[d].at # th'[c].at BY <1>4, <1>7
<1>9. owed \in {owed, owed \ {c}} /\ Calls(inv, th, tickets, owed) BY DEF IInv
<1>10. Calls(inv, th', tickets, owed) BY <1>3, <1>5, <1>6, <1>8, <1>9, ClientKeeps, Zenon
<1>11. \A s \in Servers : th'[s] = th[s] BY <1>5, Kinds DEF Only
<1>12. Records(inv, free, queue, tickets, th', scope) BY <1>11, BindingsKept DEF IInv
<1>13. Reached(queue, channel, th', domain[Server]) BY <1>11, Parts, ReachedLess DEF IInv
<1> QED BY <1>10, <1>12, <1>13 DEF IInv, Register

\* A caller that returns, or goes on to discharge its record: the rest is kept.
LEMMA ReturnKeeps ==
  ASSUME IInv, NEW c \in Clients, CallReturn(c), Calls(inv', th', tickets, owed),
         Records(inv', free, queue, tickets, th, scope), Only(th, th', c)
  PROVE  IInv'
<1>1. \A s \in Servers : th'[s] = th[s] BY Kinds DEF Only
<1>2. Records(inv', free, queue, tickets, th', scope) BY <1>1, BindingsKept
<1>3. Reached(queue, channel, th', domain[Server]) BY <1>1, Parts, ReachedLess DEF IInv
<1> QED BY <1>2, <1>3, Zenon DEF IInv, CallReturn

\* The caller goes on to discharge its record, with the answer it found there.
Finds(t, t2, c, g) == t2 = [t EXCEPT ![c].pc = "discharge", ![c].got = g]

\* The return of `call` that finds an answer keeps the threads in order.
LEMMA ToDischarge ==
  ASSUME IInv, NEW c \in Clients, th[c].pc = "woken", th[c].aux = NoTicket,
         inv[th[c].at[1]].state # "Admitted", NEW g \in Handles,
         Crossing \/ g \in {NoTicket, th[c].at},
         NEW t2, Finds(th, t2, c, g)
  PROVE  Calls(inv, t2, tickets, owed) /\ Only(th, t2, c)
<1>1. Caller(inv, th, owed, c) /\ th[c] \in ThreadType BY Place, Zenon
<1>2. /\ t2[c] \in ThreadType /\ t2[c].pc = "discharge" /\ t2[c].got = g
      /\ t2[c].aux = th[c].aux /\ t2[c].at = th[c].at /\ t2[c].wait = th[c].wait
      /\ t2[c].peer = th[c].peer /\ t2[c].bound = th[c].bound
  BY <1>1, Parts, Kinds, Zenon DEF ThreadType, ClientPcs, Finds
<1>3. Only(th, t2, c) BY <1>2, Parts, Kinds, Zenon DEF Only, Finds
<1>4. Caller(inv, t2, owed, c) BY <1>1, <1>2, Zenon DEF Caller, ClientPcs
<1>5. \A s \in Servers : th[s].peer # c BY Unclaimed, Zenon
<1>6. th[c].at # NoTicket => \A d \in Clients \ {c} : th[d].at # th[c].at
  BY Zenon DEF IInv, Calls, Apart
<1>7. t2[c].at # NoTicket => \A d \in Clients \ {c} : th[d].at # t2[c].at BY <1>2, <1>6, Zenon
<1>8. Calls(inv, th, tickets, owed) BY Zenon DEF IInv
<1>9. Calls(inv, t2, tickets, owed) BY <1>3, <1>4, <1>5, <1>7, <1>8, ClientStays, Zenon
<1> QED BY <1>3, <1>9

\* `call` after its wait
LEMMA StepCallReturn ==
  ASSUME IInv, NEW c \in Clients, CallReturn(c)
  PROVE  IInv'
<1> DEFINE i == th[c].at[1]
<1>1. th[c].pc = "woken" BY DEF CallReturn
<1>2. Caller(inv, th, owed, c) /\ th[c] \in ThreadType BY Place
<1>3. th[c].at # NoTicket /\ c \notin owed BY <1>1, <1>2, Zenon DEF Caller
<1>4. i \in Invs /\ th[c].at[2] \in Nat /\ th[c].at = <<i, th[c].at[2]>>
  BY <1>2, <1>3 DEF ThreadType, Handles, Pairs
<1>5. \A s \in Servers : th[s].peer # c BY <1>1, Unclaimed, Zenon
<1>6. Calls(inv, [th EXCEPT ![c] = Thread], tickets, owed) BY <1>3, <1>5, ClientBack, Zenon DEF IInv
<1>7. Only(th, [th EXCEPT ![c] = Thread], c) BY Parts, Kinds, ThreadIs, Zenon DEF Only
<1>8. CASE inv' = inv /\ th' = [th EXCEPT ![c] = Thread]
  BY <1>6, <1>7, <1>8, ReturnKeeps, Zenon DEF IInv
<1>9. CASE /\ th[c].aux = NoTicket /\ LooksItself(c) /\ inv[i].replied /\ inv' = inv
           /\ th' = [th EXCEPT ![c].pc = "discharge",
                               ![c].got = IF inv[i].stored THEN <<i, inv[i].gen>> ELSE <<i, 0>>]
  <2>1. inv[i].gen = th[c].at[2] BY <1>9, Zenon DEF LooksItself
  <2>2. PICK g \in Handles : g = IF inv[i].stored THEN <<i, inv[i].gen>> ELSE <<i, 0>>
    BY <1>4, <2>1, Zenon DEF Handles, Pairs
  <2>3. ~Crossing => inv[i].stored
    <3>1. th[c].aux # th[c].at BY <1>3, <1>9, Zenon
    <3>2. ~InPlace(inv, th, c) BY <1>1, <3>1 DEF InPlace
    <3> QED BY <1>1, <1>2, <1>9, <2>1, <3>2, Zenon DEF Caller
  <2>4. Crossing \/ g \in {NoTicket, th[c].at} BY <1>4, <2>1, <2>2, <2>3, Zenon
  <2>5. inv[i].state # "Admitted" BY <1>4, <1>9, Zenon DEF IInv, Records, Settled
  <2>6. th' = [th EXCEPT ![c].pc = "discharge", ![c].got = g] BY <1>9, <2>2, Zenon
  <2>7. Calls(inv, th', tickets, owed) /\ Only(th, th', c)
    BY <1>1, <1>9, <2>4, <2>5, <2>6, ToDischarge, Zenon DEF Finds
  <2> QED BY <1>9, <2>7, ReturnKeeps, Zenon DEF IInv
<1>10. CASE /\ inv' = [inv EXCEPT ![i].waiter = Nobody]
            /\ th' = [th EXCEPT ![c] = Thread]
  <2>1. /\ inv' \in [Invs -> RecordType]
        /\ \A j \in Invs : /\ inv'[j].state = inv[j].state /\ inv'[j].effect = inv[j].effect
                           /\ inv'[j].charged = inv[j].charged
                           /\ inv'[j].gen = inv[j].gen /\ inv'[j].refs = inv[j].refs
                           /\ inv'[j].replied = inv[j].replied /\ inv'[j].stored = inv[j].stored
    <3>1. PICK x : x = [inv[i] EXCEPT !.waiter = Nobody] BY Zenon
    <3>2. inv[i] \in RecordType BY <1>4, Parts, Zenon
    <3>3. inv' = [inv EXCEPT ![i] = x] BY <1>10, <3>1, Zenon
    <3> HIDE DEF i
    <3> QED BY <1>4, <3>1, <3>2, <3>3, Parts, WaiterSet
  <2>2. Records(inv', free, queue, tickets, th, scope) BY <2>1, TableKept DEF IInv
  <2>3. Calls(inv', th, tickets, owed) BY <2>1, Held, TableStep, Zenon
  <2>4. Calls(inv', th', tickets, owed) BY <1>3, <1>5, <1>10, <2>3, ClientBack, Zenon
  <2> QED BY <1>7, <1>10, <2>2, <2>4, ReturnKeeps, Zenon
<1>11. CASE /\ th[c].aux = NoTicket /\ inv[i].state = "Resolved" /\ inv' = inv
            /\ th' = [th EXCEPT ![c].pc = "discharge"]
  <2>1. th[c].got \in Handles /\ (Crossing \/ th[c].got \in {NoTicket, th[c].at})
    BY <1>2, Zenon DEF ThreadType, Caller
  <2>2. th' = [th EXCEPT ![c].pc = "discharge", ![c].got = th[c].got]
    <3>1. [th[c] EXCEPT !.pc = "discharge"] =
          [[th[c] EXCEPT !.pc = "discharge"] EXCEPT !.got = th[c].got]
      BY <1>2, Zenon DEF ThreadType
    <3> QED BY <1>11, <3>1, Parts, Kinds, Zenon
  <2>3. Calls(inv, th', tickets, owed) /\ Only(th, th', c)
    BY <1>1, <1>11, <2>1, <2>2, ToDischarge, Zenon DEF Finds
  <2> QED BY <1>11, <2>3, ReturnKeeps, Zenon DEF IInv
<1> QED BY <1>8, <1>9, <1>10, <1>11, Zenon DEF CallReturn, ReturnAnswered, ReturnLooked
----------------------------------------------------------------------------
\* `receive`
LEMMA StepReceive ==
  ASSUME IInv, NEW s \in Servers, Receive(s)
  PROVE  IInv'
<1>1. th[s].pc = "user" BY Zenon DEF Receive
<1>2. CASE Deliver(s)
  <2>1. PICK i : i = Head(queue) BY Zenon
  <2>2. /\ queue # <<>> /\ queue' = Tail(queue) /\ th' = th /\ channel' = channel
        /\ inv' = [inv EXCEPT ![i].state = "Delivered", ![i].refs = @ + 1]
        /\ tickets' = tickets \cup {<<i, inv[i].gen>>}
    BY <1>2, <2>1, Zenon DEF Deliver
  <2>3. i \in Invs /\ Records(inv', free, queue', tickets', th, scope)
    <3>1. Records(inv, free, queue, tickets, th, scope) BY Zenon DEF IInv
    <3>2. i \in Invs /\ Records(inv', free, Tail(queue), tickets \cup {<<i, inv[i].gen>>}, th, scope)
      BY <2>2, <2>1, <3>1, DeliverRecords, Zenon
    <3> QED BY <2>2, <3>2, Zenon
  <2>4. inv' \in [Invs -> RecordType] BY <2>3, Zenon DEF Records, Typed
  <2>5. \A j \in Invs : /\ inv'[j].gen = inv[j].gen /\ inv'[j].replied = inv[j].replied
                        /\ inv'[j].stored = inv[j].stored
                        /\ inv'[j].state \in {inv[j].state, "Delivered"}
    BY <2>2, <2>3, Parts DEF RecordType
  <2>6. \A r \in Servers : th[r].pc \in {"answer", "discharge"} => th[r].at \in tickets'
    BY <2>2, Place, Zenon DEF Servant
  <2>7. Calls(inv', th, tickets', owed) BY <2>4, <2>5, <2>6, TableStep, Zenon
  <2>8. Reached(queue', channel, th, domain[Server]) BY <2>2, Parts, ReachedLess DEF IInv
  <2> QED BY <2>2, <2>3, <2>7, <2>8, Zenon DEF IInv, Receive
<1>3. CASE AwaitMessage(s)
  <2>1. /\ queue = <<>> /\ UNCHANGED <<inv, queue, tickets>>
        /\ th' = [th EXCEPT ![s].pc = "blocked", ![s].wait = "Receive", ![s].aux = NoTicket]
        /\ channel' = [channel EXCEPT !.receivers = @ \cup {s}]
    BY <1>3 DEF AwaitMessage
  <2>2. Servant(th, tickets, s) /\ th[s] \in ThreadType BY Place, Zenon
  <2>3. /\ th'[s] \in ThreadType /\ th'[s].pc = "blocked" /\ th'[s].wait = "Receive"
        /\ th'[s].at = th[s].at /\ th'[s].peer = th[s].peer /\ th'[s].bound = th[s].bound
    BY <2>1, <2>2, Parts, Kinds, ZenonT(30) DEF ThreadType, Handles, ServerPcs
  <2>4. Only(th, th', s) BY <2>1, <2>3, Parts, Kinds, Zenon DEF Only
  <2>5. th'[s].at = NoTicket /\ th'[s].peer = th[s].peer BY <1>1, <2>2, <2>3, Zenon DEF Servant, InHold
  <2>6. Servant(th', tickets, s)
    BY <1>1, <2>2, <2>3, Zenon DEF Servant, ServerPcs, InHold
  <2>7. Calls(inv, th', tickets, owed) BY <2>3, <2>4, <2>5, <2>6, ServerKeeps, Zenon DEF IInv
  <2>8. \A r \in Servers \ {s} : th'[r] = th[r] BY <2>4, Kinds DEF Only
  <2>9. Records(inv, free, queue, tickets, th', scope)
    BY <2>3, <2>8, BindingsKept, Zenon DEF IInv
  <2>10. /\ channel' \in [open : BOOLEAN, receivers : SUBSET Servers]
         /\ channel'.receivers = channel.receivers \cup {s}
    BY <2>1, Parts, Zenon
  <2>11. Reached(queue, channel', th', domain[Server])
    BY <2>1, <2>8, <2>10, ZenonT(30) DEF IInv, Reached
  <2> QED BY <2>1, <2>7, <2>9, <2>11, Zenon DEF IInv, Receive
<1> QED BY <1>2, <1>3, Zenon DEF Receive

-----------------------------------------------------------------------------
(* The replier, tickets and workers.                                       *)

\* Receiving thread `s` starts to work on ticket `k`, or stops working on one.
TakesUp(t, t2, s, pc, k) ==
  /\ Only(t, t2, s) /\ t2[s].pc = pc /\ t2[s].at = k /\ t2[s].wait = t[s].wait
  /\ t2[s].peer = t[s].peer /\ t2[s].bound = t[s].bound

\* `reply` and `cap_close` write the ticket a receiving thread works on.
LEMMA TakesUpIs ==
  ASSUME NEW t \in [Threads -> ThreadType], NEW s \in Servers, NEW pc \in ServerPcs,
         NEW k \in Handles
  PROVE  TakesUp(t, [t EXCEPT ![s].pc = pc, ![s].at = k], s, pc, k)
<1>1. t[s] \in ThreadType /\ s \in Threads BY Kinds
<1>2. PICK x : x = [[t[s] EXCEPT !.pc = pc] EXCEPT !.at = k] OBVIOUS
<1>3. /\ x \in ThreadType /\ x.pc = pc /\ x.at = k /\ x.wait = t[s].wait
      /\ x.peer = t[s].peer /\ x.bound = t[s].bound
  BY <1>1, <1>2, Zenon DEF ThreadType
<1>4. [t EXCEPT ![s].pc = pc, ![s].at = k] = [t EXCEPT ![s] = x] BY <1>1, <1>2, Zenon
<1> QED BY <1>1, <1>3, <1>4 DEF TakesUp, Only

\* Its threads' part and its receivers' part of a step of one receiving thread.
LEMMA ServerStep ==
  ASSUME IInv, NEW s \in Servers, NEW t2, Only(th, t2, s), t2[s].bound = th[s].bound,
         t2[s].pc # "blocked"
  PROVE  /\ Reached(queue, channel, t2, domain[Server])
         /\ \A iv2, fr2, q2, tk2, sc2 :
              Records(iv2, fr2, q2, tk2, th, sc2) => Records(iv2, fr2, q2, tk2, t2, sc2)
<1>1. \A r \in Servers \ {s} : t2[r] = th[r] BY Kinds DEF Only
<1>2. \A r \in Servers : t2[r].bound = th[r].bound BY <1>1
<1>3. \A r \in Servers : t2[r].pc = "blocked" /\ t2[r].wait = "Receive" =>
                         th[r].pc = "blocked" /\ th[r].wait = "Receive"
  BY <1>1
<1>4. Reached(queue, channel, t2, domain[Server]) BY <1>3, Parts, ReachedLess DEF IInv
<1> QED BY <1>2, <1>4, BindingsKept

\* `reply`, second hold
LEMMA StepAnswer ==
  ASSUME IInv, NEW s \in Servers, Answer(s)
  PROVE  IInv'
<1> DEFINE i == th[s].at[1]
           w == inv[i].waiter
<1>1. th[s].pc = "answer" BY Zenon DEF Answer
<1>2. th[s].at \in tickets /\ th[s].peer = Nobody /\ th[s].wait # "Reply"
  BY <1>1, Place DEF Servant
<1>3. /\ i \in Invs /\ th[s].at = <<i, inv[i].gen>> /\ th[s].at # NoTicket
      /\ inv[i].state \notin {"Empty", "Admitted"}
  BY <1>2, Obliged, Zenon
<1>4. NoTicket \in Handles /\ "user" \in ServerPcs BY DEF Handles, ServerPcs
<1>5. ASSUME th' = [th EXCEPT ![s].pc = "user", ![s].at = NoTicket],
             Calls(inv', th, tickets, owed), Records(inv', free, queue, tickets, th, scope)
      PROVE  IInv'
  <2>1. TakesUp(th, th', s, "user", NoTicket) BY <1>4, <1>5, Parts, TakesUpIs, Zenon
  <2>2. Calls(inv', th', tickets, owed) BY <1>2, <1>5, <2>1, ServerBack, Zenon DEF TakesUp
  <2>3. /\ Records(inv', free, queue, tickets, th', scope)
        /\ Reached(queue, channel, th', domain[Server])
    BY <1>5, <2>1, ServerStep, Zenon DEF TakesUp
  <2> QED BY <2>2, <2>3, Zenon DEF IInv, Answer
<1>6. CASE inv' = inv /\ th' = [th EXCEPT ![s].pc = "user", ![s].at = NoTicket]
  BY <1>5, <1>6 DEF IInv
<1>7. CASE /\ WaitsReply(w, <<i, inv[i].gen>>)
           /\ inv' = [inv EXCEPT ![i].replied = TRUE]
           /\ th' = [th EXCEPT ![s].pc = "discharge", ![s].peer = w,
                               ![w] = [Claimed(@) EXCEPT !.got = th[s].at]]
  <2>1. w \in Clients /\ th[w].pc = "blocked" /\ th[w].wait = "Reply" /\ th[w].at = th[s].at
    BY <1>3, <1>7, Parts, Zenon DEF WaitsReply, Waiting, RecordType
  <2>2. /\ inv' \in [Invs -> RecordType]
        /\ \A j \in Invs : /\ inv'[j].state = inv[j].state /\ inv'[j].effect = inv[j].effect
                           /\ inv'[j].charged = inv[j].charged
                           /\ inv'[j].gen = inv[j].gen /\ inv'[j].refs = inv[j].refs
                           /\ inv'[j].stored = inv[j].stored
                           /\ j # i => inv'[j].replied = inv[j].replied
    <3>1. PICK r : r = [inv[i] EXCEPT !.replied = TRUE] BY Zenon
    <3>2. inv[i] \in RecordType BY <1>3, Parts, Zenon
    <3>3. /\ r \in RecordType /\ r.state = inv[i].state /\ r.effect = inv[i].effect
          /\ r.charged = inv[i].charged /\ r.gen = inv[i].gen /\ r.refs = inv[i].refs
          /\ r.stored = inv[i].stored
      BY <3>1, <3>2, Zenon DEF RecordType
    <3>4. inv' = [inv EXCEPT ![i] = r] BY <1>7, <3>1, Zenon
    <3> HIDE DEF i
    <3> QED BY <1>3, <3>3, <3>4, Parts
  <2>3. Records(inv', free, queue, tickets, th, scope) BY <1>3, <2>2, TableKept DEF IInv
  <2>4. s \in Threads /\ w \in Threads /\ s # w /\ th[s] \in ThreadType /\ th[w] \in ThreadType
    BY <2>1, Kinds, Place, Zenon
  <2>5. PICK x : x = [[th[s] EXCEPT !.pc = "discharge"] EXCEPT !.peer = w] OBVIOUS
  <2>6. /\ x \in ThreadType /\ x.pc = "discharge" /\ x.peer = w /\ x.at = th[s].at
        /\ x.wait = th[s].wait /\ x.bound = th[s].bound
    BY <2>1, <2>4, <2>5, Zenon DEF ThreadType, ServerPcs
  <2>7. PICK y : y = [Claimed(th[w]) EXCEPT !.got = th[s].at] BY Zenon
  <2>8. /\ Claimed(th[w]) \in ThreadType /\ Claimed(th[w]).pc = th[w].pc
        /\ Claimed(th[w]).at = th[w].at /\ Claimed(th[w]).wait = "None"
        /\ Claimed(th[w]).aux = NoTicket /\ Claimed(th[w]).peer = th[w].peer
        /\ Claimed(th[w]).bound = th[w].bound
    BY <2>4, ClaimedIs, Zenon
  <2>9. /\ y \in ThreadType /\ y.pc = th[w].pc /\ y.at = th[w].at /\ y.wait = "None"
        /\ y.aux = NoTicket /\ y.peer = th[w].peer /\ y.bound = th[w].bound
        /\ y.got = th[s].at
    BY <2>4, <2>7, <2>8, Zenon DEF ThreadType
  <2>10. th'[s] = x /\ th'[w] = y /\ \A u \in Threads \ {s, w} : th'[u] = th[u]
    BY <1>7, <2>4, <2>5, <2>7, Parts, Zenon
  <2>11. th' \in [Threads -> ThreadType]
    <3>1. th' = [[th EXCEPT ![s] = x] EXCEPT ![w] = y] BY <1>7, <2>4, <2>5, <2>7, Parts, Zenon
    <3> QED BY <2>6, <2>9, <3>1, Parts, Zenon
  <2>12. Answers(inv, inv', th, th', s, w)
    BY <2>2, <2>6, <2>9, <2>10, <2>11, Zenon DEF Answers
  <2>13. Named(inv, th[s].at) /\ tickets \in SUBSET Pairs BY <1>3, Parts DEF Named
  <2>14. Calls(inv', th', tickets, owed)
    BY <1>1, <1>2, <2>1, <2>12, <2>13, AnswerKeeps, Zenon DEF IInv
  <2>15. \A r \in Servers : /\ th'[r].bound = th[r].bound
                            /\ th'[r].pc = "blocked" => th'[r] = th[r]
    BY <2>1, <2>6, <2>10, Kinds, Zenon
  <2>16. Records(inv', free, queue, tickets, th', scope) BY <2>3, <2>15, BindingsKept, Zenon
  <2>17. Reached(queue, channel, th', domain[Server]) BY <2>15, Parts, ReachedLess DEF IInv
  <2> QED BY <2>14, <2>16, <2>17, Zenon DEF IInv, Answer
<1>8. CASE /\ inv' = [inv EXCEPT ![i].replied = TRUE, ![i].stored = TRUE]
           /\ th' = [th EXCEPT ![s].pc = "user", ![s].at = NoTicket]
  <2>1. PICK x : x = [[inv[i] EXCEPT !.replied = TRUE] EXCEPT !.stored = TRUE] OBVIOUS
  <2>2. /\ x \in RecordType /\ x.state = inv[i].state /\ x.effect = inv[i].effect
        /\ x.charged = inv[i].charged /\ x.gen = inv[i].gen /\ x.refs = inv[i].refs /\ x.stored
    <3>1. inv[i] \in RecordType BY <1>3, Parts
    <3>2. PICK r : r = [inv[i] EXCEPT !.replied = TRUE] OBVIOUS
    <3>3. /\ r \in RecordType /\ r.state = inv[i].state /\ r.effect = inv[i].effect
          /\ r.charged = inv[i].charged /\ r.gen = inv[i].gen /\ r.refs = inv[i].refs
      BY <3>1, <3>2, Zenon DEF RecordType
    <3>4. x = [r EXCEPT !.stored = TRUE] BY <2>1, <3>2
    <3>5. /\ x \in RecordType /\ x.state = r.state /\ x.effect = r.effect
          /\ x.charged = r.charged /\ x.gen = r.gen /\ x.refs = r.refs /\ x.stored
      BY <3>3, <3>4, Zenon DEF RecordType
    <3> QED BY <3>3, <3>5, Zenon
  <2>3. inv' = [inv EXCEPT ![i] = x] BY <1>3, <1>8, <2>1, Parts, Zenon
  <2>4. /\ inv' \in [Invs -> RecordType]
        /\ \A j \in Invs : /\ inv'[j].state = inv[j].state /\ inv'[j].effect = inv[j].effect
                           /\ inv'[j].charged = inv[j].charged
                           /\ inv'[j].gen = inv[j].gen /\ inv'[j].refs = inv[j].refs
                           /\ j = i \/ inv'[j] = inv[j]
        /\ inv'[i].stored
    BY <1>3, <2>2, <2>3, Parts, Zenon
  <2>5. Records(inv', free, queue, tickets, th, scope) BY <1>3, <2>4, TableKept DEF IInv
  <2>6. Calls(inv', th, tickets, owed) BY <2>4, Held, TableStep
  <2> QED BY <1>5, <1>8, <2>5, <2>6, Zenon
<1> QED BY <1>6, <1>7, <1>8, Zenon DEF Answer

\* `reply`, first hold
LEMMA StepReply ==
  ASSUME IInv, ~SharedTickets, NEW s \in Servers, NEW k \in tickets, Reply(s, k)
  PROVE  IInv'
<1>1. /\ th[s].pc = "user" /\ \A u \in Servers : th[u].pc \in InHold => th[u].at # k
      /\ th' = [th EXCEPT ![s].pc = "answer", ![s].at = k]
  BY DEF Reply, Usable
<1>2. k \in Handles /\ k # NoTicket /\ "answer" \in ServerPcs
  BY Obliged DEF Handles, ServerPcs
<1>3. TakesUp(th, th', s, "answer", k) BY <1>1, <1>2, Parts, TakesUpIs, Zenon
<1>4. Servant(th, tickets, s) BY Place, Zenon
<1>5. Servant(th', tickets, s) BY <1>1, <1>2, <1>3, <1>4, Zenon DEF Servant, TakesUp, ServerPcs, InHold
<1>6. \A r \in Servers \ {s} : th[r].at # k BY <1>1, <1>2, Place, Zenon DEF Servant
<1>7. th[s].peer = Nobody BY <1>1, <1>4, Zenon DEF Servant
<1>8. Calls(inv, th', tickets, owed)
  BY <1>3, <1>5, <1>6, <1>7, ServerKeeps, Zenon DEF IInv, TakesUp
<1>9. /\ Records(inv, free, queue, tickets, th', scope)
      /\ Reached(queue, channel, th', domain[Server])
  BY <1>3, ServerStep, Zenon DEF IInv, TakesUp
<1> QED BY <1>8, <1>9 DEF IInv, Reply

\* `cap_close` of a ticket
LEMMA StepClose ==
  ASSUME IInv, ~SharedTickets, NEW s \in Servers, NEW k \in tickets, Close(s, k)
  PROVE  IInv'
<1> DEFINE i == k[1]
<1>1. /\ th[s].pc = "user" /\ \A u \in Servers : th[u].pc \in InHold => th[u].at # k
      /\ th' = [th EXCEPT ![s].pc = "collect", ![s].at = k] /\ tickets' = tickets \ {k}
      /\ inv' = [inv EXCEPT ![i].refs = Minus(@)]
  BY DEF Close
<1>2. k \in Handles /\ k # NoTicket /\ "collect" \in ServerPcs /\ i \in Invs
  BY Obliged DEF Handles, ServerPcs
<1>3. inv[i].refs \in Nat BY <1>2, Parts DEF RecordType
<1>4. Minus(inv[i].refs) \in Nat BY <1>3 DEF Minus
<1>5. inv' = [inv EXCEPT ![i].refs = Minus(inv[i].refs)] BY <1>1
<1>6. Recounted(inv, inv', i, Minus(inv[i].refs)) BY <1>2, <1>4, <1>5, Parts, RefsSet, Zenon
<1>7. Records(inv', free, queue, tickets', th, scope) BY <1>1, <1>6, CloseRecords DEF IInv
<1>8. \A r \in Servers : th[r].pc \in {"answer", "discharge"} => th[r].at \in tickets'
  BY <1>1, Held DEF InHold
<1>9. Calls(inv', th, tickets', owed) BY <1>6, <1>8, TableStep DEF Recounted
<1>10. TakesUp(th, th', s, "collect", k) BY <1>1, <1>2, Parts, TakesUpIs, Zenon
<1>11. Servant(th, tickets, s) BY Place
<1>12. Servant(th', tickets', s)
  BY <1>1, <1>2, <1>10, <1>11 DEF Servant, TakesUp, ServerPcs, InHold
<1>13. \A r \in Servers \ {s} : th[r].at # k BY <1>1, <1>2, Place, Zenon DEF Servant
<1>14. th[s].peer = Nobody BY <1>1, <1>11 DEF Servant
<1>15. Calls(inv', th', tickets', owed)
  BY <1>9, <1>10, <1>12, <1>13, <1>14, ServerKeeps, Zenon DEF TakesUp
<1>16. /\ Records(inv', free, queue, tickets', th', scope)
       /\ Reached(queue, channel, th', domain[Server])
  BY <1>7, <1>10, ServerStep, Zenon DEF TakesUp
<1> QED BY <1>15, <1>16 DEF IInv, Close

\* `begin_effect`
LEMMA StepBeginEffect ==
  ASSUME IInv, NEW s \in Servers, NEW k \in tickets, BeginEffect(s, k)
  PROVE  IInv'
<1> DEFINE i == k[1]
<1>1. i \in Invs /\ inv[i].state \notin {"Empty", "Resolved"} /\ inv[i].effect = "None"
  BY Obliged DEF BeginEffect
<1>2. /\ inv' = [inv EXCEPT ![i].effect = IF scope.open THEN "Admitted" ELSE "Refused"]
      /\ scope' = IF scope.open THEN [scope EXCEPT !.effects = @ + 1] ELSE scope
  BY DEF BeginEffect
<1>3. Records(inv', free, queue, tickets, th, scope') BY <1>1, <1>2, EffectRecords, Zenon DEF IInv
<1>4. inv' \in [Invs -> RecordType] BY <1>3, Zenon DEF Records, Typed
<1>5. \A j \in Invs : /\ inv'[j].gen = inv[j].gen /\ inv'[j].replied = inv[j].replied
                      /\ inv'[j].stored = inv[j].stored /\ inv'[j].state = inv[j].state
  BY <1>1, <1>2, Parts DEF RecordType
<1>6. Calls(inv', th, tickets, owed) BY <1>4, <1>5, Held, TableStep
<1> QED BY <1>3, <1>6, Zenon DEF IInv, BeginEffect

\* A receiving thread's binding changes.
Binds(t, t2, s, b) ==
  /\ Only(t, t2, s) /\ t2[s].pc = t[s].pc /\ t2[s].at = t[s].at /\ t2[s].wait = t[s].wait
  /\ t2[s].peer = t[s].peer /\ t2[s].bound = b

\* `bind_worker` and `unbind_worker` write one binding.
LEMMA BindsIs ==
  ASSUME NEW t \in [Threads -> ThreadType], NEW s \in Servers, NEW b \in Handles
  PROVE  Binds(t, [t EXCEPT ![s].bound = b], s, b) /\ Rebound(t, [t EXCEPT ![s].bound = b], s, b)
<1>1. t[s] \in ThreadType /\ s \in Threads /\ Servers \subseteq Threads BY Kinds
<1>2. PICK x : x = [t[s] EXCEPT !.bound = b] BY Zenon
<1>3. /\ x \in ThreadType /\ x.pc = t[s].pc /\ x.at = t[s].at /\ x.wait = t[s].wait
      /\ x.peer = t[s].peer /\ x.bound = b
  BY <1>1, <1>2 DEF ThreadType
<1>4. [t EXCEPT ![s].bound = b] = [t EXCEPT ![s] = x] BY <1>1, <1>2
<1> QED BY <1>1, <1>3, <1>4 DEF Binds, Only, Rebound

\* A change of a binding keeps the threads and the receivers in order.
LEMMA BindStep ==
  ASSUME IInv, NEW s \in Servers, NEW b, NEW t2, Binds(th, t2, s, b), NEW iv2,
         Calls(iv2, th, tickets, owed)
  PROVE  /\ Calls(iv2, t2, tickets, owed)
         /\ Reached(queue, channel, t2, domain[Server])
<1>1. Servant(th, tickets, s) BY Place, Zenon
<1>2. Servant(t2, tickets, s) BY <1>1 DEF Servant, Binds
<1>3. th[s].at # NoTicket => \A r \in Servers \ {s} : th[r].at # th[s].at
  BY Zenon DEF IInv, Calls, Apart
<1>4. Calls(iv2, t2, tickets, owed) BY <1>2, <1>3, ServerKeeps, Zenon DEF Binds
<1>5. \A r \in Servers : t2[r].pc = "blocked" /\ t2[r].wait = "Receive" =>
                         th[r].pc = "blocked" /\ th[r].wait = "Receive"
  BY Kinds, Zenon DEF Binds, Only
<1>6. Reached(queue, channel, t2, domain[Server]) BY <1>5, Parts, ReachedLess DEF IInv
<1> QED BY <1>4, <1>6

\* `bind_worker`
LEMMA StepBindWorker ==
  ASSUME IInv, NEW s \in Servers, NEW k \in tickets, BindWorker(s, k)
  PROVE  IInv'
<1> DEFINE i == k[1]
<1>1. /\ th[s].bound = NoTicket /\ th' = [th EXCEPT ![s].bound = k]
      /\ inv' = [inv EXCEPT ![i].refs = inv[i].refs + 1]
  BY DEF BindWorker
<1>2. k \in Handles /\ i \in Invs BY Obliged DEF Handles
<1>3. inv[i].refs + 1 \in Nat BY <1>2, Parts DEF RecordType
<1>4. Recounted(inv, inv', i, inv[i].refs + 1) BY <1>1, <1>2, <1>3, Parts, RefsSet, Zenon
<1>5. Binds(th, th', s, k) /\ Rebound(th, th', s, k) BY <1>1, <1>2, Parts, BindsIs, Zenon
<1>6. Records(inv', free, queue, tickets, th', scope)
  BY <1>1, <1>4, <1>5, BindRecords, Zenon DEF IInv
<1>7. Calls(inv', th, tickets, owed) BY <1>4, Held, TableStep, Zenon DEF Recounted
<1>8. Calls(inv', th', tickets, owed) /\ Reached(queue, channel, th', domain[Server])
  BY <1>5, <1>7, BindStep, Zenon
<1> QED BY <1>6, <1>8, Zenon DEF IInv, BindWorker

\* `unbind_worker`
LEMMA StepUnbindWorker ==
  ASSUME IInv, NEW s \in Servers, UnbindWorker(s)
  PROVE  IInv'
<1> DEFINE i == th[s].bound[1]
<1>1. th[s].bound # NoTicket /\ th' = [th EXCEPT ![s].bound = NoTicket] BY Zenon DEF UnbindWorker
<1>2. th[s].bound \in Pairs /\ Named(inv, th[s].bound)
  BY <1>1 DEF IInv, Records, Issued
<1>3. i \in Invs /\ inv' = [inv EXCEPT ![i].refs = Minus(inv[i].refs)] /\ NoTicket \in Handles
  BY <1>2, Zenon DEF UnbindWorker, Named, Pairs, Handles
<1>4. inv[i].refs \in Nat BY <1>3, Parts, Zenon DEF RecordType
<1>5. Minus(inv[i].refs) \in Nat BY <1>4 DEF Minus
<1>6. Recounted(inv, inv', i, Minus(inv[i].refs)) BY <1>3, <1>5, Parts, RefsSet, Zenon
<1>7. Binds(th, th', s, NoTicket) /\ Rebound(th, th', s, NoTicket)
  BY <1>1, <1>3, Parts, BindsIs, Zenon
<1>8. Records(inv', free, queue, tickets, th', scope)
  BY <1>1, <1>6, <1>7, UnbindRecords DEF IInv
<1>9. Calls(inv', th, tickets, owed) BY <1>6, Held, TableStep, Zenon DEF Recounted
<1>10. Calls(inv', th', tickets, owed) /\ Reached(queue, channel, th', domain[Server])
  BY <1>7, <1>9, BindStep
<1> QED BY <1>8, <1>10, Zenon DEF IInv, UnbindWorker

-----------------------------------------------------------------------------
(* Resolution, fence and the death of a client.                            *)

\* Records ended in one exclusive hold keep their generations and answers.
LEMMA EndedIs ==
  ASSUME NEW iv \in [Invs -> RecordType], NEW set \in SUBSET Invs
  PROVE  /\ Ended(iv, set) \in [Invs -> RecordType]
         /\ \A i \in Invs :
              /\ Ended(iv, set)[i].gen = iv[i].gen
              /\ Ended(iv, set)[i].replied = iv[i].replied
              /\ Ended(iv, set)[i].stored = iv[i].stored
              /\ Ended(iv, set)[i].state \in {iv[i].state, "Resolved", "Empty"}
<1>1. ASSUME NEW i \in Invs
      PROVE  LET x == Collected(Spent(iv[i]))
             IN  /\ x \in RecordType /\ x.gen = iv[i].gen /\ x.replied = iv[i].replied
                 /\ x.stored = iv[i].stored /\ x.state \in {"Resolved", "Empty"}
  <2>1. PICK y \in RecordType : y = Spent(iv[i]) BY SpentIs, Zenon
  <2>2. /\ y.gen = iv[i].gen /\ y.replied = iv[i].replied /\ y.stored = iv[i].stored
        /\ y.state = "Resolved"
    BY <2>1, SpentIs
  <2>3. PICK z \in RecordType : z = Collected(y) BY CollectedIs
  <2>4. /\ z.gen = y.gen /\ z.replied = y.replied /\ z.stored = y.stored
        /\ z.state \in {"Resolved", "Empty"}
    BY <2>2, <2>3, CollectedIs
  <2> QED BY <2>1, <2>2, <2>3, <2>4, Zenon
<1> QED BY <1>1 DEF Ended

\* The callers of a set of records sleep on their calls.
LEMMA CallersAsleep ==
  ASSUME NEW set
  PROVE  /\ CallersOf(set) \in SUBSET Clients
         /\ \A c \in CallersOf(set) : th[c].pc = "blocked" /\ th[c].wait = "Reply"
BY DEF CallersOf, WaitsReply, Waiting

\* Claims of callers change nothing for the records and for the receivers.
LEMMA ClaimStep ==
  ASSUME IInv, NEW set \in SUBSET Clients, NEW t2, Claims(th, t2, set)
  PROVE  \A s \in Servers : t2[s] = th[s]
BY Kinds DEF Claims

\* `resolve_invocation`
LEMMA StepResolve ==
  ASSUME IInv, NEW s \in Servers, NEW k \in tickets, Resolve(s, k)
  PROVE  IInv'
<1> DEFINE set == {k[1]}
           callers == CallersOf(set)
<1>1. /\ Exclusive /\ inv' = Ended(inv, set) /\ free' = free \cup Freed(inv, set)
      /\ scope' = Returned(scope, inv, set) /\ Claims(th, th', callers)
      /\ owed' = owed \cup callers
  BY Zenon DEF Resolve, ClaimAll, Claims
<1>2. /\ set \in SUBSET Invs /\ \A i \in set : inv[i].state # "Empty"
      /\ Range(queue) = Range(queue) \ set
  BY Obliged
<1>3. callers \in SUBSET Clients /\ \A c \in callers : th[c].pc = "blocked" /\ th[c].wait = "Reply"
  BY CallersAsleep
<1>4. UNCHANGED <<queue, channel, tickets, domain>> BY DEF Resolve
<1> HIDE DEF set, callers
<1>5. Records(inv', free', queue, tickets, th, scope')
  BY <1>1, <1>2, Parts, EndedKeeps, Zenon DEF IInv
<1>6. \A r \in Servers : th'[r] = th[r] BY <1>1, <1>3, ClaimStep
<1>7. Records(inv', free', queue, tickets, th', scope') BY <1>5, <1>6, BindingsKept, Zenon
<1>8. Reached(queue, channel, th', domain[Server]) BY <1>6, Parts, ReachedLess DEF IInv
<1>9. /\ inv' \in [Invs -> RecordType]
      /\ \A i \in Invs : /\ inv'[i].gen = inv[i].gen /\ inv'[i].replied = inv[i].replied
                         /\ inv'[i].stored = inv[i].stored
                         /\ inv'[i].state \in {inv[i].state, "Resolved", "Empty"}
  BY <1>1, <1>2, Parts, EndedIs
<1>10. Calls(inv', th, tickets, owed) BY <1>9, Held, TableStep, Zenon
<1>11. callers \in SUBSET Threads BY <1>3 DEF Threads
<1>12. Calls(inv', th', tickets, owed \cup callers)
  BY <1>1, <1>3, <1>10, <1>11, ClaimKeeps, Zenon
<1> QED BY <1>1, <1>4, <1>7, <1>8, <1>12 DEF IInv

\* Withdrawing messages queues no more.
LEMMA WithdrawnLess ==
  ASSUME NEW q \in Seq(Invs), IsInjective(q), NEW set
  PROVE  Withdrawn(q, set) # <<>> => q # <<>>
<1>1. /\ Withdrawn(q, set) \in Seq(Invs) /\ IsInjective(Withdrawn(q, set))
      /\ Range(Withdrawn(q, set)) = Range(q) \ set
  BY WithdrawnIs
<1>2. Withdrawn(q, set) # <<>> => Head(Withdrawn(q, set)) \in Range(q) BY <1>1, Unlinked
<1>3. q = <<>> => Range(q) = {} BY DEF Range
<1> QED BY <1>2, <1>3

\* `fence_scope`
LEMMA StepFence ==
  ASSUME IInv, Fence
  PROVE  IInv'
<1> DEFINE set == {i \in Range(queue) : inv[i].state = "Admitted"}
           cancelled == {c \in Clients : th[c].pc = "blocked" /\ Alive(c)}
<1>1. /\ Exclusive /\ (Crossing \/ cancelled \cap owed = {})
      /\ inv' = Ended(inv, set) /\ free' = free \cup Freed(inv, set)
      /\ queue' = Withdrawn(queue, set)
      /\ scope' = [Returned(scope, inv, set) EXCEPT !.open = FALSE]
      /\ Claims(th, th', cancelled) /\ owed' = owed \cup cancelled
      /\ UNCHANGED <<channel, tickets, domain>>
  BY DEF Fence, ClaimAll, Claims
<1>2. /\ set \in SUBSET Invs /\ \A i \in set : inv[i].state # "Empty"
      /\ cancelled \in SUBSET Clients /\ \A c \in cancelled : th[c].pc = "blocked"
  BY Parts, Zenon
<1> HIDE DEF set, cancelled
<1>3. /\ queue' \in Seq(Invs) /\ IsInjective(queue') /\ Range(queue') = Range(queue) \ set
      /\ queue' # <<>> => queue # <<>>
  BY <1>1, Parts, WithdrawnIs, WithdrawnLess, Zenon
<1>4. Records(inv', free', queue', tickets, th, Returned(scope, inv, set))
  BY <1>1, <1>2, <1>3, EndedKeeps DEF IInv
<1>5. Records(inv', free', queue', tickets, th, scope') BY <1>1, <1>4, FencedKeeps, Zenon
<1>6. \A r \in Servers : th'[r] = th[r] BY <1>1, <1>2, ClaimStep
<1>7. Records(inv', free', queue', tickets, th', scope') BY <1>5, <1>6, BindingsKept
<1>8. Reached(queue', channel, th', domain[Server]) BY <1>3, <1>6, Parts, ReachedLess DEF IInv
<1>9. /\ inv' \in [Invs -> RecordType]
      /\ \A i \in Invs : /\ inv'[i].gen = inv[i].gen /\ inv'[i].replied = inv[i].replied
                         /\ inv'[i].stored = inv[i].stored
                         /\ inv'[i].state \in {inv[i].state, "Resolved", "Empty"}
  BY <1>1, <1>2, Parts, EndedIs
<1>10. Calls(inv', th, tickets, owed) BY <1>9, Held, TableStep
<1>11. \A r \in Servers : th[r].peer = Nobody BY <1>1, Unheld DEF IInv, Exclusive
<1>12. ASSUME NEW c \in cancelled \cap Clients
       PROVE  th[c].wait = "Reply" \/ (Crossing /\ \A r \in Servers : th[r].peer # c)
  <2>1. \A r \in Servers : th[r].peer # c BY <1>11, Kinds
  <2>2. CASE Crossing BY <2>1, <2>2
  <2>3. CASE ~Crossing
    <3>1. c \notin owed /\ th[c].pc = "blocked" BY <1>1, <1>2, <2>3
    <3>2. th[c].wait \in {"None", "Reply", "Receive"} BY Place, Zenon DEF ThreadType
    <3>3. th[c].wait \notin {"None", "Receive"} BY <2>1, <3>1, Place DEF Caller
    <3> QED BY <3>2, <3>3, Zenon
  <2> QED BY <2>2, <2>3, Zenon
<1>13. cancelled \in SUBSET Threads BY <1>2, Zenon DEF Threads
<1>14. Calls(inv', th', tickets, owed \cup cancelled)
  BY <1>1, <1>2, <1>10, <1>12, <1>13, ClaimKeeps
<1> QED BY <1>1, <1>7, <1>8, <1>14 DEF IInv

\* `terminate_in` of a client, in a machine that is in order
LEMMA DiesKeeps ==
  ASSUME NEW c \in Clients, NEW state \in {"Stopping", "Faulted"}, NEW m,
         Records(m.inv, m.free, m.queue, m.tickets, m.th, m.scope),
         Calls(m.inv, m.th, m.tickets, m.owed),
         Reached(m.queue, m.channel, m.th, domain[Server]),
         domain \in [Clients \cup {Server} -> {"Runnable", "Stopping", "Faulted"}],
         \A u \in Threads : m.th[u].pc \notin InHold, Dies(c, state, m)
  PROVE  IInv'
<1> DEFINE set == {i \in Range(m.queue) : m.inv[i].origin = c}
<1>1. /\ inv' = [i \in Invs |->
                   CASE i \in set -> Ended(m.inv, set)[i]
                     [] i \notin set /\ Live(m.inv[i]) /\ m.inv[i].origin = c ->
                          [m.inv[i] EXCEPT !.waiter = Nobody]
                     [] OTHER -> m.inv[i]]
      /\ free' = m.free \cup Freed(m.inv, set)
      /\ queue' = Withdrawn(m.queue, set)
      /\ scope' = Returned(m.scope, m.inv, set)
      /\ th' = [m.th EXCEPT ![c] = [Thread EXCEPT !.pc = "dead"]]
      /\ owed' = m.owed \ {c}
      /\ domain' = [domain EXCEPT ![c] = state]
      /\ channel' = m.channel /\ tickets' = m.tickets
  BY Zenon DEF Dies
<1>2. /\ m.inv \in [Invs -> RecordType] /\ m.queue \in Seq(Invs) /\ IsInjective(m.queue)
      /\ Range(m.queue) = {i \in Invs : m.inv[i].state = "Admitted"}
  BY Zenon DEF Records, Typed, Queued
<1>3. set \in SUBSET Invs /\ \A i \in set : m.inv[i].state # "Empty" BY <1>2, Zenon
<1> HIDE DEF set
<1>4. /\ queue' \in Seq(Invs) /\ IsInjective(queue') /\ Range(queue') = Range(m.queue) \ set
      /\ queue' # <<>> => m.queue # <<>>
  BY <1>1, <1>2, WithdrawnIs, WithdrawnLess, Zenon
<1>5. PICK e : e = Ended(m.inv, set) BY Zenon
<1>6. Records(e, free', queue', m.tickets, m.th, scope')
  BY <1>1, <1>3, <1>4, <1>5, EndedKeeps, Zenon
<1>7. /\ e \in [Invs -> RecordType]
      /\ \A i \in Invs : /\ e[i].gen = m.inv[i].gen /\ e[i].replied = m.inv[i].replied
                         /\ e[i].stored = m.inv[i].stored
  BY <1>2, <1>3, <1>5, EndedIs
<1>8. \A i \in Invs \ set : e[i] = m.inv[i] BY <1>5 DEF Ended
<1>9. /\ inv' \in [Invs -> RecordType]
      /\ \A i \in Invs : /\ inv'[i].state = e[i].state /\ inv'[i].effect = e[i].effect
                         /\ inv'[i].charged = e[i].charged /\ inv'[i].gen = e[i].gen
                         /\ inv'[i].refs = e[i].refs /\ inv'[i].replied = e[i].replied
                         /\ inv'[i].stored = e[i].stored
  <2>1. \A i \in Invs : inv'[i] = e[i] \/ inv'[i] = [e[i] EXCEPT !.waiter = Nobody]
    BY <1>1, <1>5, <1>8, Zenon
  <2>2. inv' = [i \in Invs |-> inv'[i]] BY <1>1, Zenon
  <2>3. \A i \in Invs : e[i] \in RecordType BY <1>7, Zenon
  <2>4. \A i \in Invs : inv'[i] \in RecordType BY <2>1, <2>3, WaiterSet, Zenon
  <2> QED BY <2>1, <2>2, <2>3, <2>4, WaiterSet
<1>10. Records(inv', free', queue', m.tickets, m.th, scope') BY <1>6, <1>9, TableKept
<1>11. m.th \in [Threads -> ThreadType] /\ c \in Threads BY Kinds DEF Calls
<1>12. [Thread EXCEPT !.pc = "dead"] \in ThreadType
  BY DEF Thread, ThreadType, Handles, ServerPcs
<1>13. /\ th'[c] \in ThreadType /\ th'[c].pc = "dead" /\ th'[c].at = NoTicket
       /\ th'[c].wait = "None" /\ th'[c].aux = NoTicket /\ th'[c].peer = Nobody
       /\ th'[c].got = NoTicket /\ th'[c].bound = NoTicket
  BY <1>1, <1>11, <1>12, Zenon DEF Thread
<1>14. Only(m.th, th', c) BY <1>1, <1>11, <1>13, Zenon DEF Only
<1>15. \A r \in Servers : th'[r] = m.th[r] BY <1>14, Kinds DEF Only
<1>16. Records(inv', free', queue', m.tickets, th', scope') BY <1>10, <1>15, BindingsKept
<1>17. m.channel \in [open : BOOLEAN, receivers : SUBSET Servers] BY Zenon DEF Reached
<1>18. domain'[Server] = domain[Server] BY <1>1, InvocationsAssumption, Zenon
<1>19. Reached(queue', m.channel, th', domain'[Server])
  BY <1>4, <1>15, <1>17, <1>18, ReachedLess
<1>20. \A d \in Clients : m.th[d].pc # "discharge" BY Kinds, Zenon DEF InHold
<1>21. \A i \in Invs : /\ inv'[i].gen = m.inv[i].gen /\ inv'[i].replied = m.inv[i].replied
                       /\ inv'[i].stored = m.inv[i].stored
  BY <1>7, <1>9
<1>22. inv' \in [Invs -> RecordType] BY <1>9, Zenon
<1>23. Older(m.inv, inv', m.th) BY <1>2, <1>20, <1>21, <1>22, AnswersKept, Zenon
<1>24. /\ \A r \in Servers : m.th[r].peer = Nobody
       /\ \A r \in Servers : m.th[r].pc \notin {"answer", "discharge"}
  BY Unheld, Kinds, Zenon
<1>25. Calls(inv', m.th, m.tickets, m.owed) BY <1>2, <1>9, <1>23, <1>24, CallsAged, Zenon
<1>26. Caller(inv', th', m.owed \ {c}, c) BY <1>13, Zenon DEF Caller, ClientPcs, InPlace
<1>27. \A r \in Servers : m.th[r].peer # c BY <1>24, Kinds, Zenon
<1>28. Calls(inv', th', m.tickets, m.owed \ {c})
  BY <1>13, <1>14, <1>25, <1>26, <1>27, ClientKeeps, Zenon
<1>29. domain' \in [Clients \cup {Server} -> {"Runnable", "Stopping", "Faulted"}] BY <1>1, Zenon
<1> QED BY <1>1, <1>16, <1>19, <1>28, <1>29, Zenon DEF IInv

\* `terminate_in` of a client by its own request or by authority
LEMMA StepClientStops ==
  ASSUME IInv, NEW c \in Clients, ClientStops(c)
  PROVE  IInv'
<1>1. /\ Dies(c, "Stopping", Machine) /\ Exclusive BY Zenon DEF ClientStops, Dies
<1>2. PICK m : m = Machine OBVIOUS
<1>3. /\ m.inv = inv /\ m.free = free /\ m.queue = queue /\ m.channel = channel
      /\ m.th = th /\ m.tickets = tickets /\ m.owed = owed /\ m.scope = scope
  BY <1>2 DEF Machine
<1>4. \A u \in Threads : m.th[u].pc \notin InHold BY <1>1, <1>3 DEF Exclusive
<1> QED BY <1>1, <1>2, <1>3, <1>4, DiesKeeps, Zenon DEF IInv

\* `fault_domain`
LEMMA StepClientFaults ==
  ASSUME IInv, ~Overtaken, NEW c \in Clients, ClientFaults(c)
  PROVE  IInv'
<1>1. CASE Dies(c, "Faulted", Machine)
  <2>1. Exclusive BY <1>1 DEF Dies
  <2>2. PICK m : m = Machine OBVIOUS
  <2>3. /\ m.inv = inv /\ m.free = free /\ m.queue = queue /\ m.channel = channel
        /\ m.th = th /\ m.tickets = tickets /\ m.owed = owed /\ m.scope = scope
    BY <2>2 DEF Machine
  <2>4. \A u \in Threads : m.th[u].pc \notin InHold BY <2>1, <2>3 DEF Exclusive
  <2> QED BY <1>1, <2>2, <2>3, <2>4, DiesKeeps, Zenon DEF IInv
<1>2. CASE \E i \in free, room \in BOOLEAN :
             /\ MayAdmit(i, "FAULT")
             /\ Dies(c, "Faulted", Admitted(c, i, "FAULT", Nobody, room))
  <2>1. PICK i \in free, room \in BOOLEAN :
             /\ MayAdmit(i, "FAULT")
             /\ Dies(c, "Faulted", Admitted(c, i, "FAULT", Nobody, room))
    BY <1>2
  <2>2. i \in Invs BY Zenon DEF IInv, Records, Typed
  <2>3. PICK m : m = Admitted(c, i, "FAULT", Nobody, room) OBVIOUS
  <2>4. Exclusive BY <2>1, Zenon DEF Dies
  <2>5. /\ Records(m.inv, m.free, m.queue, m.tickets, m.th, m.scope)
        /\ Calls(m.inv, m.th, m.tickets, m.owed)
        /\ Reached(m.queue, m.channel, m.th, domain[Server])
        /\ \A u \in Threads : m.th[u].pc = th[u].pc
    BY <2>1, <2>2, <2>3, AdmitKeeps
  <2>6. \A u \in Threads : m.th[u].pc \notin InHold BY <2>4, <2>5, Zenon DEF Exclusive
  <2> QED BY <2>1, <2>3, <2>5, <2>6, DiesKeeps, Zenon DEF IInv
<1> QED BY <1>1, <1>2 DEF ClientFaults

-----------------------------------------------------------------------------
(* The death of the server, and the theorems.                              *)

\* `terminate_in` of the receiving domain
LEMMA StepServerDies ==
  ASSUME IInv, ServerDies
  PROVE  IInv'
<1> DEFINE set == {i \in Invs : inv[i].state = "Delivered"}
           named == {k[1] : k \in tickets}
           let_go == [i \in Invs |-> [inv[i] EXCEPT !.refs = @ - Cardinality(TicketsOf(tickets, i))]]
           ended == [i \in Invs |-> IF i \in set THEN Spent(let_go[i]) ELSE let_go[i]]
           callers == CallersOf(set)
           t1 == [u \in Threads |-> IF u \in callers THEN Claimed(th[u]) ELSE th[u]]
<1>1. /\ Exclusive
      /\ inv' = [i \in Invs |-> IF i \in set \cup named THEN Collected(ended[i]) ELSE ended[i]]
      /\ free' = free \cup {i \in set \cup named : Collectable(ended[i])}
      /\ scope' = Returned(scope, inv, set)
      /\ tickets' = {} /\ channel' = [channel EXCEPT !.open = FALSE]
      /\ th' = [u \in Threads |-> CASE u \in Servers -> [Thread EXCEPT !.pc = "dead"]
                                    [] u \in callers -> Claimed(th[u])
                                    [] OTHER -> th[u]]
      /\ owed' = (owed \ Servers) \cup callers
      /\ domain' = [domain EXCEPT ![Server] = "Stopping"] /\ queue' = queue
  BY Zenon DEF ServerDies, TicketsOf
<1>2. set \in SUBSET Invs /\ set \cup named \in SUBSET Invs
  BY Obliged
<1>3. callers \in SUBSET Clients /\ \A c \in callers : th[c].pc = "blocked" /\ th[c].wait = "Reply"
  BY CallersAsleep
<1>4. Range(queue) = Range(queue) \ set BY Parts
<1>5. PICK x : x = [Thread EXCEPT !.pc = "dead"] BY Zenon
<1>6. x.bound = NoTicket /\ x.pc = "dead" BY <1>5 DEF Thread
<1>7. th' = [u \in Threads |-> IF u \in Servers THEN x ELSE t1[u]]
  <2>1. th' = [u \in Threads |-> CASE u \in Servers -> x
                                   [] u \in callers -> Claimed(th[u])
                                   [] OTHER -> th[u]]
    BY <1>1, <1>5
  <2>2. \A u \in callers : u \notin Servers BY <1>3, Kinds, Zenon
  <2> HIDE DEF callers
  <2> QED BY <2>1, <2>2
<1>8. \A s \in Servers : th'[s].bound = NoTicket /\ th'[s].pc = "dead"
  BY <1>6, <1>7, Kinds
<1>9. PICK lg : lg = let_go BY Zenon
<1>10. PICK en : en = [i \in Invs |-> IF i \in set THEN Spent(lg[i]) ELSE lg[i]] BY Zenon
<1>11. ended = en BY <1>9, <1>10
<1>12. \A i \in set : inv[i].state = "Delivered" OBVIOUS
<1>13. th' = [u \in Threads |-> IF u \in Servers THEN [Thread EXCEPT !.pc = "dead"] ELSE t1[u]]
  BY <1>5, <1>7
<1>14. Claims(th, t1, callers) BY DEF Claims
<1>15. /\ inv' = [i \in Invs |-> IF i \in set \cup named THEN Collected(en[i]) ELSE en[i]]
       /\ free' = free \cup {i \in set \cup named : Collectable(en[i])}
  BY <1>1, <1>11, Zenon
<1>16. lg = [i \in Invs |-> [inv[i] EXCEPT !.refs = @ - Cardinality(TicketsOf(tickets, i))]]
  BY <1>9
<1> HIDE DEF set, named, let_go, ended, callers, t1
<1>17. /\ Records(lg, free, queue, {}, th', scope)
       /\ \A i \in Invs : /\ lg[i].state = inv[i].state /\ lg[i].effect = inv[i].effect
                          /\ lg[i].charged = inv[i].charged /\ lg[i].gen = inv[i].gen
                          /\ lg[i].replied = inv[i].replied /\ lg[i].stored = inv[i].stored
  BY <1>8, <1>16, LetGoRecords DEF IInv
<1>18. \A i \in set : lg[i].state # "Empty" BY <1>2, <1>12, <1>17
<1>19. Records(en, free, queue, {}, th', Returned(scope, lg, set))
  BY <1>2, <1>4, <1>10, <1>17, <1>18, Parts, SpendKeeps
<1>20. Returned(scope, lg, set) = Returned(scope, inv, set)
  <2>1. /\ {i \in set : lg[i].effect = "Admitted"} = {i \in set : inv[i].effect = "Admitted"}
        /\ {i \in set : lg[i].charged} = {i \in set : inv[i].charged}
    BY <1>2, <1>17
  <2> QED BY <2>1, Zenon DEF Returned
<1>21. Records(inv', free', queue, {}, th', scope')
  <2>1. PICK S : S = set \cup named BY Zenon
  <2>2. /\ S \in SUBSET Invs /\ free' = free \cup {i \in S : Collectable(en[i])}
        /\ inv' = [i \in Invs |-> IF i \in S THEN Collected(en[i]) ELSE en[i]]
    BY <1>2, <1>15, <2>1
  <2>3. Records(en, free, queue, {}, th', scope') BY <1>1, <1>19, <1>20
  <2> QED BY <2>2, <2>3, CollectKeeps
<1>22. lg \in [Invs -> RecordType] /\ inv' \in [Invs -> RecordType]
  BY <1>17, <1>21, Zenon DEF Records, Typed
<1>23. \A i \in Invs : /\ en[i] \in RecordType /\ en[i].gen = inv[i].gen
                       /\ en[i].replied = inv[i].replied /\ en[i].stored = inv[i].stored
                       /\ en[i].state \in {inv[i].state, "Resolved"}
  BY <1>10, <1>17, <1>22, SpentIs
<1>24. \A i \in Invs : /\ inv'[i].gen = inv[i].gen /\ inv'[i].replied = inv[i].replied
                       /\ inv'[i].stored = inv[i].stored
                       /\ inv'[i].state \in {inv[i].state, "Resolved", "Empty"}
  BY <1>15, <1>23, CollectedIs
<1>25. Calls(inv', th, tickets, owed) BY <1>22, <1>24, Held, TableStep
<1>26. callers \in SUBSET Threads BY <1>3 DEF Threads
<1>27. Calls(inv', t1, tickets, owed \cup callers)
  BY <1>3, <1>14, <1>25, <1>26, ClaimKeeps
<1>28. \A s \in Servers : th[s].peer = Nobody BY <1>1, Unheld DEF IInv, Exclusive
<1>29. \A s \in Servers : t1[s] = th[s] BY <1>3, <1>14, ClaimStep
<1>30. Calls(inv', th', {}, (owed \cup callers) \ Servers)
  BY <1>13, <1>27, <1>28, <1>29, ServersEnd
<1>31. (owed \cup callers) \ Servers = owed' BY <1>1, <1>3, Kinds
<1>32. /\ channel' \in [open : BOOLEAN, receivers : SUBSET Servers]
       /\ domain[Server] \in {"Runnable", "Stopping", "Faulted"}
       /\ domain'[Server] = "Stopping"
       /\ domain' \in [Clients \cup {Server} -> {"Runnable", "Stopping", "Faulted"}]
  BY <1>1, Parts, Zenon DEF IInv
<1>33. Reached(queue, channel', th', domain'[Server]) BY <1>8, <1>32 DEF Reached
<1> QED BY <1>1, <1>21, <1>30, <1>31, <1>32, <1>33, Zenon DEF IInv
----------------------------------------------------------------------------
\* The machine starts in order.
LEMMA Starts == Init => IInv
<1> SUFFICES ASSUME Init PROVE IInv OBVIOUS
<1>1. /\ inv = [i \in Invs |-> Record] /\ free = Invs /\ queue = <<>> /\ tickets = {}
      /\ channel = [open |-> TRUE, receivers |-> {}]
      /\ th = [t \in Threads |-> Thread] /\ owed = {}
      /\ scope = [open |-> TRUE, invocations |-> 0, effects |-> 0, bytes |-> 0]
      /\ domain = [d \in Clients \cup {Server} |-> "Runnable"]
  BY DEF Init
<1>2. Record \in RecordType BY DEF Record, RecordType, States, Effects
<1>3. \A i \in Invs : /\ inv[i] = Record /\ inv[i].state = "Empty" /\ inv[i].effect = "None"
                      /\ ~inv[i].charged /\ inv[i].refs = 0 /\ ~inv[i].replied
  BY <1>1 DEF Record
<1>4. \A u \in Threads : th[u] = Thread BY <1>1
<1>5. \A s \in Servers : th[s].bound = NoTicket BY <1>4, Kinds, ThreadIs
<1>6. Typed(inv, free, queue, tickets, scope)
  <2>1. scope \in ScopeType BY <1>1 DEF ScopeType
  <2>2. queue \in Seq(Invs) /\ tickets \in SUBSET Pairs BY <1>1
  <2> QED BY <1>1, <1>2, <2>1, <2>2 DEF Typed
<1>7. \A i \in Invs : Settled(inv[i]) BY <1>3 DEF Settled
<1>8. Queued(inv, queue)
  <2>1. Range(queue) = {} BY <1>1 DEF Range
  <2>2. IsInjective(queue) BY <1>1 DEF IsInjective
  <2> QED BY <1>3, <2>1, <2>2 DEF Queued
<1>9. free = {i \in Invs : inv[i].state = "Empty"} BY <1>1, <1>3
<1>10. Issued(inv, tickets, th) BY <1>1, <1>5, Zenon DEF Issued
<1>11. Counted(inv, tickets, th)
  <2>1. \A i \in Invs : TicketsOf(tickets, i) = {} /\ BoundTo(th, i) = {}
    BY <1>1, <1>5 DEF TicketsOf, BoundTo
  <2> QED BY <1>3, <2>1, FS_EmptySet DEF Counted
<1>12. Accounts(inv, scope)
  <2>1. /\ {i \in Invs : inv[i].effect = "Admitted"} = {} /\ {i \in Invs : inv[i].charged} = {}
        /\ {i \in Invs : Live(inv[i])} = {}
    BY <1>3 DEF Live
  <2>2. Cardinality({}) = 0 BY FS_EmptySet
  <2>3. scope.effects = 0 /\ scope.bytes = 0 /\ scope.invocations = 0 BY <1>1
  <2>4. /\ Cardinality({i \in Invs : inv[i].effect = "Admitted"}) = 0
        /\ Cardinality({i \in Invs : inv[i].charged}) = 0
        /\ Cardinality({i \in Invs : Live(inv[i])}) = 0
    BY <2>1, <2>2, Zenon
  <2>5. scope.invocations <= Cardinality({i \in Invs : Live(inv[i])}) BY <2>3, <2>4
  <2> QED BY <2>3, <2>4, <2>5 DEF Accounts
<1>13. Records(inv, free, queue, tickets, th, scope)
  BY <1>6, <1>7, <1>8, <1>9, <1>10, <1>11, <1>12, Zenon DEF Records
<1>14. Calls(inv, th, tickets, owed)
  <2>1. th \in [Threads -> ThreadType] /\ owed \in SUBSET Threads BY <1>1, ThreadIs
  <2>2. \A s \in Servers : Servant(th, tickets, s) /\ Replies(th, owed, s)
    BY <1>4, Kinds, ThreadIs, Zenon DEF Servant, Replies, ServerPcs, InHold
  <2>3. \A c \in Clients : Caller(inv, th, owed, c)
    BY <1>1, <1>4, Kinds, ThreadIs DEF Caller, ClientPcs
  <2>4. Apart(th) BY <1>4, Kinds, ThreadIs, Zenon DEF Apart
  <2> QED BY <2>1, <2>2, <2>3, <2>4 DEF Calls
<1>15. Reached(queue, channel, th, domain[Server])
  BY <1>1, <1>4, Kinds, ThreadIs DEF Reached
<1>16. domain \in [Clients \cup {Server} -> {"Runnable", "Stopping", "Faulted"}] BY <1>1, Zenon
<1> QED BY <1>13, <1>14, <1>15, <1>16 DEF IInv

\* Every step keeps it, when two threads do not use one ticket at a time and no record
\* is reused under a caller about to discharge it.
LEMMA Steps ==
  ASSUME ~SharedTickets, ~Overtaken, IInv, [Next]_vars
  PROVE  IInv'
<1>1. CASE UNCHANGED vars BY <1>1 DEF vars, IInv
<1>2. CASE \E u \in Threads : Wake(u) \/ ExpireWait(u) \/ Discharge(u) \/ Collect(u)
  BY <1>2, StepWake, StepExpireWait, StepDischarge, StepCollect
<1>3. CASE \E c \in Clients : \/ Send(c) \/ Call(c) \/ Register(c)
                              \/ CallReturn(c) \/ ClientStops(c) \/ ClientFaults(c)
  BY <1>3, StepSend, StepCall, StepRegister, StepCallReturn, StepClientStops,
     StepClientFaults
<1>4. CASE \E s \in Servers : Receive(s) \/ Answer(s) \/ UnbindWorker(s)
  BY <1>4, StepReceive, StepAnswer, StepUnbindWorker
<1>5. CASE \E s \in Servers, k \in tickets :
             \/ Reply(s, k) \/ Close(s, k) \/ BeginEffect(s, k)
             \/ BindWorker(s, k) \/ Resolve(s, k)
  BY <1>5, StepReply, StepClose, StepBeginEffect, StepBindWorker, StepResolve
<1>6. CASE Fence \/ ServerDies BY <1>6, StepFence, StepServerDies
<1> QED BY <1>1, <1>2, <1>3, <1>4, <1>5, <1>6 DEF Next

\* Behaviours in which a ticket is used by one thread at a time and a record is not
\* reused under a caller about to discharge it.
OneUser == ~SharedTickets /\ ~Overtaken

\* The inductive invariant holds of every behaviour, for any number of clients, receiving
\* threads and records, and whatever the order of admission, delivery, reply, close, expiry,
\* resolution, fence and death.
THEOREM Inductive == OneUser /\ Spec => []IInv
<1> SUFFICES ASSUME OneUser PROVE Spec => []IInv OBVIOUS
<1>1. IInv /\ [Next]_vars => IInv' BY Steps DEF OneUser
<1> QED BY <1>1, Starts, PTL DEF Spec

\* The queue, the records, the free list, the tickets and the bindings agree in every state:
\* `withdraw` leaves no discharged record queued, and `collect_invocation` frees no record that
\* a ticket or a binding names.
THEOREM RecordsStay == OneUser /\ Spec => []RecordsAgree
<1>1. IInv => RecordsAgree
  BY Zenon DEF IInv, Records, Queued, Issued, Named, Names, RecordsAgree
<1> QED BY <1>1, Inductive, PTL

\* The effects and the bytes that the clients' scope has charged are those of its undischarged
\* records, in every order in which `release_invocation` is reached.
THEOREM AccountsStay == OneUser /\ Spec => []AccountsMatch
<1>1. IInv => AccountsMatch BY Zenon DEF IInv, Records, Accounts, AccountsMatch
<1> QED BY <1>1, Inductive, PTL

\* No message waits for a live domain with every receiving thread asleep: the lost wake-up
\* that `receive` and `take_receiver` decide under one hold of the channel.
THEOREM ReceiverIsReached == OneUser /\ Spec => []ReceiverReached
<1>1. IInv => ReceiverReached BY Zenon DEF IInv, Reached, ReceiverReached, Waiting
<1> QED BY <1>1, Inductive, PTL

\* The reply a call returns is the one made to that call, when besides no fence meets a thread
\* that is claimed and not yet woken (`reply`, and the return of `call`).
THEOREM AnsweredOnce == OneUser /\ ~Crossing /\ Spec => []OneAnswer
<1> SUFFICES ASSUME OneUser, ~Crossing PROVE Spec => []OneAnswer BY Zenon
<1>1. IInv => OneAnswer
  <2> SUFFICES ASSUME IInv, NEW c \in Clients
               PROVE  /\ th[c].pc = "woken" /\ th[c].aux # NoTicket =>
                           th[c].got = th[c].at /\ th[c].aux = th[c].at
                      /\ th[c].pc = "discharge" /\ th[c].got # NoTicket =>
                           th[c].got = th[c].at
    BY Zenon DEF OneAnswer
  <2>1. Caller(inv, th, owed, c) BY Place, Zenon
  <2> QED BY <2>1, Zenon DEF Caller
<1> QED BY <1>1, Inductive, PTL
=============================================================================
