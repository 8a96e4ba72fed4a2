---------------------------- MODULE Invocations ----------------------------
(***************************************************************************)
(* Admitted work: one endpoint, the threads that call it, the threads of   *)
(* the one domain that receives on it, and the table of invocation records *)
(* (kernel/src/api/ipcops.rs, kernel/src/ipc.rs).                          *)
(*                                                                         *)
(* `send`, `call`, `receive`, `reply` and the close of a ticket run under  *)
(* a shared hold of the machine, so two of them interleave wherever a      *)
(* record's own lock is dropped: a step below is one hold of a channel or  *)
(* of a record.  Effects, resolutions, bindings, fences and deaths take    *)
(* the machine exclusively and are one step each, taken when no thread is  *)
(* inside a shared hold.                                                   *)
(*                                                                         *)
(* Each client is a domain of one thread, all in one scope, and names the  *)
(* endpoint as its fault channel.  Bytes and capabilities of a message are *)
(* not modelled: a reply is identified by the call it was made to.         *)
(***************************************************************************)
EXTENDS Naturals, Sequences, FiniteSets, FiniteSetsExt, Functions

CONSTANTS Clients,        \* calling threads, one per domain
          Servers,        \* threads of the receiving domain: table indices
          Server,         \* the receiving domain
          Nobody,         \* no thread
          Invs,           \* records of the invocation table
          Capacity,       \* ordinary cells of the endpoint's queue
          MaxAdmissions,  \* bound: admissions made
          MaxEnds,        \* bound: fences and deaths that happen
          Timed,          \* threads that wait with a deadline
          Workers,        \* receiving threads that bind and have effects
          Crossing,       \* may a fence meet a thread claimed and not woken
          SharedTickets,  \* may two threads use one ticket at a time
          Overtaken       \* may a record be reused under a caller about to
                          \* discharge it

ASSUME InvocationsAssumption ==
    /\ IsFiniteSet(Invs)
    /\ Servers \subseteq Nat /\ IsFiniteSet(Servers) /\ Servers # {}
    /\ Clients \cap Servers = {} /\ Server \notin Clients
    /\ Nobody \notin Clients \cup Servers
    /\ Capacity \in Nat \ {0}
    /\ MaxAdmissions \in Nat
    /\ MaxEnds \in Nat
    /\ Timed \subseteq Clients \cup Servers
    /\ Workers \subseteq Servers
    /\ {Crossing, SharedTickets, Overtaken} \subseteq BOOLEAN

VARIABLES inv,       \* the invocation table
          free,      \* `invocation_free`: the records nobody has claimed
          queue,     \* records whose message is queued, oldest first
          channel,   \* the endpoint: `open`, `receivers`, fault cells left
          th,        \* the threads
          tickets,   \* the receiver's handles on invocations
          owed,      \* threads claimed whose wake is still deferred
          scope,     \* the clients' scope: `open`, pending counters, bytes
          domain     \* the state of each domain

vars == <<inv, free, queue, channel, th, tickets, owed, scope, domain>>

Threads == Clients \cup Servers
Tickets == Invs \X (0 .. MaxAdmissions)
NoTicket == <<>>

States == {"Empty", "Admitted", "Delivered", "Resolved"}
Effects == {"None", "Admitted", "Refused", "Resolved"}

Record == [state |-> "Empty", gen |-> 0, origin |-> Nobody, waiter |-> Nobody,
           kind |-> "REQUEST", effect |-> "None", charged |-> FALSE,
           refs |-> 0, replied |-> FALSE, stored |-> FALSE]

\* A thread: where it is, the invocation it works on, its wait record, what
\* the waker left, the caller a replier still has to wake, what its last call
\* returned and the invocation it is bound to.
Thread == [pc |-> "user", at |-> NoTicket, wait |-> "None", aux |-> NoTicket,
           peer |-> Nobody, got |-> NoTicket, bound |-> NoTicket]

Init ==
    /\ inv = [i \in Invs |-> Record]
    /\ free = Invs
    /\ queue = <<>>
    /\ channel = [open |-> TRUE, receivers |-> {}]
    /\ th = [t \in Threads |-> Thread]
    /\ tickets = {}
    /\ owed = {}
    /\ scope = [open |-> TRUE, invocations |-> 0, effects |-> 0, bytes |-> 0]
    /\ domain = [d \in Clients \cup {Server} |-> "Runnable"]

Domain(t) == IF t \in Servers THEN Server ELSE t
Alive(t) == domain[Domain(t)] = "Runnable"

\* Program counters inside a shared hold of the machine.
InHold == {"admitted", "answer", "discharge", "collect"}

\* The machine lock is free to be taken exclusively.
Exclusive == \A t \in Threads : th[t].pc \notin InHold

\* `object_alive` for a ticket: the record is in use with that generation.
Names(tk) == inv[tk[1]].state # "Empty" /\ inv[tk[1]].gen = tk[2]

\* Thread `t` may use ticket `tk` now.
Usable(t, tk) ==
    /\ th[t].pc = "user" /\ Alive(t)
    /\ tk \in tickets /\ Names(tk)
    /\ SharedTickets \/ \A u \in Servers : th[u].pc \in InHold => th[u].at # tk

Minus(n) == IF n = 0 THEN 0 ELSE n - 1

----------------------------------------------------------------------------
(* Waits: claims and deferred wakes. *)

\* `claim_handoff` finds `t` blocked on a wait.
Waiting(t, wait) == th[t].pc = "blocked" /\ th[t].wait = wait

WaitsReply(t, tk) == t # Nobody /\ Waiting(t, "Reply") /\ th[t].at = tk

\* The wait is consumed and the status left for the sleeper to return.
Claimed(cell) == [cell EXCEPT !.wait = "None", !.aux = NoTicket]

\* `flush_wakes` then `wake`: nothing happens to a thread not blocked.
Wake(t) ==
    /\ t \in owed
    /\ owed' = owed \ {t}
    /\ th' = CASE th[t].pc = "blocked" /\ t \in Clients ->
                     [th EXCEPT ![t].pc = "woken"]
               [] th[t].pc = "blocked" /\ t \in Servers ->
                     [th EXCEPT ![t] = [Thread EXCEPT !.bound = th[t].bound]]
               [] OTHER -> th
    /\ UNCHANGED <<inv, free, queue, channel, tickets, scope, domain>>

\* A deadline passes.
ExpireWait(t) ==
    /\ t \in Timed /\ th[t].pc = "blocked" /\ th[t].wait # "None" /\ Alive(t)
    /\ th' = [th EXCEPT ![t] = Claimed(@)]
    /\ owed' = owed \cup {t}
    /\ UNCHANGED <<inv, free, queue, channel, tickets, scope, domain>>

----------------------------------------------------------------------------
(* Admission. *)

\* `has_ordinary_room`: fault reports have cells of their own.
HasRoom(kind) ==
    kind = "REQUEST" =>
        Len(SelectSeq(queue, LAMBDA i : inv[i].kind = "REQUEST")) < Capacity

\* `take_receiver`: the waiting receivers of lowest index; every bit looked at
\* on the way is cleared, whether its thread was waiting or not.
WaitingReceivers == {s \in channel.receivers : Waiting(s, "Receive")}
ReceiverTaken == IF WaitingReceivers = {} THEN {} ELSE {Min(WaitingReceivers)}
ReceiversLeft ==
    {s \in channel.receivers : \E r \in ReceiverTaken : s > r}

\* The message goes straight to the claimed receiver: nothing is queued
\* before it and the receiver has `room` for its ticket.
HandsOver(room) == ReceiverTaken # {} /\ queue = <<>> /\ room

\* The record an admission writes, whole.
Admission(i, c, kind, waiter, room) ==
    [Record EXCEPT !.state = IF HandsOver(room) THEN "Delivered" ELSE "Admitted",
                   !.gen = inv[i].gen + 1, !.origin = c, !.waiter = waiter,
                   !.kind = kind, !.charged = kind = "REQUEST",
                   !.refs = IF HandsOver(room) THEN 1 ELSE 0]

SumGen == MapThenSumSet(LAMBDA i : inv[i].gen, Invs)

\* The conditions of an admission into record `i`.
MayAdmit(i, kind) ==
    /\ i \in free /\ SumGen < MaxAdmissions
    /\ Overtaken \/ \A t \in Threads : th[t].pc = "discharge" => th[t].at[1] # i
    /\ channel.open /\ domain[Server] = "Runnable" /\ HasRoom(kind)

\* The machine after an admission: the record, the accounts, and the message
\* either queued or handed to the receiver that was claimed.
Admitted(c, i, kind, waiter, room) ==
    LET tk == <<i, inv[i].gen + 1>>
    IN  [inv |-> [inv EXCEPT ![i] = Admission(i, c, kind, waiter, room)],
         free |-> free \ {i},
         queue |-> IF HandsOver(room) THEN queue ELSE Append(queue, i),
         channel |-> [channel EXCEPT !.receivers = ReceiversLeft],
         th |-> [t \in Threads |->
                   IF t \in ReceiverTaken
                   THEN Claimed(th[t]) ELSE th[t]],
         tickets |-> IF HandsOver(room) THEN tickets \cup {tk} ELSE tickets,
         owed |-> owed \cup ReceiverTaken,
         scope |-> [scope EXCEPT !.invocations = @ + 1,
                                 !.bytes = IF kind = "REQUEST" THEN @ + 1 ELSE @]]

Admit(m) ==
    /\ inv' = m.inv /\ free' = m.free /\ queue' = m.queue
    /\ channel' = m.channel /\ tickets' = m.tickets /\ owed' = m.owed
    /\ scope' = m.scope /\ UNCHANGED domain

\* `resolve` refuses a sender whose scope is closed.
MaySend(c) == th[c].pc = "user" /\ Alive(c) /\ scope.open

Send(c) ==
    /\ MaySend(c)
    /\ \E i \in Invs, room \in BOOLEAN :
          LET m == Admitted(c, i, "REQUEST", Nobody, room)
          IN  MayAdmit(i, "REQUEST") /\ Admit(m) /\ th' = m.th

\* `call` up to the end of the admission; the wait is registered later, in
\* the same shared hold but with the channel already dropped.
Call(c) ==
    /\ MaySend(c)
    /\ \E i \in Invs, room \in BOOLEAN :
          LET m == Admitted(c, i, "REQUEST", c, room)
          IN  /\ MayAdmit(i, "REQUEST") /\ Admit(m)
              /\ th' = [m.th EXCEPT ![c].pc = "admitted", ![c].got = NoTicket,
                                    ![c].at = <<i, m.inv[i].gen>>]

Register(c) ==
    /\ th[c].pc = "admitted"
    /\ th' = [th EXCEPT ![c].pc = "blocked", ![c].wait = "Reply",
                        ![c].aux = NoTicket]
    /\ UNCHANGED <<inv, free, queue, channel, tickets, owed, scope, domain>>

----------------------------------------------------------------------------
(* Reception. *)

\* `deliver`: the ticket is issued before the message leaves the queue, and
\* the message stays when it cannot be.
Deliver(s) ==
    LET i == Head(queue)
    IN  /\ queue # <<>>
        /\ queue' = Tail(queue)
        /\ inv' = [inv EXCEPT ![i].state = "Delivered", ![i].refs = @ + 1]
        /\ tickets' = tickets \cup {<<i, inv[i].gen>>}
        /\ UNCHANGED <<channel, th>>

\* Mutant: the wait is registered and the channel's bit is not.
AwaitMessageUnmarked(s) ==
    /\ queue = <<>>
    /\ th' = [th EXCEPT ![s].pc = "blocked", ![s].wait = "Receive",
                        ![s].aux = NoTicket]
    /\ UNCHANGED <<inv, queue, tickets, channel>>

AwaitMessage(s) ==
    /\ queue = <<>>
    /\ th' = [th EXCEPT ![s].pc = "blocked", ![s].wait = "Receive",
                        ![s].aux = NoTicket]
    /\ channel' = [channel EXCEPT !.receivers = @ \cup {s}]
    /\ UNCHANGED <<inv, queue, tickets>>

Receive(s) ==
    /\ th[s].pc = "user" /\ Alive(s)
    /\ Deliver(s) \/ AwaitMessage(s)
    /\ UNCHANGED <<free, owed, scope, domain>>

----------------------------------------------------------------------------
(* Discharge and collection, shared by every path that ends an invocation. *)

\* Mutant: the effect's mark is not resolved with its invocation.
SpentEffectKept(r) == [r EXCEPT !.charged = FALSE, !.state = "Resolved"]

Spent(r) ==
    [r EXCEPT !.charged = FALSE, !.state = "Resolved",
              !.effect = IF @ = "Admitted" THEN "Resolved" ELSE @]

\* Mutant: the pending count is not lowered.
ReturnedBytes(sc, table, set) ==
    [sc EXCEPT
        !.effects = @ - Cardinality({i \in set : table[i].effect = "Admitted"}),
        !.bytes = @ - Cardinality({i \in set : table[i].charged})]

\* The accounts after `release_invocation` discharges the records in `set`.
Returned(sc, table, set) ==
    [sc EXCEPT
        !.invocations = IF Cardinality(set) > @ THEN 0 ELSE @ - Cardinality(set),
        !.effects = @ - Cardinality({i \in set : table[i].effect = "Admitted"}),
        !.bytes = @ - Cardinality({i \in set : table[i].charged})]

\* Mutant: a discharged record is reused while a ticket still names it.
CollectableEarly(r) == r.state = "Resolved"

\* `collect_invocation` frees a record that is discharged and not named.
Collectable(r) == r.state = "Resolved" /\ r.refs = 0

\* The generation stays, and so does a reply: the fields nobody reads in an
\* empty record are reset here, where the next admission rewrites them.
Collected(r) ==
    IF Collectable(r)
    THEN [Record EXCEPT !.gen = r.gen, !.replied = r.replied,
                        !.stored = r.stored]
    ELSE r

\* First half of `release_invocation`: the record's hold and the counters.
Discharge(t) ==
    LET i == th[t].at[1]
    IN  /\ th[t].pc = "discharge"
        /\ IF inv[i].state = "Empty"
           THEN UNCHANGED <<inv, scope>>
           ELSE /\ inv' = [inv EXCEPT ![i] = Spent(@)]
                /\ scope' = Returned(scope, inv, {i})
        /\ th' = [th EXCEPT ![t].pc = "collect"]
        /\ UNCHANGED <<free, queue, channel, tickets, owed, domain>>

\* Second half: the collection, then the wake a replier still owes.
Collect(t) ==
    LET i == th[t].at[1]
        w == th[t].peer
    IN  /\ th[t].pc = "collect"
        /\ inv' = [inv EXCEPT ![i] = Collected(@)]
        /\ free' = IF Collectable(inv[i]) THEN free \cup {i} ELSE free
        /\ th' = [u \in Threads |->
                    CASE u = t -> [Thread EXCEPT !.bound = th[t].bound]
                      [] u = w -> [th[w] EXCEPT !.aux = th[t].at]
                      [] OTHER -> th[u]]
        /\ owed' = IF w = Nobody THEN owed ELSE owed \cup {w}
        /\ UNCHANGED <<queue, channel, tickets, scope, domain>>

----------------------------------------------------------------------------
(* `call` after its wait. *)

\* The caller was answered in place: nothing is left to lock for.
ReturnAnswered(c) ==
    /\ th[c].aux # NoTicket
    /\ th' = [th EXCEPT ![c] = Thread]
    /\ UNCHANGED inv

\* Mutant: the caller reads the record without comparing its generation.
LooksItselfAnyway(c) == TRUE

\* The record still is this call's.
LooksItself(c) == inv[th[c].at[1]].gen = th[c].at[2]

\* The caller reads its record: someone else's, a stored reply, no result, or
\* an outcome.  The reply it returns is the one the record holds.
ReturnLooked(c) ==
    LET i == th[c].at[1]
        r == inv[i]
    IN  /\ th[c].aux = NoTicket
        /\ \/ /\ ~LooksItself(c)
              /\ th' = [th EXCEPT ![c] = Thread]
              /\ UNCHANGED inv
           \/ /\ LooksItself(c) /\ r.replied
              /\ th' = [th EXCEPT ![c].pc = "discharge",
                                  ![c].got = IF r.stored THEN <<i, r.gen>>
                                             ELSE <<i, 0>>]
              /\ UNCHANGED inv
           \/ /\ LooksItself(c) /\ ~r.replied /\ r.state # "Resolved"
              /\ inv' = [inv EXCEPT ![i].waiter = Nobody]
              /\ th' = [th EXCEPT ![c] = Thread]
           \/ /\ LooksItself(c) /\ ~r.replied /\ r.state = "Resolved"
              /\ th' = [th EXCEPT ![c].pc = "discharge"]
              /\ UNCHANGED inv

CallReturn(c) ==
    /\ th[c].pc = "woken" /\ Alive(c)
    /\ ReturnAnswered(c) \/ ReturnLooked(c)
    /\ UNCHANGED <<free, queue, channel, tickets, owed, scope, domain>>

----------------------------------------------------------------------------
(* The receiver's operations on a ticket. *)

\* `reply`, first hold: an unanswered invocation somebody waits for.
Reply(s, tk) ==
    LET r == inv[tk[1]]
    IN  /\ Usable(s, tk)
        /\ r.state # "Resolved" /\ ~r.replied /\ r.waiter # Nobody
        /\ th' = [th EXCEPT ![s].pc = "answer", ![s].at = tk]
        /\ UNCHANGED <<inv, free, queue, channel, tickets, owed, scope, domain>>

\* `reply`, second hold: the one-shot is consumed and the caller answered, in
\* the buffer it offered or on the record.  The generation is not looked at
\* again.
Answer(s) ==
    LET i == th[s].at[1]
        r == inv[i]
        w == r.waiter
    IN  /\ th[s].pc = "answer"
        /\ \/ /\ r.state = "Resolved" \/ r.replied
              /\ th' = [th EXCEPT ![s].pc = "user", ![s].at = NoTicket]
              /\ UNCHANGED inv
           \/ /\ r.state # "Resolved" /\ ~r.replied
              /\ WaitsReply(w, <<i, r.gen>>)
              /\ inv' = [inv EXCEPT ![i].replied = TRUE]
              /\ th' = [th EXCEPT ![s].pc = "discharge", ![s].peer = w,
                                  ![w] = [Claimed(@) EXCEPT
                                              !.got = th[s].at]]
           \/ /\ r.state # "Resolved" /\ ~r.replied
              /\ ~WaitsReply(w, <<i, r.gen>>)
              /\ inv' = [inv EXCEPT ![i].replied = TRUE, ![i].stored = TRUE]
              /\ th' = [th EXCEPT ![s].pc = "user", ![s].at = NoTicket]
        /\ UNCHANGED <<free, queue, channel, tickets, owed, scope, domain>>

\* `cap_close` of a ticket: the entry and the reference, then the collection.
Close(s, tk) ==
    /\ th[s].pc = "user" /\ Alive(s) /\ tk \in tickets
    /\ SharedTickets \/ \A u \in Servers : th[u].pc \in InHold => th[u].at # tk
    /\ tickets' = tickets \ {tk}
    /\ inv' = [inv EXCEPT ![tk[1]].refs = Minus(@)]
    /\ th' = [th EXCEPT ![s].pc = "collect", ![s].at = tk]
    /\ UNCHANGED <<free, queue, channel, owed, scope, domain>>

\* `begin_effect`: the mark is consumed once; a closed scope refuses it.
BeginEffect(s, tk) ==
    LET i == tk[1]
    IN  /\ s \in Workers /\ Exclusive /\ Usable(s, tk)
        /\ inv[i].state # "Resolved" /\ inv[i].effect = "None"
        /\ inv' = [inv EXCEPT ![i].effect =
                      IF scope.open THEN "Admitted" ELSE "Refused"]
        /\ scope' = IF scope.open THEN [scope EXCEPT !.effects = @ + 1] ELSE scope
        /\ UNCHANGED <<free, queue, channel, th, tickets, owed, domain>>

\* The records `set` discharged and collected in one exclusive hold.
Ended(table, set) ==
    [i \in Invs |-> IF i \in set THEN Collected(Spent(table[i])) ELSE table[i]]

Freed(table, set) == {i \in set : Collectable(Spent(table[i]))}

\* The callers `wake_waiter` claims for the records in `set`.
CallersOf(set) ==
    {c \in Clients : \E i \in set : /\ inv[i].waiter = c
                                    /\ WaitsReply(c, <<i, inv[i].gen>>)}

ClaimAll(set) ==
    /\ th' = [t \in Threads |-> IF t \in set THEN Claimed(th[t]) ELSE th[t]]
    /\ owed' = owed \cup set

Resolve(s, tk) ==
    LET set == {tk[1]}
    IN  /\ Exclusive /\ Usable(s, tk)
        /\ inv[tk[1]].state # "Resolved"
        /\ inv' = Ended(inv, set)
        /\ free' = free \cup Freed(inv, set)
        /\ scope' = Returned(scope, inv, set)
        /\ ClaimAll(CallersOf(set))
        /\ UNCHANGED <<queue, channel, tickets, domain>>

BindWorker(s, tk) ==
    /\ s \in Workers /\ Exclusive /\ Usable(s, tk)
    /\ inv[tk[1]].state # "Resolved" /\ th[s].bound = NoTicket
    /\ th' = [th EXCEPT ![s].bound = tk]
    /\ inv' = [inv EXCEPT ![tk[1]].refs = @ + 1]
    /\ UNCHANGED <<free, queue, channel, tickets, owed, scope, domain>>

\* `unbind_worker` returns the reference and collects nothing.
UnbindWorker(s) ==
    LET tk == th[s].bound
    IN  /\ Exclusive /\ th[s].pc = "user" /\ Alive(s) /\ tk # NoTicket
        /\ th' = [th EXCEPT ![s].bound = NoTicket]
        /\ inv' = IF inv[tk[1]].gen = tk[2]
                  THEN [inv EXCEPT ![tk[1]].refs = Minus(@)] ELSE inv
        /\ UNCHANGED <<free, queue, channel, tickets, owed, scope, domain>>

----------------------------------------------------------------------------
(* Fences and deaths. *)

\* Another perimeter may still be closed.
MayEnd ==
    Cardinality({d \in DOMAIN domain : domain[d] # "Runnable"})
        + (IF scope.open THEN 0 ELSE 1) < MaxEnds

Live(r) == r.state \notin {"Empty", "Resolved"}

\* Mutant: the withdrawn messages stay linked in the queue.
WithdrawnKept(q, set) == q

\* The queue without the messages of `set`.
Withdrawn(q, set) ==
    LET kept[n \in 0 .. Len(q)] ==
          IF n = 0 THEN <<>>
          ELSE IF q[n] \in set THEN kept[n - 1] ELSE Append(kept[n - 1], q[n])
    IN  kept[Len(q)]

\* The clients' scope is fenced: waits cancelled, undelivered messages
\* withdrawn, the rest marked for its receiver.
Fence ==
    LET set == {i \in Range(queue) : inv[i].state = "Admitted"}
        cancelled == {c \in Clients : th[c].pc = "blocked" /\ Alive(c)}
    IN  /\ Exclusive /\ MayEnd /\ scope.open
        /\ Crossing \/ cancelled \cap owed = {}
        /\ inv' = Ended(inv, set)
        /\ free' = free \cup Freed(inv, set)
        /\ queue' = Withdrawn(queue, set)
        /\ scope' = [Returned(scope, inv, set) EXCEPT !.open = FALSE]
        /\ ClaimAll(cancelled)
        /\ UNCHANGED <<channel, tickets, domain>>

\* `terminate_in` of a client in the state `m`: its unreceived messages are
\* cancelled, what was received stays the receiver's obligation.
Dies(c, state, m) ==
    LET set == {i \in Range(m.queue) : m.inv[i].origin = c}
    IN  /\ Exclusive /\ MayEnd /\ Alive(c)
        /\ inv' = [i \in Invs |->
                     CASE i \in set ->
                            Ended(m.inv, set)[i]
                       [] i \notin set /\ Live(m.inv[i]) /\ m.inv[i].origin = c ->
                            [m.inv[i] EXCEPT !.waiter = Nobody]
                       [] OTHER -> m.inv[i]]
        /\ free' = m.free \cup Freed(m.inv, set)
        /\ queue' = Withdrawn(m.queue, set)
        /\ scope' = Returned(m.scope, m.inv, set)
        /\ th' = [m.th EXCEPT ![c] = [Thread EXCEPT !.pc = "dead"]]
        /\ owed' = m.owed \ {c}
        /\ domain' = [domain EXCEPT ![c] = state]
        /\ channel' = m.channel /\ tickets' = m.tickets

Machine == [inv |-> inv, free |-> free, queue |-> queue, channel |-> channel,
            th |-> th, tickets |-> tickets, owed |-> owed, scope |-> scope]

\* The domain ends by its own request or by authority.
ClientStops(c) == th[c].pc # "dead" /\ Dies(c, "Stopping", Machine)

\* A fault: the report is admitted to the fault channel (when there is a
\* record for it), then the domain is terminated.
ClientFaults(c) ==
    /\ th[c].pc = "user"
    /\ \/ \E i \in free, room \in BOOLEAN :
              /\ MayAdmit(i, "FAULT")
              /\ Dies(c, "Faulted", Admitted(c, i, "FAULT", Nobody, room))
       \/ /\ \A i \in free : ~MayAdmit(i, "FAULT")
          /\ Dies(c, "Faulted", Machine)

\* `terminate_in` of the receiving domain: the obligations it accepted end
\* unknown, its tickets are released and the endpoint stops admitting.  What
\* is queued stays queued.
ServerDies ==
    LET set == {i \in Invs : inv[i].state = "Delivered"}
        named == {tk[1] : tk \in tickets}
        let_go == [i \in Invs |-> [inv[i] EXCEPT
                      !.refs = @ - Cardinality({tk \in tickets : tk[1] = i})]]
        ended == [i \in Invs |->
                    IF i \in set THEN Spent(let_go[i])
                    ELSE let_go[i]]
    IN  /\ Exclusive /\ MayEnd /\ domain[Server] = "Runnable"
        /\ inv' = [i \in Invs |-> IF i \in set \cup named
                                  THEN Collected(ended[i]) ELSE ended[i]]
        /\ free' = free \cup {i \in set \cup named : Collectable(ended[i])}
        /\ scope' = Returned(scope, inv, set)
        /\ tickets' = {}
        /\ channel' = [channel EXCEPT !.open = FALSE]
        /\ th' = [t \in Threads |->
                    CASE t \in Servers -> [Thread EXCEPT !.pc = "dead"]
                      [] t \in CallersOf(set) -> Claimed(th[t])
                      [] OTHER -> th[t]]
        /\ owed' = (owed \ Servers) \cup CallersOf(set)
        /\ domain' = [domain EXCEPT ![Server] = "Stopping"]
        /\ UNCHANGED queue

----------------------------------------------------------------------------
Next ==
    \/ \E t \in Threads : \/ Wake(t) \/ ExpireWait(t)
                          \/ Discharge(t) \/ Collect(t)
    \/ \E c \in Clients : \/ Send(c) \/ Call(c) \/ Register(c)
                          \/ CallReturn(c) \/ ClientStops(c)
                          \/ ClientFaults(c)
    \/ \E s \in Servers : \/ Receive(s) \/ Answer(s)
                          \/ UnbindWorker(s)
    \/ \E s \in Servers, tk \in tickets :
          \/ Reply(s, tk) \/ Close(s, tk) \/ BeginEffect(s, tk)
          \/ BindWorker(s, tk) \/ Resolve(s, tk)
    \/ Fence \/ ServerDies

Spec == Init /\ [][Next]_vars

----------------------------------------------------------------------------
(* Properties. *)

\* The reply a call returns is the one made to that call: not to the call that
\* used the record before or after it, and not an empty one
\* (`reply`, and the return of `call`).
OneAnswer ==
    \A c \in Clients :
        /\ th[c].pc = "woken" /\ th[c].aux # NoTicket =>
               th[c].got = th[c].at /\ th[c].aux = th[c].at
        /\ th[c].pc = "discharge" /\ th[c].got # NoTicket =>
               th[c].got = th[c].at

\* The queue, the records, the free list, the tickets and the bindings agree
\* through admissions, deliveries, withdrawals and deaths: a record is queued
\* once exactly while it is admitted, free exactly while it is empty, and not
\* reused while a ticket or a binding names it, whichever of discharge and last
\* reference is second (`withdraw`, `collect_invocation`).
RecordsAgree ==
    /\ IsInjective(queue)
    /\ Range(queue) = {i \in Invs : inv[i].state = "Admitted"}
    /\ free = {i \in Invs : inv[i].state = "Empty"}
    /\ \A tk \in tickets : Names(tk)
    /\ \A s \in Servers : th[s].bound # NoTicket => Names(th[s].bound)

\* No message waits in the queue with every receiver of a live domain asleep
\* on it: the bit a receiver leaves and the admission's look at the waiters
\* are decided under one hold of the channel (`receive`, `take_receiver`).
ReceiverReached ==
    queue # <<>> /\ domain[Server] = "Runnable" =>
        \E s \in Servers : ~Waiting(s, "Receive")

\* The effects pending and the bytes charged to the clients' scope are those
\* of the undischarged invocations, in every order of reply, close,
\* resolution, fence and death, and a drain is never held open by one that is
\* discharged: the scope counts no more than are unresolved
\* (`release_invocation`).
AccountsMatch ==
    /\ scope.effects = Cardinality({i \in Invs : inv[i].effect = "Admitted"})
    /\ scope.bytes = Cardinality({i \in Invs : inv[i].charged})
    /\ scope.invocations <= Cardinality({i \in Invs : Live(inv[i])})
============================================================================
