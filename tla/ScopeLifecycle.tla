--------------------------- MODULE ScopeLifecycle ---------------------------
(***************************************************************************)
(* The life of the entries of the scope table: creation below an open      *)
(* parent, the barrier, the promotion of a fenced scope that nothing runs  *)
(* in, retirement, and the reuse of a retired entry for the next scope.    *)
(*                                                                         *)
(* Every operation here holds the machine exclusively (see BrLock), or     *)
(* moves one counter that only exclusive holders judge, so each is one     *)
(* step.  A domain has one thread; it is owned by one scope and charges    *)
(* its calls to another while it is bound to a call of that one.  Domains  *)
(* and calls name a scope, as in the code, by its slot alone, so both can  *)
(* outlive its occupant.                                                   *)
(*                                                                         *)
(* `threads' and `effects_pending' are the numbers of the domains and the  *)
(* effects of a scope; its `maps_pending' is zero when it has no domain,   *)
(* for a mapping goes when its domain stops.  `invocations_pending' is not *)
(* the number of the unresolved calls: it is kept as `calls'.  The         *)
(* accounts are those of ScopeAccounts, the objects a scope sponsors those *)
(* of Memory, Authority and Events.                                        *)
(***************************************************************************)
EXTENDS Integers, FiniteSets

CONSTANTS
  NSlots,       \* MAX_SCOPES
  MaxDepth,     \* MAX_SCOPE_DEPTH
  Domains,      \* entries of the domain table
  Nobody,       \* none of them
  Records,      \* entries of the invocation table
  MaxGen        \* bound on the generations explored

ASSUME BoundsAssumption ==
  /\ NSlots \in Nat \ {0} /\ MaxDepth \in Nat \ {0} /\ MaxGen \in Nat \ {0}
  /\ IsFiniteSet(Records) /\ Nobody \notin Domains

VARIABLES
  state, gen, parent, depth,
  named,        \* the scopes some capability entry names: refs # 0
  domain,
  call,         \* the invocation records
  calls         \* invocations_pending

vars == <<state, gen, parent, depth, named, domain, call, calls>>

Slots == 0..(NSlots - 1)
Root == 0
NoScope == NSlots
States == {"Empty", "Open", "Fenced", "Quiescent", "Retired"}

NoDomain == [owner |-> NoScope, charges |-> NoScope, bound |-> FALSE,
             dying |-> FALSE]

DomainType ==
  {NoDomain} \cup [owner : Slots, charges : Slots, bound : BOOLEAN,
                   dying : BOOLEAN]

\* A record is queued, taken by its receiver, with or without an effect, or
\* spent: discharged once, and to be discharged again by the caller it woke.
\* `from' is the domain that waits for it, or that sent it and was not yet heard.
Stages == {"queued", "taken", "effect", "spent"}
NoCall == [stage |-> "none", scope |-> NoScope, from |-> Nobody, waits |-> FALSE]
CallType ==
  {NoCall} \cup [stage : Stages, scope : Slots, from : Domains \cup {Nobody},
                 waits : BOOLEAN]

\* The scopes a walk up the parent links from s meets: the least set that holds
\* s and, with a scope, its parent.
Chain(s) ==
  {n \in Slots :
     \A S \in SUBSET Slots :
       /\ s \in S
       /\ \A t \in S : parent[t] # NoScope => parent[t] \in S
       => n \in S}

is_within(root, s) == root \in Chain(s)

is_open(s) == \A n \in Chain(s) : state[n] = "Open"

Below(root) == {s \in Slots : state[s] # "Empty" /\ is_within(root, s)}

Owned(s) == {d \in Domains : domain[d].owner = s}
Effects(s) == {c \in Records : call[c].scope = s /\ call[c].stage = "effect"}
Unresolved(s) ==
  {c \in Records : call[c].scope = s /\ call[c].stage # "spent"}

Live(d) == domain[d] # NoDomain /\ ~domain[d].dying

\* The thread of d is in the kernel, waiting for the end of a call.
Runs(d) == Live(d) /\ \A c \in Records : call[c].waits => call[c].from # d

-----------------------------------------------------------------------------
Init ==
  /\ state = [s \in Slots |-> IF s = Root THEN "Open" ELSE "Empty"]
  /\ gen = [s \in Slots |-> IF s = Root THEN 1 ELSE 0]
  /\ parent = [s \in Slots |-> NoScope]
  /\ depth = [s \in Slots |-> 0]
  /\ named = {Root}
  /\ domain = [d \in Domains |-> NoDomain]
  /\ call = [c \in Records |-> NoCall]
  /\ calls = [s \in Slots |-> 0]

Empties == {s \in Slots : state[s] = "Empty"}

\* Mutant: handles are not counted.
CollectableNamed ==
  {s \in Slots :
     /\ state[s] = "Retired"
     /\ Owned(s) = {}
     /\ \A o \in Slots : state[o] # "Empty" => parent[o] # s}

\* The entries collect_retired would free.  It does not ask for the calls.
Collectable ==
  {s \in Slots :
     /\ state[s] = "Retired"
     /\ s \notin named
     /\ Owned(s) = {}
     /\ \A o \in Slots : state[o] # "Empty" => parent[o] # s}

\* A creation takes the first empty entry or, for want of one, the first it can
\* collect.
Vacant == IF Empties # {} THEN Empties ELSE Collectable

\* The handle is installed last: when the creator's own account cannot pay for
\* it the call fails, and `handle' is FALSE.
Occupy(k, p, handle) ==
  /\ gen[k] < MaxGen
  /\ gen' = [gen EXCEPT ![k] = @ + 1]
  /\ state' = [state EXCEPT ![k] = "Open"]
  /\ parent' = [parent EXCEPT ![k] = p]
  /\ depth' = [depth EXCEPT ![k] = depth[p] + 1]
  /\ named' = IF handle THEN named \cup {k} ELSE named
  /\ calls' = [calls EXCEPT ![k] = 0]
  /\ UNCHANGED <<domain, call>>

MayCreate(p) ==
  /\ p \in named /\ state[p] = "Open"
  /\ depth[p] + 1 < MaxDepth

create_child(p, handle) ==
  /\ MayCreate(p) /\ is_open(p)
  /\ \E k \in Vacant : (\A v \in Vacant : k <= v) /\ Occupy(k, p, handle)

\* The parent's account cannot pay: the call fails, after the entry it was going
\* to use has been collected.
create_refused(p) ==
  /\ MayCreate(p)
  /\ Empties = {}
  /\ \E k \in Collectable :
       /\ \A v \in Collectable : k <= v
       /\ state' = [state EXCEPT ![k] = "Empty"]
       /\ parent' = [parent EXCEPT ![k] = NoScope]
       /\ depth' = [depth EXCEPT ![k] = 0]
       /\ calls' = [calls EXCEPT ![k] = 0]
  /\ UNCHANGED <<gen, named, domain, call>>

\* The last handle is closed.
close(s) ==
  /\ s \in named
  /\ named' = named \ {s}
  /\ UNCHANGED <<state, gen, parent, depth, domain, call, calls>>

-----------------------------------------------------------------------------
\* Calls that end.  release_invocation stops only at an empty record, so a
\* record its ticket keeps is taken off the counter a second time by the caller.
Lowered(ended) ==
  [s \in Slots |->
     LET n == Cardinality({c \in ended : call[c].scope = s})
     IN  IF n <= calls[s] THEN calls[s] - n ELSE 0]

\* The records of `ended' leave the table, but for the ones in `kept'.
Ended(ended, kept) ==
  [c \in Records |->
     CASE c \in kept -> [call[c] EXCEPT !.stage = "spent"]
       [] c \in ended \ kept -> NoCall
       [] OTHER -> call[c]]

\* The records a receiver has.
Taken == {c \in Records : call[c].stage \in {"taken", "effect"}}

Report(e) == [stage |-> "taken", scope |-> e, from |-> Nobody, waits |-> FALSE]

\* Mutant: only the scope's own counters are read.
QuietOwn(s, pend) ==
  Owned(s) = {} /\ Effects(s) = {} /\ pend[s] = 0

\* Mutant: the counters of every scope are read.
QuietAll(s, pend) ==
  \A t \in Slots : state[t] # "Empty" =>
    Owned(t) = {} /\ Effects(t) = {} /\ pend[t] = 0

\* advance_quiescence judges every fenced entry by the counters of what is
\* below it.
Quiet(s, pend) ==
  \A t \in Below(s) :
    Owned(t) = {} /\ Effects(t) = {} /\ pend[t] = 0

Promoted(st, pend) ==
  [s \in Slots |-> IF st[s] = "Fenced" /\ Quiet(s, pend) THEN "Quiescent" ELSE st[s]]

\* The barrier, then the withdrawal of what nobody has received.
fence(root) ==
  LET closed == [s \in Slots |-> IF state[s] = "Open" /\ is_within(root, s)
                                   THEN "Fenced" ELSE state[s]]
      undelivered == {c \in Records : /\ call[c].stage = "queued"
                                      /\ is_within(root, call[c].scope)}
  IN  /\ root \in named
      /\ call' = Ended(undelivered, {})
      /\ calls' = Lowered(undelivered)
      /\ state' = Promoted(closed, calls')
      /\ UNCHANGED <<gen, parent, depth, named, domain>>

\* A timer tick, or drain_status.
tick ==
  /\ \E s \in Slots : state[s] = "Fenced"
  /\ state' = Promoted(state, calls)
  /\ UNCHANGED <<gen, parent, depth, named, domain, call, calls>>

retire(root) ==
  /\ root \in named
  /\ Promoted(state, calls)[root] = "Quiescent"
  /\ state' = [s \in Slots |-> IF s \in Below(root) THEN "Retired"
                               ELSE Promoted(state, calls)[s]]
  /\ UNCHANGED <<gen, parent, depth, named, domain, call, calls>>

-----------------------------------------------------------------------------
\* Domains.
create_in(d, s) ==
  /\ domain[d] = NoDomain
  /\ state[s] = "Open" /\ is_open(s)
  /\ domain' = [domain EXCEPT ![d] = [owner |-> s, charges |-> s, bound |-> FALSE,
                                      dying |-> FALSE]]
  /\ UNCHANGED <<state, gen, parent, depth, named, call, calls>>

\* terminate_in: the thread stops, the mappings go, what the domain sent and
\* nobody received is cancelled, what it waited for is nobody's, what it had
\* received ends unknown, and its handles close.  With them goes each record it
\* had received, but for the one its worker is bound to: `kept', if a caller
\* waits for it.
Sent(d) == {c \in Records : call[c].from = d}
Cancelled(d) == {c \in Sent(d) : call[c].stage = "queued"}
Bound(d) ==
  {c \in Taken : domain[d].bound /\ domain[d].charges \in {call[c].scope, domain[d].owner}}

Orphaned(d, ended, kept) ==
  [c \in Records |->
     IF c \in Sent(d) \ ended /\ call[c].stage \in {"taken", "effect"}
       THEN [call[c] EXCEPT !.from = Nobody, !.waits = FALSE]
       ELSE Ended(ended \cup Cancelled(d), kept)[c]]

Stopped(d, ended, kept) ==
  /\ kept \subseteq {c \in ended \ Sent(d) : call[c].waits /\ c \in Bound(d)}
  /\ Cardinality(kept) <= 1
  /\ domain' = [domain EXCEPT ![d].dying = TRUE]
  /\ \E lost \in SUBSET named : named' = named \ lost
  /\ UNCHANGED <<state, gen, parent, depth>>

terminate(d) ==
  /\ Live(d)
  /\ \E ended \in SUBSET Taken, kept \in SUBSET Taken :
       /\ Stopped(d, ended, kept)
       /\ call' = Orphaned(d, ended, kept)
       /\ calls' = Lowered(ended \cup Cancelled(d))

\* A fault that is reported: a message that no account and no barrier refuses,
\* handed to the receiver that waits for it.  A report that is queued is
\* cancelled by the death that follows: see terminate.
fault(d, r) ==
  LET e == domain[d].charges
  IN  /\ Runs(d) /\ call[r] = NoCall
      /\ \E ended \in SUBSET Taken, kept \in SUBSET Taken :
           /\ Stopped(d, ended, kept)
           /\ call' = [Orphaned(d, ended, kept) EXCEPT ![r] = Report(e)]
           /\ calls' = [Lowered(ended \cup Cancelled(d)) EXCEPT ![e] = @ + 1]

\* The thread has left its processor: a call it was woken from is not returned.
reap_dead(d) ==
  /\ domain[d].dying
  /\ domain' = [domain EXCEPT ![d] = NoDomain]
  /\ call' = [c \in Records |-> IF call[c].from = d THEN NoCall ELSE call[c]]
  /\ UNCHANGED <<state, gen, parent, depth, named, calls>>

-----------------------------------------------------------------------------
\* Calls.  The account of the scope the thread charges refuses one when that
\* scope is closed; the thread's own scope is not asked.
admit(d, r, waits) ==
  LET e == domain[d].charges
  IN  /\ Runs(d) /\ call[r] = NoCall
      /\ is_open(e)
      /\ call' = [call EXCEPT ![r] = [stage |-> "queued", scope |-> e,
                                      from |-> d, waits |-> waits]]
      /\ calls' = [calls EXCEPT ![e] = @ + 1]
      /\ UNCHANGED <<state, gen, parent, depth, named, domain>>

deliver(r) ==
  /\ call[r].stage = "queued"
  /\ call' = [call EXCEPT ![r].stage = "taken",
                          ![r].from = IF call[r].waits THEN @ ELSE Nobody]
  /\ UNCHANGED <<state, gen, parent, depth, named, domain, calls>>

\* The wait ends, by its deadline or by a barrier, with the call unresolved.
give_up(r) ==
  /\ call[r].waits /\ call[r].stage # "spent"
  /\ call' = [call EXCEPT ![r].waits = FALSE,
                          ![r].from = IF call[r].stage = "queued" THEN @ ELSE Nobody]
  /\ UNCHANGED <<state, gen, parent, depth, named, domain, calls>>

\* Mutant: a closed origin is not refused.
begin_effect_late(r) ==
  /\ call[r].stage = "taken"
  /\ call' = [call EXCEPT ![r].stage = "effect"]
  /\ UNCHANGED <<state, gen, parent, depth, named, domain, calls>>

begin_effect(r) ==
  /\ call[r].stage = "taken"
  /\ is_open(call[r].scope)
  /\ call' = [call EXCEPT ![r].stage = "effect"]
  /\ UNCHANGED <<state, gen, parent, depth, named, domain, calls>>

\* A reply, the collection of a stored one, or a resolution, after which the
\* caller it wakes comes for the record its ticket keeps.
release_invocation(r, kept) ==
  /\ r \in Taken
  /\ kept => call[r].waits
  /\ call' = Ended({r}, IF kept THEN {r} ELSE {})
  /\ calls' = Lowered({r})
  /\ UNCHANGED <<state, gen, parent, depth, named, domain>>

\* The caller a resolution woke discharges the record again.
release_again(r) ==
  /\ call[r].stage = "spent"
  /\ call' = Ended({r}, {})
  /\ calls' = Lowered({r})
  /\ UNCHANGED <<state, gen, parent, depth, named, domain>>

\* A worker adopts the scope of an open client.  For a closed one it stays in
\* its own.  Neither reply nor resolution takes it back.
bind_worker(d, r) ==
  /\ Runs(d) /\ ~domain[d].bound
  /\ r \in Taken
  /\ domain' = [domain EXCEPT ![d].bound = TRUE,
                              ![d].charges = IF is_open(call[r].scope)
                                               THEN call[r].scope ELSE @]
  /\ UNCHANGED <<state, gen, parent, depth, named, call, calls>>

unbind_worker(d) ==
  /\ Runs(d) /\ domain[d].bound
  /\ domain' = [domain EXCEPT ![d].bound = FALSE, ![d].charges = domain[d].owner]
  /\ UNCHANGED <<state, gen, parent, depth, named, call, calls>>

ScopeStep(s) ==
  \/ \E handle \in BOOLEAN : create_child(s, handle)
  \/ create_refused(s) \/ close(s) \/ fence(s) \/ retire(s)

DomainStep(d) ==
  \/ \E s \in Slots : create_in(d, s)
  \/ terminate(d) \/ reap_dead(d) \/ unbind_worker(d)
  \/ \E r \in Records :
       \/ fault(d, r) \/ bind_worker(d, r)
       \/ \E waits \in BOOLEAN : admit(d, r, waits)

CallStep(r) ==
  \/ deliver(r) \/ give_up(r) \/ begin_effect(r) \/ release_again(r)
  \/ \E kept \in BOOLEAN : release_invocation(r, kept)

Next ==
  \/ \E s \in Slots : ScopeStep(s)
  \/ \E d \in Domains : DomainStep(d)
  \/ \E r \in Records : CallStep(r)
  \/ tick

Spec == Init /\ [][Next]_vars

\* The timer interrupts forever.  A stopped domain is reaped by an idle
\* processor, which may never come, and by the call of whoever asks whether a
\* perimeter has drained: so as long as the handle of a fenced scope is open.
Polled(d) == /\ \E s \in named : state[s] = "Fenced"
             /\ reap_dead(d)

Fairness == WF_vars(tick) /\ \A d \in Domains : WF_vars(Polled(d))

-----------------------------------------------------------------------------
Rank(st) == CASE st = "Empty" -> 0 [] st = "Open" -> 1 [] st = "Fenced" -> 2
              [] st = "Quiescent" -> 3 [] st = "Retired" -> 4

\* Every field holds a value of its type.
TypeOK ==
  /\ state \in [Slots -> States]
  /\ gen \in [Slots -> Nat]
  /\ parent \in [Slots -> Slots \cup {NoScope}]
  /\ depth \in [Slots -> Nat]
  /\ named \in SUBSET Slots
  /\ domain \in [Domains -> DomainType]
  /\ call \in [Records -> CallType]
  /\ calls \in [Slots -> Nat]

\* No scope is further along than one below it: an open scope has only open
\* ancestors, and a perimeter is quiescent or retired only when all of it is.
\* fence, advance_quiescence, retire and the reuse of entries keep this
\* together; is_open and the reports of drain_status depend on it.
Nested ==
  \A s \in Slots : parent[s] # NoScope =>
    /\ Rank(state[parent[s]]) \in 1..Rank(state[s])
    /\ depth[s] = depth[parent[s]] + 1

\* Once the kernel has reported a perimeter quiescent, no domain is in it, no
\* mapping or effect is charged to it, and none comes back: not by a server
\* that still holds a call of it, not by a worker still bound to it, and not by
\* the reuse of an entry (advance_quiescence, begin_effect, bind_worker).
QuietBelow ==
  \A s \in Slots : state[s] \in {"Quiescent", "Retired"} =>
    \A t \in Below(s) : Owned(t) = {} /\ Effects(t) = {}

\* What keeps it: an unused entry is blank, and nothing is in a closed entry.
Clear ==
  \A s \in Slots :
    /\ state[s] = "Empty" => parent[s] = NoScope /\ s \notin named
    /\ Rank(state[s]) \notin {1, 2} => Owned(s) = {} /\ Effects(s) = {}

IInv == TypeOK /\ Nested /\ Clear

\* The occupant of an entry only moves forward (State: "Transitions only ever
\* go forward"); the entry is collected, or given to the next one, when no
\* handle, domain or effect is left (collect_retired).
Forward ==
  [][\A s \in Slots :
       \/ gen'[s] = gen[s] /\ Rank(state'[s]) >= Rank(state[s])
       \/ /\ \/ gen'[s] = gen[s] + 1 /\ state'[s] = "Open"
             \/ gen'[s] = gen[s] /\ state'[s] = "Empty"
          /\ state[s] \in {"Empty", "Retired"}
          /\ s \notin named /\ Owned(s) = {} /\ Effects(s) = {}]_vars

\* A perimeter is declared quiescent only when every call charged to it is
\* resolved (INV-04 of vault/validation/invariants.md; advance_quiescence).
OwesNothing ==
  [][\A s \in Slots : state[s] = "Fenced" /\ state'[s] \in {"Quiescent", "Retired"} =>
       \A t \in Below(s) : Unresolved(t)' = {}]_vars

\* Whoever keeps asking after a fenced perimeter whose domains have stopped, and
\* whose counters are at zero, is told in the end that it is quiescent
\* (advance_quiescence; the reaping of api/mod.rs before a closing operation).
Drained(s) ==
  \A t \in Below(s) :
    (\A d \in Owned(t) : domain[d].dying) /\ Effects(t) = {} /\ calls[t] = 0

DrainCompletes ==
  \A s \in Slots : []<>~(state[s] = "Fenced" /\ s \in named /\ Drained(s))

=============================================================================
