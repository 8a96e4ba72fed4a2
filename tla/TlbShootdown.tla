---------------------------- MODULE TlbShootdown ----------------------------
(***************************************************************************)
(* Withdrawing the mappings of one memory object from one address space,   *)
(* and giving its frames back.                                             *)
(*                                                                         *)
(* A processor may keep a translation after its page-table entry is gone.  *)
(* An unmap removes the entry under the machine lock, publishes a          *)
(* generation, and without the lock waits until the processors in the live *)
(* set of the space have flushed past it.  A processor that enters the     *)
(* space joins the live set, then refreshes, then loads the space; one     *)
(* that leaves it writes CR3, then leaves the set.  Frames whose           *)
(* withdrawals may not have reached every processor go through a           *)
(* quarantine with a generation of its own.                                *)
(*                                                                         *)
(* A mapping is an element of Maps: requested once, withdrawn once, its    *)
(* pages and the object's frames taken together.  "user" is a processor    *)
(* with the space loaded, "away" one with another space (the idle thread   *)
(* has its own); every processor is online.  Interrupts are masked in the  *)
(* kernel, so a processor refreshes only where its code says so, or where  *)
(* it takes the interrupt.                                                 *)
(***************************************************************************)
EXTENDS Integers

CONSTANTS
  Cpus, NoCpu, Maps, NoMap,
  Clashing,   \* the requests that fail after their first pages are installed
  Closes,     \* bound: whether the last capability is ever closed
  Retires,    \* bound: whether the perimeter of the sponsor is ever retired
  Patient     \* whether every wait outlasts what it waits for

ASSUME ShootdownAssumption ==
  /\ NoCpu \notin Cpus /\ NoMap \notin Maps /\ Clashing \subseteq Maps
  /\ Closes \in BOOLEAN /\ Retires \in BOOLEAN /\ Patient \in BOOLEAN

VARIABLES
  gen,        \* GENERATION
  seen,       \* seen[c]: the generation c has flushed to
  live,       \* SPACE_LIVE of the space
  loaded,     \* the processors whose CR3 holds the space
  tlb,        \* tlb[c]: the mappings c may have translations of
  pte,        \* the mappings in the page tables
  fresh,      \* the mappings not requested yet
  lock,       \* the exclusive holder of MACHINE
  pc, back,   \* what each processor is doing, and after its refresh
  wanted,     \* the generation its refresh read
  map, target, mask,  \* its call: the mapping, the generation, who is waited for
  named,      \* whether a capability names the object
  pending,    \* pending_memory: the object is to be looked at
  at, held,   \* unmapped_at and unmapped_cpus
  frames,     \* "owned", "quarantine"; in the pool, "free" or, by a retirement, "released"
  stamp       \* the generation the quarantine waits for

local == <<back, wanted, map, target, mask>>
object == <<named, pending, at, held, frames, stamp>>
vars == <<gen, seen, live, loaded, tlb, pte, fresh, lock, pc, local, object>>

Init ==
  /\ gen = 1 /\ seen = [c \in Cpus |-> 1]
  /\ live = {} /\ loaded = {} /\ tlb = [c \in Cpus |-> {}]
  /\ pte = {} /\ fresh = Maps
  /\ lock = NoCpu
  /\ pc = [c \in Cpus |-> "away"] /\ back = [c \in Cpus |-> "away"]
  /\ wanted = [c \in Cpus |-> 1]
  /\ map = [c \in Cpus |-> NoMap]
  /\ target = [c \in Cpus |-> 1]
  /\ mask = [c \in Cpus |-> {}]
  /\ named = TRUE /\ pending = FALSE
  /\ at = 0 /\ held = {} /\ frames = "owned" /\ stamp = 0

Goto(c, from, to) == pc[c] = from /\ pc' = [pc EXCEPT ![c] = to]

Home(c) == IF c \in loaded THEN "user" ELSE "away"

\* The processor is where it can take an interrupt or enter the kernel.
Outside(c) == pc[c] \in {"user", "away"}

-----------------------------------------------------------------------------
(* The hardware: a processor in the space may cache any present entry.     *)

Fill(c, m) ==
  /\ c \in loaded /\ m \in pte
  /\ tlb' = [tlb EXCEPT ![c] = @ \cup {m}]
  /\ UNCHANGED <<gen, seen, live, loaded, pte, fresh, lock, pc, local, object>>

-----------------------------------------------------------------------------
(* refresh_local, on the way from one step to another                      *)

Refresh(c, from, to) ==
  /\ IF seen[c] >= gen
       THEN Goto(c, from, to) /\ UNCHANGED <<wanted, back>>
       ELSE /\ Goto(c, from, "flush")
            /\ wanted' = [wanted EXCEPT ![c] = gen]
            /\ back' = [back EXCEPT ![c] = to]
  /\ UNCHANGED <<gen, seen, live, loaded, tlb, pte, fresh, lock, map, target, mask, object>>

\* Mutant: the interrupt does nothing on a processor in the space.
ServiceKernel(c) ==
  /\ seen[c] < gen
  /\ pc[c] = "away" \/ (pc[c] \in {"lock", "acked", "late"} /\ lock # NoCpu)
  /\ Refresh(c, pc[c], pc[c])

\* From the interrupt, from the idle loop, and while waiting for the lock.
Service(c) ==
  /\ seen[c] < gen
  /\ Outside(c) \/ (pc[c] \in {"lock", "acked", "late"} /\ lock # NoCpu)
  /\ Refresh(c, pc[c], pc[c])

Flush(c) ==
  /\ Goto(c, "flush", "record")
  /\ tlb' = [tlb EXCEPT ![c] = {}]
  /\ UNCHANGED <<gen, seen, live, loaded, pte, fresh, lock, local, object>>

Record(c) ==
  /\ Goto(c, "record", back[c])
  /\ seen' = [seen EXCEPT ![c] = wanted[c]]
  /\ wanted' = [wanted EXCEPT ![c] = 1] /\ back' = [back EXCEPT ![c] = "away"]
  /\ UNCHANGED <<gen, live, loaded, tlb, pte, fresh, lock, map, target, mask, object>>

-----------------------------------------------------------------------------
(* A switch to a thread of the domain, and to one of another.              *)

note_dispatch(c) ==
  /\ Outside(c)
  /\ pc' = [pc EXCEPT ![c] = "joined"]
  /\ live' = live \cup {c}
  /\ UNCHANGED <<gen, seen, loaded, tlb, pte, fresh, lock, local, object>>

\* switch_space; nothing is written where the space is loaded already.
Load(c) ==
  /\ Goto(c, "load", "user")
  /\ loaded' = loaded \cup {c}
  /\ tlb' = IF c \in loaded THEN tlb ELSE [tlb EXCEPT ![c] = {}]
  /\ UNCHANGED <<gen, seen, live, pte, fresh, lock, local, object>>

\* CR3 takes another root, which retires what was cached of this one,
Unload(c) ==
  /\ Goto(c, "unload", "left")
  /\ loaded' = loaded \ {c}
  /\ tlb' = [tlb EXCEPT ![c] = {}]
  /\ UNCHANGED <<gen, seen, live, pte, fresh, lock, local, object>>

\* and only then the processor leaves the live set.
Left(c) ==
  /\ Goto(c, "left", "away")
  /\ live' = live \ {c}
  /\ UNCHANGED <<gen, seen, loaded, tlb, pte, fresh, lock, local, object>>

Switch(c) ==
  \/ note_dispatch(c) \/ Refresh(c, "joined", "load") \/ Load(c)
  \/ Refresh(c, "user", "unload") \/ Unload(c) \/ Left(c)

-----------------------------------------------------------------------------
(* map, on any processor: the entries are installed under the lock,        *)

Install(c, m) ==
  /\ Outside(c) /\ lock = NoCpu
  /\ named /\ frames = "owned" /\ m \in fresh
  /\ pc' = [pc EXCEPT ![c] = "mapping"]
  /\ lock' = c
  /\ map' = [map EXCEPT ![c] = m]
  /\ pte' = pte \cup {m} /\ fresh' = fresh \ {m}
  /\ UNCHANGED <<gen, seen, live, loaded, tlb, back, wanted, target, mask, object>>

\* and a request that fails half-way takes out the ones it had installed.
Installed(c) ==
  /\ Goto(c, "mapping", Home(c))
  /\ lock' = NoCpu
  /\ map' = [map EXCEPT ![c] = NoMap]
  /\ pte' = IF map[c] \in Clashing THEN pte \ {map[c]} ELSE pte
  /\ UNCHANGED <<gen, seen, live, loaded, tlb, fresh, back, wanted, target, mask, object>>

-----------------------------------------------------------------------------
(* unmap: withdraw_map_deferring, with the lock                            *)

Unmap(c) ==
  /\ Outside(c)
  /\ pc' = [pc EXCEPT ![c] = "lock"]
  /\ UNCHANGED <<gen, seen, live, loaded, tlb, pte, fresh, lock, local, object>>

\* No record matches.
UnmapNone(c) ==
  /\ lock = NoCpu
  /\ Goto(c, "lock", Home(c))
  /\ UNCHANGED <<gen, seen, live, loaded, tlb, pte, fresh, lock, local, object>>

\* The entries go, and their translations here if the space is loaded here.
Remove(c, m) ==
  /\ lock = NoCpu /\ m \in pte
  /\ Goto(c, "lock", "publish")
  /\ lock' = c
  /\ map' = [map EXCEPT ![c] = m]
  /\ pte' = pte \ {m}
  /\ tlb' = IF c \in loaded THEN [tlb EXCEPT ![c] = @ \ {m}] ELSE tlb
  /\ UNCHANGED <<gen, seen, live, loaded, fresh, back, wanted, target, mask, object>>

\* Mutant: the withdrawal is recorded and not announced.
PublishQuiet(c) ==
  /\ Goto(c, "publish", "hold")
  /\ at' = gen
  /\ UNCHANGED <<gen, seen, live, loaded, tlb, pte, fresh, lock, local, named, pending, held, frames, stamp>>

Publish(c) ==
  /\ Goto(c, "publish", "hold")
  /\ gen' = gen + 1
  /\ at' = gen + 1
  /\ UNCHANGED <<seen, live, loaded, tlb, pte, fresh, lock, local, named, pending, held, frames, stamp>>

Hold(c) ==
  /\ Goto(c, "hold", "announce")
  /\ lock' = NoCpu
  /\ held' = held \cup (IF c \in loaded THEN live \ {c} ELSE live)
  /\ UNCHANGED <<gen, seen, live, loaded, tlb, pte, fresh, local, named, pending, at, frames, stamp>>

-----------------------------------------------------------------------------
(* unmap: shootdown_space, without it                                      *)

Announce(c) ==
  /\ Goto(c, "announce", "look")
  /\ gen' = gen + 1
  /\ target' = [target EXCEPT ![c] = gen + 1]
  /\ UNCHANGED <<seen, live, loaded, tlb, pte, fresh, lock, back, wanted, map, mask, object>>

Look(c) ==
  /\ Goto(c, "look", IF live \subseteq {c} THEN "acked" ELSE "ready")
  /\ mask' = [mask EXCEPT ![c] = live]
  /\ UNCHANGED <<gen, seen, live, loaded, tlb, pte, fresh, lock, back, wanted, map, target, object>>

\* Mutant: one acknowledgement is enough.
AckedAny(c) ==
  /\ \E q \in mask[c] : seen[q] >= target[c]
  /\ Goto(c, "wait", "acked")
  /\ UNCHANGED <<gen, seen, live, loaded, tlb, pte, fresh, lock, local, object>>

\* wait_for_mask: a refresh, and then the wait.
Acked(c) ==
  /\ \A q \in mask[c] : seen[q] >= target[c]
  /\ Goto(c, "wait", "acked")
  /\ UNCHANGED <<gen, seen, live, loaded, tlb, pte, fresh, lock, local, object>>

TimedOut(c) ==
  /\ ~Patient
  /\ \E q \in mask[c] : seen[q] < target[c]
  /\ Goto(c, "wait", "late")
  /\ UNCHANGED <<gen, seen, live, loaded, tlb, pte, fresh, lock, local, object>>

-----------------------------------------------------------------------------
(* collect_memory_acked                                                    *)

FlushedBy(set, g) == \A q \in set : seen[q] >= g

\* Mutant: the generation before the withdrawal's is taken for it.
ImmediateEarly(acked) == acked \/ at = 0 \/ FlushedBy(held, at - 1) \/ FlushedBy(Cpus, at - 1)

Immediate(acked) == acked \/ at = 0 \/ FlushedBy(held, at) \/ FlushedBy(Cpus, at)

Collect(acked) ==
  LET unused == ~named /\ pte = {} /\ frames = "owned"
      direct == Immediate(acked)
  IN  /\ frames' = IF ~unused THEN frames ELSE IF direct THEN "free" ELSE "quarantine"
      /\ gen' = IF unused /\ ~direct THEN gen + 1 ELSE gen
      /\ stamp' = IF unused /\ ~direct THEN gen + 1 ELSE stamp

\* The end of unmap, with the lock again.
Unmapped(c) ==
  /\ pc[c] \in {"acked", "late"} /\ lock = NoCpu
  /\ Collect(pc[c] = "acked")
  /\ pc' = [pc EXCEPT ![c] = Home(c)]
  /\ map' = [map EXCEPT ![c] = NoMap]
  /\ target' = [target EXCEPT ![c] = 1] /\ mask' = [mask EXCEPT ![c] = {}]
  /\ UNCHANGED <<seen, live, loaded, tlb, pte, fresh, lock, back, wanted,
                 named, pending, at, held>>

\* The last capability is closed, in a shared hold of the machine,
release_entry ==
  /\ lock = NoCpu /\ named /\ Closes
  /\ named' = FALSE /\ pending' = TRUE
  /\ UNCHANGED <<gen, seen, live, loaded, tlb, pte, fresh, lock, pc, local, at, held, frames, stamp>>

\* and the next exclusive holder looks at the object.
drain_pending_memory ==
  /\ lock = NoCpu /\ pending
  /\ pending' = FALSE
  /\ Collect(FALSE)
  /\ UNCHANGED <<seen, live, loaded, tlb, pte, fresh, lock, pc, local, named, at, held>>

drain_quarantine ==
  /\ lock = NoCpu /\ frames = "quarantine"
  /\ FlushedBy(Cpus, stamp)
  /\ frames' = "free"
  /\ UNCHANGED <<gen, seen, live, loaded, tlb, pte, fresh, lock, pc, local, named, pending, at, held, stamp>>

\* The perimeter of the sponsor is retired, which gives back at once the frames
\* of an object that nothing maps; what was pending is drained in the same hold.
release_sponsored ==
  /\ lock = NoCpu /\ Retires /\ ~pending
  /\ pte = {} /\ frames = "owned"
  /\ frames' = "released" /\ named' = FALSE
  /\ UNCHANGED <<gen, seen, live, loaded, tlb, pte, fresh, lock, pc, local, pending, at, held, stamp>>

-----------------------------------------------------------------------------
Call(c) ==
  \/ Unmap(c) \/ UnmapNone(c) \/ Publish(c) \/ Hold(c) \/ Announce(c) \/ Look(c)
  \/ Refresh(c, "ready", "wait") \/ Acked(c) \/ TimedOut(c) \/ Unmapped(c) \/ Installed(c)
  \/ \E m \in Maps : Install(c, m) \/ Remove(c, m)

Next ==
  \/ \E c \in Cpus : Call(c) \/ Switch(c) \/ Service(c) \/ Flush(c) \/ Record(c)
  \/ \E c \in Cpus, m \in Maps : Fill(c, m)
  \/ release_entry \/ drain_pending_memory \/ drain_quarantine \/ release_sponsored

Spec == Init /\ [][Next]_vars

\* What a processor does inside the kernel, where nothing preempts it.
Progress(c) ==
  \/ Flush(c) \/ Record(c)
  \/ Refresh(c, "joined", "load") \/ Load(c) \/ Unload(c) \/ Left(c)
  \/ Installed(c) \/ Publish(c) \/ Hold(c) \/ Announce(c) \/ Look(c)
  \/ Refresh(c, "ready", "wait") \/ Acked(c)

\* MACHINE serves its writers in order, so each gets its turn.
Turn(c) == UnmapNone(c) \/ (\E m \in Maps : Remove(c, m)) \/ Unmapped(c)

\* An interrupt that is pending is taken when the kernel is left.
Fairness ==
  \A c \in Cpus : WF_vars(Progress(c)) /\ SF_vars(Turn(c)) /\ SF_vars(Service(c))

-----------------------------------------------------------------------------
Locked == {"mapping", "publish", "hold"}
Steps ==
  Locked \cup {"user", "away", "flush", "record", "joined", "load", "unload", "left",
               "lock", "announce", "look", "ready", "wait", "acked", "late"}

TypeOK ==
  /\ gen \in Nat /\ seen \in [Cpus -> 1..gen]
  /\ live \subseteq Cpus /\ loaded \subseteq live
  /\ tlb \in [Cpus -> SUBSET Maps]
  /\ pte \subseteq Maps /\ fresh \subseteq Maps
  /\ lock \in Cpus \cup {NoCpu}
  /\ pc \in [Cpus -> Steps] /\ back \in [Cpus -> Steps \ {"flush", "record"}]
  /\ wanted \in [Cpus -> 1..gen]
  /\ map \in [Cpus -> Maps \cup {NoMap}]
  /\ target \in [Cpus -> 1..gen] /\ mask \in [Cpus -> SUBSET Cpus]
  /\ named \in BOOLEAN /\ pending \in BOOLEAN
  /\ at \in 0..gen /\ held \subseteq Cpus
  /\ frames \in {"owned", "quarantine", "free", "released"} /\ stamp \in 0..gen

\* Where a processor stands, a refresh on the way aside.
Doing(c) == IF pc[c] \in {"flush", "record"} THEN back[c] ELSE pc[c]

\* The processor has not flushed since generation g, and is not about to say so.
Owes(q, g) == seen[q] < g /\ (pc[q] = "record" => wanted[q] < g)

Calling(c) ==
  Doing(c) \in {"publish", "hold", "announce", "look", "ready", "wait", "acked", "late"}

\* What a processor has of the space, it has while it is in the live set; the
\* lock has one holder; a mapping under withdrawal is not in the tables.
Orderly ==
  /\ \A c \in Cpus :
       /\ tlb[c] # {} => c \in loaded
       /\ tlb[c] \cap fresh = {}
       /\ Doing(c) \in {"joined", "load"} => c \in live
       /\ Doing(c) = "left" => c \notin loaded
       /\ Doing(c) \in Locked <=> lock = c
       /\ pc[c] \in {"flush", "record"} => back[c] \notin Locked
       /\ Calling(c) => map[c] \in Maps \ (pte \cup fresh) /\ map[c] \notin tlb[c]
       /\ pc[c] = "mapping" => map[c] \in Maps \ fresh
  /\ pte \cap fresh = {}
  /\ frames # "owned" => pte = {} /\ ~named /\ lock = NoCpu
  /\ ~named => \A c \in Cpus : pc[c] # "mapping"

\* A processor that still holds the mapping of a shootdown is one it waits for.
Awaited(c) ==
  \A q \in Cpus : map[c] \in tlb[q] =>
    /\ Doing(c) \in {"look", "ready", "wait"} => Owes(q, target[c])
    /\ Doing(c) \in {"ready", "wait"} => q \in mask[c]
    /\ Doing(c) # "acked"

\* Any translation of a withdrawn mapping is on a processor the object remembers.
Remembered ==
  \A q \in Cpus : \A m \in tlb[q] \ (pte \cup Clashing) :
    \/ \E c \in Cpus : pc[c] = "publish" /\ map[c] = m
    \/ /\ Owes(q, at)
       /\ q \in held \/ \E c \in Cpus : pc[c] = "hold" /\ map[c] = m
       /\ frames = "quarantine" => Owes(q, stamp)

IInv ==
  /\ TypeOK /\ Orderly /\ Remembered
  /\ \A c \in Cpus : Calling(c) => Awaited(c)

\* shootdown_space, "There is no third case": when it reports its generation
\* acknowledged, no processor has a translation of the mapping, not one that left
\* the space, nor one that entered it while the shootdown was under way.
AckedMeansGone == \A c, q \in Cpus : Doing(c) = "acked" => map[c] \notin tlb[q]

Reclaims == frames # "free" /\ frames' = "free"

\* Frames that come back from the quarantine, by the object's own record of its
\* withdrawals (unmapped_at, unmapped_cpus), or by the acknowledgement of the only
\* mapping the object ever had, are reached by no translation.
RecordedReclaim ==
  [][Reclaims /\ (\A c \in Cpus : pc[c] = "acked" => pc'[c] = "acked" \/ Maps \ fresh = {map[c]})
       => \A q \in Cpus : tlb[q] \subseteq Clashing]_vars

\* withdraw_map: it is "impossible to remove a mapping without announcing it": a
\* processor left with a translation is behind the generation.  The rollback of a
\* map request that fails half-way does not go through withdraw_map, or announce.
Announced ==
  lock = NoCpu => \A q \in Cpus : tlb[q] \subseteq pte \cup Clashing \/ seen[q] < gen

\* tlb.rs: "two processors that shoot down at the same time make progress instead
\* of waiting for each other".  With no timeout to end it, every wait ends.
ShootdownEnds == \A c \in Cpus : pc[c] = "wait" ~> pc[c] # "wait"
=============================================================================
