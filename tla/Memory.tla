------------------------------- MODULE Memory -------------------------------
(***************************************************************************)
(* Memory objects (memobj.rs, api/memops.rs), the mappings domains have of *)
(* them (api/domainops.rs), the grants devices have (api/devops.rs) and     *)
(* what a domain's death and a scope's retirement do to both.  An operation *)
(* is one step under the exclusive hold of the machine; seal and unmap drop *)
(* the hold to wait for the other processors, and are two.  How a          *)
(* translation is retired is TlbShootdown's matter: here a withdrawn one is *)
(* held by some processor until it flushes, and a wait ends when the ones    *)
(* withdrawn before it are gone, or gives up.                               *)
(***************************************************************************)
EXTENDS Integers, FiniteSets

CONSTANTS Objects,       \* slots of the table of memory objects
          Domains,
          Callers,       \* threads that may be inside seal or unmap
          MapSlots,      \* slots of the table of mappings
          GrantSlots,    \* slots of the table of device grants
          MaxGeneration, \* bound on the occupants of a slot
          MaxRefs,       \* bound on the handles to an object
          Retires        \* whether a sponsor retires under device grants

VARIABLES memories,      \* the objects
          maps,          \* the mapping records
          grants,        \* the device grants
          stale,         \* withdrawn translations a processor still holds
          alive,         \* domains not yet terminated
          job,           \* where each caller is
          pages          \* the contents of each object, and who holds the frames

vars == <<memories, maps, grants, stale, alive, job, pages>>

States == {"Empty", "Mutable", "Sealing", "Sealed"}
NoMap == [used |-> FALSE]
NoJob == [op |-> "none"]

Empty(g) == [state |-> "Empty", generation |-> g, refs |-> 0, map_count |-> 0,
             writable_maps |-> 0, dma_grants |-> 0, retired |-> FALSE]

Init == /\ memories = [o \in Objects |-> Empty(0)]
        /\ maps = [i \in MapSlots |-> NoMap]
        /\ grants = [i \in GrantSlots |-> NoMap]
        /\ stale = {}
        /\ alive = Domains
        /\ job = [c \in Callers |-> NoJob]
        /\ pages = [o \in Objects |-> 0]

Idle(c) == job[c] = NoJob
Minus(n) == IF n > 0 THEN n - 1 ELSE 0

Writable(r) == r.used /\ r.write
Names(r, o) == r.used /\ r.memory = o /\ r.generation = memories[o].generation

\* What a processor may still hold of a mapping that was withdrawn.
Trace(r) == [memory |-> r.memory, generation |-> r.generation, write |-> r.write]

\* Mutant: the device's grants are not looked at.
CollectableGranted(m) == /\ m.state # "Empty"
                         /\ m.refs = 0 /\ m.map_count = 0
                         /\ ~m.retired

\* collect_memory_acked: nothing names it, nothing maps it, no device reaches
\* it, and its sponsor has not retired.  (Whether the frames go to the pool or
\* through the quarantine is Frames's and TlbShootdown's matter.)
Collectable(m) == /\ m.state # "Empty"
                  /\ m.refs = 0 /\ m.map_count = 0 /\ m.dma_grants = 0
                  /\ ~m.retired

Collected(ms) == [o \in Objects |->
                    IF Collectable(ms[o]) THEN Empty(ms[o].generation) ELSE ms[o]]

Lost(o, r) == Cardinality({i \in r : Names(maps[i], o)})
LostWriters(o, r) == Cardinality({i \in r : Names(maps[i], o) /\ maps[i].write})

\* The withdrawal of a set of mapping records: the counts of the object each
\* still names, the record, and the translations left behind.
Withdrawn(r) == [o \in Objects |->
    [memories[o] EXCEPT !.map_count = @ - Lost(o, r),
                        !.writable_maps = @ - LostWriters(o, r)]]

Dropped(r) == [i \in MapSlots |-> IF i \in r THEN NoMap ELSE maps[i]]
Traces(r) == {Trace(maps[i]) : i \in {j \in r : maps[j].used}}

\* -------------------------------------------------------------------------
\* Objects and handles.

\* create succeeds, or fails after the object exists, for want of a grant
\* node or of a table slot: the object then has no handle.
create(o) == /\ memories[o].state = "Empty"
             /\ memories[o].generation < MaxGeneration
             /\ \E n \in {0, 1} :
                  memories' = [memories EXCEPT
                      ![o] = [Empty(@.generation + 1) EXCEPT !.state = "Mutable", !.refs = n]]
             /\ pages' = [pages EXCEPT ![o] = 0]
             /\ UNCHANGED <<maps, grants, stale, alive, job>>

Live(o) == memories[o].state # "Empty" /\ memories[o].refs > 0

Copy(o) == /\ Live(o) /\ memories[o].refs < MaxRefs
           /\ memories' = [memories EXCEPT ![o].refs = @ + 1]
           /\ UNCHANGED <<maps, grants, stale, alive, job, pages>>

\* Closing a handle notes the object; the same hold reclaims it.
Close(o) == /\ Live(o)
            /\ memories' = [memories EXCEPT
                  ![o] = LET m == [@ EXCEPT !.refs = Minus(@)]
                         IN  IF Collectable(m) THEN Empty(m.generation) ELSE m]
            /\ UNCHANGED <<maps, grants, stale, alive, job, pages>>

\* The mediated write and copy, which require a mutable target.
write(o) == /\ Live(o) /\ memories[o].state = "Mutable"
            /\ pages' = [pages EXCEPT ![o] = 1 - @]
            /\ UNCHANGED <<memories, maps, grants, stale, alive, job>>

\* -------------------------------------------------------------------------
\* Mappings.

MayMap(o, d, w) == /\ Live(o) /\ d \in alive
                   /\ w => memories[o].state = "Mutable"

map(o, d, w) ==
    /\ MayMap(o, d, w)
    /\ \E i \in MapSlots :
          /\ ~maps[i].used
          /\ maps' = [maps EXCEPT ![i] = [used |-> TRUE, memory |-> o, domain |-> d, write |-> w,
                                          generation |-> memories[o].generation]]
    /\ memories' = [memories EXCEPT ![o].map_count = @ + 1,
                                    ![o].writable_maps = @ + IF w THEN 1 ELSE 0]
    /\ UNCHANGED <<grants, stale, alive, job, pages>>

unmap(c, i) ==
    /\ Idle(c) /\ maps[i].used /\ maps[i].domain \in alive
    /\ memories' = Withdrawn({i})
    /\ maps' = Dropped({i})
    /\ stale' = stale \cup Traces({i})
    /\ job' = [job EXCEPT ![c] = [op |-> "unmap", memory |-> maps[i].memory,
                                  waits |-> Traces({i}),
                                  named |-> Names(maps[i], maps[i].memory)]]
    /\ UNCHANGED <<grants, alive, pages>>

Gone(c) == stale \cap job[c].waits = {}

\* The acknowledgement or the timeout, and the collection of the object the
\* record named; the answer differs and the state does not.
unmapEnds(c) ==
    /\ job[c].op = "unmap"
    /\ LET o == job[c].memory IN
       memories' = IF job[c].named THEN [memories EXCEPT ![o] = Collected(memories)[o]]
                   ELSE memories
    /\ job' = [job EXCEPT ![c] = NoJob]
    /\ UNCHANGED <<maps, grants, stale, alive, pages>>

\* A processor retires translations it held.
Flush == /\ stale # {}
         /\ \E t \in stale : stale' = stale \ {t}
         /\ UNCHANGED <<memories, maps, grants, alive, job, pages>>

\* terminate_in: every mapping of the domain is withdrawn.
Dies(d) ==
    LET r == {i \in MapSlots : maps[i].used /\ maps[i].domain = d} IN
    /\ d \in alive
    /\ alive' = alive \ {d}
    /\ memories' = LET ms == Withdrawn(r) IN
          [o \in Objects |-> IF Lost(o, r) > 0 THEN Collected(ms)[o] ELSE ms[o]]
    /\ maps' = Dropped(r)
    /\ stale' = stale \cup Traces(r)
    /\ UNCHANGED <<grants, job, pages>>

\* -------------------------------------------------------------------------
\* Sealing.

Writers(o) == {i \in MapSlots : Names(maps[i], o) /\ maps[i].write}

\* Admission closes, the writers are withdrawn, and the hold is dropped.
seal(c, o) ==
    /\ Idle(c) /\ Live(o)
    /\ memories[o].state \in {"Mutable", "Sealing"}
    /\ memories[o].dma_grants = 0
    /\ memories' = [Withdrawn(Writers(o)) EXCEPT ![o].state = "Sealing"]
    /\ maps' = Dropped(Writers(o))
    /\ stale' = stale \cup Traces(Writers(o))
    /\ job' = [job EXCEPT ![c] = [op |-> "seal", memory |-> o,
                                  generation |-> memories[o].generation,
                                  waits |-> stale \cup Traces(Writers(o))]]
    /\ UNCHANGED <<grants, alive, pages>>

\* Mutant: the seal is published whatever the shootdown answered.
SealableUnacknowledged(c) ==
    LET o == job[c].memory IN
    /\ memories[o].generation = job[c].generation /\ memories[o].state # "Empty"
    /\ memories[o].writable_maps = 0

\* What the second hold of seal looks at before it publishes.
Sealable(c) ==
    LET o == job[c].memory IN
    /\ memories[o].generation = job[c].generation /\ memories[o].state # "Empty"
    /\ memories[o].writable_maps = 0
    /\ Gone(c)

sealEnds(c) ==
    /\ job[c].op = "seal"
    /\ memories' = IF Sealable(c) THEN [memories EXCEPT ![job[c].memory].state = "Sealed"]
                   ELSE memories
    /\ job' = [job EXCEPT ![c] = NoJob]
    /\ UNCHANGED <<maps, grants, stale, alive, pages>>

\* The object is gone, a writer remains, or the wait ran out of patience.
sealFails(c) ==
    /\ job[c].op = "seal"
    /\ ~Gone(c) \/ ~Sealable(c)
    /\ job' = [job EXCEPT ![c] = NoJob]
    /\ UNCHANGED <<memories, maps, grants, stale, alive, pages>>

\* -------------------------------------------------------------------------
\* Devices.

MayGrant(o, w) == Live(o) /\ (w => memories[o].state = "Mutable")

dma_map(o, w) ==
    /\ MayGrant(o, w)
    /\ \E i \in GrantSlots :
          /\ ~grants[i].used
          /\ grants' = [grants EXCEPT ![i] = [used |-> TRUE, memory |-> o, write |-> w,
                                              generation |-> memories[o].generation]]
    /\ memories' = [memories EXCEPT ![o].dma_grants = @ + 1]
    /\ UNCHANGED <<maps, stale, alive, job, pages>>

\* revoke_grant, from dma_unmap or a confirmed reset.  Nothing is collected.
revoke_grant(i) ==
    /\ grants[i].used
    /\ LET o == grants[i].memory IN
       memories' = IF Names(grants[i], o)
                   THEN [memories EXCEPT ![o].dma_grants = Minus(@)] ELSE memories
    /\ grants' = [grants EXCEPT ![i] = NoMap]
    /\ UNCHANGED <<maps, stale, alive, job, pages>>

\* release_sponsored frees what has no mapping and withdraws its handles; the
\* rest stays, with a sponsor that nothing is credited to any more.
Retire ==
    /\ \E o \in Objects : memories[o].state # "Empty" /\ ~memories[o].retired
    /\ Retires \/ \A o \in Objects : memories[o].dma_grants = 0
    /\ memories' = [o \in Objects |->
          CASE memories[o].state = "Empty" -> memories[o]
            [] memories[o].state # "Empty" /\ memories[o].map_count = 0 ->
                  Empty(memories[o].generation)
            [] OTHER -> [memories[o] EXCEPT !.retired = TRUE]]
    /\ UNCHANGED <<maps, grants, stale, alive, job, pages>>

\* -------------------------------------------------------------------------
\* Stores to the pages: through a mapping, through a translation a processor
\* has not retired, or by a device.

CpuStores(o) == \/ \E i \in MapSlots : Writable(maps[i]) /\ Names(maps[i], o)
                \/ \E t \in stale : /\ t.memory = o /\ t.write
                                    /\ t.generation = memories[o].generation
DeviceStores(o) == \E i \in GrantSlots : Writable(grants[i]) /\ Names(grants[i], o)

Store(o) == /\ CpuStores(o) \/ DeviceStores(o)
            /\ pages' = [pages EXCEPT ![o] = 1 - @]
            /\ UNCHANGED <<memories, maps, grants, stale, alive, job>>

Next == \/ \E o \in Objects : \/ create(o) \/ Copy(o) \/ Close(o) \/ write(o) \/ Store(o)
                              \/ \E w \in BOOLEAN : dma_map(o, w)
                              \/ \E d \in Domains, w \in BOOLEAN : map(o, d, w)
                              \/ \E c \in Callers : seal(c, o)
        \/ \E c \in Callers : unmapEnds(c) \/ sealEnds(c) \/ sealFails(c)
        \/ \E c \in Callers, i \in MapSlots : unmap(c, i)
        \/ \E i \in GrantSlots : revoke_grant(i)
        \/ \E d \in Domains : Dies(d)
        \/ Flush \/ Retire

Spec == Init /\ [][Next]_vars

\* The counts an object is freed and sealed by are the records that name it:
\* no withdrawal, revocation, retirement or reuse of the slot lets them drift,
\* and no record of a mapping outlives the object or the domain it is of.
CountsTrue ==
    /\ \A o \in Objects : LET m == memories[o] IN
          /\ m.map_count = Cardinality({i \in MapSlots : Names(maps[i], o)})
          /\ m.writable_maps = Cardinality(Writers(o))
          /\ m.dma_grants = Cardinality({i \in GrantSlots : Names(grants[i], o)})
    /\ \A i \in MapSlots : maps[i].used =>
          /\ maps[i].domain \in alive
          /\ memories[maps[i].memory].state # "Empty"
          /\ Names(maps[i], maps[i].memory)
    /\ \A i \in GrantSlots : grants[i].used => memories[grants[i].memory].state # "Empty"

\* A seal is a promise about bytes: from the step that publishes it until the
\* object is freed no mapping, no translation a processor has not retired, no
\* mediated write and no device changes them, whatever timed out on the way,
\* and the object never becomes mutable again.
SealedStays ==
    \A o \in Objects : memories[o].state = "Sealed" =>
        \/ memories'[o].state = "Empty"
        \/ memories'[o].state = "Sealed" /\ pages'[o] = pages[o]
=============================================================================
