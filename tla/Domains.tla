------------------------------- MODULE Domains -------------------------------
(***************************************************************************)
(* The construction and the end of domains (domain.rs, api/domainops.rs):   *)
(* what each step charges to the scope that pays, the threads and kernel    *)
(* stacks it takes, the cell a fault channel reserves in its endpoint, and  *)
(* what termination, reaping and the reuse of a slot give back.  Every      *)
(* operation holds the machine exclusively.  The quotas of a scope's        *)
(* ancestors are ScopeAccounts's, dispatching is Dispatch's.                 *)
(***************************************************************************)
EXTENDS Integers, FiniteSets, FiniteSetsExt

CONSTANTS Scopes, Slots, Threads, NoScope,
          ThreadsPerDomain,
          PageLimit, ThreadLimit, \* what a scope may hold
          ImagePages, TableReserve, MapReserve,
          Capacity,               \* cells of the endpoint faults are sent to
          MaxCreations,           \* bound on the constructions attempted
          MaxEndpoint,            \* bound on the lives of the endpoint
          MaxMaps                 \* bound on the mappings of a domain

VARIABLES domains, scopes, thread, endpoint, kstacks, standing

vars == <<domains, scopes, thread, endpoint, kstacks, standing>>

\* Pages of a kernel stack.
KSTACK == 1
Unused == [state |-> "Unused"]

Empty(g) == [state |-> "Empty", generation |-> g]

Init == /\ domains = [d \in Slots |-> Empty(0)]
        /\ scopes = [s \in Scopes |-> [pages |-> 0, metadata |-> 0, threads |-> 0, parallelism |-> 0]]
        /\ thread = [t \in Threads |-> Unused]
        /\ endpoint = [used |-> TRUE, generation |-> 1, reserved_cells |-> 0]
        /\ kstacks = 0
        /\ standing = {}

Of(d) == {t \in Threads : thread[t].state # "Unused" /\ thread[t].domain = d}
FreeThreads == {t \in Threads : thread[t].state = "Unused"}
Live == {"Building", "Runnable"}
Charged(d) == domains[d].state \in Live \cup {"Stopping", "Dead"}

Reserve(u, pages, metadata, threads) ==
    [u EXCEPT !.pages = @ + pages, !.metadata = @ + metadata, !.threads = @ + threads,
              !.parallelism = @ + threads]

HasRoom(s, pages) == /\ scopes[s].pages + pages <= PageLimit
                     /\ scopes[s].parallelism < ThreadLimit

\* collect_dead, for a creation that finds no empty slot.
Collectable(d) == /\ domains[d].state = "Dead" /\ domains[d].refs = 0
Vacant == LET e == {d \in Slots : domains[d].state = "Empty"} IN
          IF e # {} THEN e ELSE {d \in Slots : Collectable(d)}

MayCreate == MapThenSumSet(LAMBDA d : domains[d].generation, Slots) < MaxCreations

\* create_in: an upper bound is reserved, the build takes what it takes of the
\* tables, and the surplus is returned.  A handle is installed, or is not when
\* the table or the grants are full: the domain is then left unnamed.
create_in(s) ==
    /\ Vacant # {} /\ FreeThreads # {} /\ HasRoom(s, ImagePages + KSTACK + TableReserve)
    /\ \E d \in Vacant, t \in FreeThreads, tables \in 0 .. TableReserve, named \in {0, 1} :
         LET pages == ImagePages + KSTACK + tables IN
         /\ MayCreate
         /\ domains' = [domains EXCEPT ![d] =
               [state |-> "Building", generation |-> @.generation + 1, scope |-> s, pages |-> pages,
                metadata |-> 2, fault |-> 0, refs |-> named, maps |-> 0]]
         /\ scopes' = [scopes EXCEPT ![s] = Reserve(@, pages, 2, 1)]
         /\ thread' = [thread EXCEPT ![t] = [state |-> "Held", domain |-> d, parallelism |-> s]]
    /\ kstacks' = kstacks + 1
    /\ UNCHANGED <<endpoint, standing>>

\* build fails part way: demolish, and the slot has a new generation.
createFails(s) ==
    /\ FreeThreads # {} /\ HasRoom(s, ImagePages + KSTACK + TableReserve)
    /\ \E d \in Vacant : /\ MayCreate
                         /\ domains' = [domains EXCEPT ![d] = Empty(@.generation + 1)]
    /\ UNCHANGED <<scopes, thread, endpoint, kstacks, standing>>

\* map: the tables a mapping takes stay charged to the domain.
map(d) == /\ domains[d].state \in Live
          /\ domains[d].maps < MaxMaps
          /\ scopes[domains[d].scope].pages + MapReserve <= PageLimit
          /\ \E taken \in 0 .. MapReserve :
               /\ domains' = [domains EXCEPT ![d].pages = @ + taken, ![d].maps = @ + 1]
               /\ scopes' = [scopes EXCEPT ![domains[d].scope].pages = @ + taken]
          /\ UNCHANGED <<thread, endpoint, kstacks, standing>>

add_thread_in(d) ==
    /\ domains[d].state = "Building" /\ Cardinality(Of(d)) < ThreadsPerDomain
    /\ LET s == domains[d].scope IN
       /\ HasRoom(s, KSTACK)
       /\ \E t \in FreeThreads :
            thread' = [thread EXCEPT ![t] = [state |-> "Held", domain |-> d, parallelism |-> s]]
       /\ scopes' = [scopes EXCEPT ![s] = Reserve(@, KSTACK, 1, 1)]
    /\ domains' = [domains EXCEPT ![d].pages = @ + KSTACK, ![d].metadata = @ + 1]
    /\ kstacks' = kstacks + 1
    /\ UNCHANGED <<endpoint, standing>>

set_fault_channel(d) ==
    /\ domains[d].state = "Building" /\ domains[d].fault = 0
    /\ endpoint.used /\ endpoint.reserved_cells + 1 < Capacity
    /\ endpoint' = [endpoint EXCEPT !.reserved_cells = @ + 1]
    /\ domains' = [domains EXCEPT ![d].fault = endpoint.generation]
    /\ UNCHANGED <<scopes, thread, kstacks, standing>>

activate_in(d) == /\ domains[d].state = "Building" /\ domains[d].fault # 0
                  /\ domains' = [domains EXCEPT ![d].state = "Runnable"]
                  /\ thread' = [t \in Threads |-> IF t \in Of(d) THEN [thread[t] EXCEPT !.state = "Ready"]
                                                  ELSE thread[t]]
                  /\ UNCHANGED <<scopes, endpoint, kstacks, standing>>

\* A processor takes a ready thread, and leaves one it is on.
Runs(t) == /\ thread[t].state = "Ready"
           /\ standing' = standing \cup {t}
           /\ UNCHANGED <<domains, scopes, thread, endpoint, kstacks>>
Leaves(t) == /\ t \in standing
             /\ standing' = standing \ {t}
             /\ UNCHANGED <<domains, scopes, thread, endpoint, kstacks>>

\* bind_worker and unbind_worker: the slot a thread holds moves to the scope
\* it works for, and back to its owner's whatever the limit.
Moved(t, s) == LET p == thread[t].parallelism IN
    [x \in Scopes |-> [scopes[x] EXCEPT !.parallelism =
        @ - (IF x = p THEN 1 ELSE 0) + (IF x = s THEN 1 ELSE 0)]]

bind_worker(t, s) == /\ t \in standing /\ thread[t].state = "Ready"
                     /\ scopes[s].parallelism < ThreadLimit
                     /\ scopes' = Moved(t, s)
                     /\ thread' = [thread EXCEPT ![t].parallelism = s]
                     /\ UNCHANGED <<domains, endpoint, kstacks, standing>>

unbind_worker(t) == /\ t \in standing /\ thread[t].state = "Ready"
                    /\ LET s == domains[thread[t].domain].scope IN
                       scopes' = Moved(t, s) /\ thread' = [thread EXCEPT ![t].parallelism = s]
                    /\ UNCHANGED <<domains, endpoint, kstacks, standing>>

\* -------------------------------------------------------------------------
\* The end: termination, reaping, and the handle that names the remains.

Held(d, s) == Cardinality({t \in Of(d) : thread[t].parallelism = s})

\* Mutant: the cell goes back to whichever endpoint has the slot.
CellsBackAny(d) == endpoint.reserved_cells - (IF domains[d].fault # 0 THEN 1 ELSE 0)

CellsBack(d) == endpoint.reserved_cells -
    (IF domains[d].fault # 0 /\ endpoint.used /\ endpoint.generation = domains[d].fault THEN 1 ELSE 0)

terminate_in(d) ==
    /\ domains[d].state \in Live
    /\ scopes' = [s \in Scopes |-> [scopes[s] EXCEPT !.parallelism = @ - Held(d, s)]]
    /\ thread' = [t \in Threads |-> IF t \in Of(d) THEN [thread[t] EXCEPT !.state = "Dead", !.parallelism = NoScope]
                                    ELSE thread[t]]
    /\ endpoint' = [endpoint EXCEPT !.reserved_cells = CellsBack(d)]
    /\ domains' = [domains EXCEPT ![d].state = "Stopping", ![d].fault = 0]
    /\ UNCHANGED <<kstacks, standing>>

\* Mutant: the threads are counted after their slots were emptied.
CountedAfter(d) == 1

Counted(d) == IF Of(d) = {} THEN 1 ELSE Cardinality(Of(d))

reap_dead(d) ==
    /\ domains[d].state = "Stopping" /\ Of(d) \cap standing = {}
    /\ kstacks' = kstacks - Cardinality(Of(d))
    /\ scopes' = [scopes EXCEPT ![domains[d].scope] =
                    [@ EXCEPT !.pages = @ - domains[d].pages, !.metadata = @ - domains[d].metadata,
                              !.threads = @ - Counted(d)]]
    /\ thread' = [t \in Threads |-> IF t \in Of(d) THEN Unused ELSE thread[t]]
    /\ domains' = [domains EXCEPT ![d].state = "Dead", ![d].pages = 0, ![d].metadata = 0]
    /\ UNCHANGED <<endpoint, standing>>

Close(d) == /\ domains[d].state # "Empty" /\ domains[d].refs > 0
            /\ domains' = [domains EXCEPT ![d].refs = 0]
            /\ UNCHANGED <<scopes, thread, endpoint, kstacks, standing>>

\* The endpoint's scope retires, and its slot is taken again.
EndpointRetires == /\ endpoint.used
                   /\ endpoint' = [endpoint EXCEPT !.used = FALSE, !.reserved_cells = 0]
                   /\ UNCHANGED <<domains, scopes, thread, kstacks, standing>>
EndpointCreated == /\ ~endpoint.used /\ endpoint.generation < MaxEndpoint
                   /\ endpoint' = [used |-> TRUE, generation |-> endpoint.generation + 1, reserved_cells |-> 0]
                   /\ UNCHANGED <<domains, scopes, thread, kstacks, standing>>

Next == \/ \E s \in Scopes : create_in(s) \/ createFails(s)
        \/ \E d \in Slots : \/ map(d) \/ add_thread_in(d) \/ set_fault_channel(d) \/ activate_in(d)
                            \/ terminate_in(d) \/ reap_dead(d) \/ Close(d)
        \/ \E t \in Threads : \/ Runs(t) \/ Leaves(t) \/ unbind_worker(t)
                              \/ \E s \in Scopes : bind_worker(t, s)
        \/ EndpointRetires \/ EndpointCreated

Spec == Init /\ [][Next]_vars

Paying(s) == {d \in Slots : Charged(d) /\ domains[d].scope = s}

\* A scope is charged exactly what the domains it pays for hold, at every step
\* of every construction, borrowing, death and reuse: pages, objects, threads
\* and the slots of its parallelism; a kernel stack belongs to a thread; and an
\* endpoint keeps a cell for each domain whose faults it would hear.
ChargesMatch ==
    /\ \A s \in Scopes :
         /\ scopes[s].pages = MapThenSumSet(LAMBDA d : domains[d].pages, Paying(s))
         /\ scopes[s].metadata = MapThenSumSet(LAMBDA d : domains[d].metadata, Paying(s))
         /\ scopes[s].threads = MapThenSumSet(LAMBDA d : Cardinality(Of(d)), Paying(s))
         /\ scopes[s].parallelism =
              Cardinality({t \in Threads : thread[t].state \notin {"Unused", "Dead"} /\ thread[t].parallelism = s})
    /\ kstacks = Cardinality(Threads) - Cardinality(FreeThreads)
    /\ endpoint.reserved_cells =
         Cardinality({d \in Slots : /\ domains[d].state \in Live /\ endpoint.used
                                    /\ domains[d].fault = endpoint.generation})
=============================================================================
