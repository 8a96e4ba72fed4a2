---------------------------- MODULE MCKernelParts ---------------------------
(***************************************************************************)
(* The parts of the kernel that keep state of their own, each on a small   *)
(* instance.  A behaviour is one of one part, chosen at the start: the     *)
(* slots v1, v2, ... hold that part's variables, and the rest nothing.     *)
(***************************************************************************)
EXTENDS Naturals, Sequences, TLC

CONSTANTS Callers, Cells, Places, Grants, Absent

VARIABLES part, v1, v2, v3, v4, v5, v6, v7, v8, v9, v10, v11, v12, v13, v14, v15,
                v16, v17, v18

vars == <<part, v1, v2, v3, v4, v5, v6, v7, v8, v9, v10, v11, v12, v13, v14, v15,
                v16, v17, v18>>

\* Packages of up to three programs of up to three pages, with a supervisor
\* among them or without one.
Program(kind, pages) == [kind |-> kind, pages |-> pages]
Programs == {Program("user_elf", n) : n \in 0 .. 3}
SmallPackages ==
    {<<Program("supervisor", 1), a, b, c>> : a \in Programs, b \in Programs, c \in Programs}
    \cup {<<a, Program("other", 1), b>> : a \in Programs, b \in Programs}

\* An operation of each path through `invoke`.
Op(name, path, reads, responds, reaps, observes) ==
    [name |-> name, path |-> path, reads |-> reads, responds |-> responds,
     reaps |-> reaps, observes |-> observes]
RoundTrip ==
    {Op("CAP_DERIVE", "shared", TRUE, TRUE, "no", FALSE),
     Op("CAP_CLOSE", "release", FALSE, FALSE, "no", TRUE),
     Op("SCOPE_RETIRE", "exclusive", TRUE, TRUE, "before", FALSE),
     Op("DOMAIN_TERMINATE", "exclusive", FALSE, FALSE, "after", FALSE)}

\* Four frames, one that no region describes and one reserved.
F == INSTANCE Frames WITH
    Frames <- 4, Unavailable <- {1}, Reserved <- {3}, Below <- 3, Owners <- Callers,
    Slots <- 1, MaxStamp <- 2, Registers <- FALSE, free <- v1, hint <- v2,
    charged <- v3, quarantine <- v4, retained <- v5, stamp <- v6, safe <- v7,
    holder <- v8, answer <- v9

\* One object that two threads map, seal and lend to a device.
M == INSTANCE Memory WITH
    Objects <- {"o"}, Domains <- {"d"}, Callers <- Callers, MapSlots <- Cells,
    GrantSlots <- {"g"}, MaxGeneration <- 2, MaxRefs <- 1, Retires <- FALSE,
    memories <- v1, maps <- v2, grants <- v3, stale <- v4, alive <- v5, job <- v6,
    pages <- v7

\* One function with two interrupts, through one change of session.
D == INSTANCE Devices WITH
    Domains <- {"d"}, Callers <- Callers, MapSlots <- {"m"}, Grants <- {"g"},
    Entries <- Cells, IrqSlots <- Places, MaxSession <- 2, MaxDomain <- 2,
    Rearms <- FALSE, Late <- FALSE, device <- v1, region <- v2, device_maps <- v3,
    irqs <- v4, dma_grants <- v5, domain <- v6, reset <- v7, hw <- v8, table <- v9,
    flying <- v10, claimed <- v11

\* A function of two windows whose capability list may loop.
P == INSTANCE Discovery WITH
    Pointers <- 1 .. 2, CAP_WALK_LIMIT <- 3, Structures <- {1}, PAGE_SIZE <- 2,
    Bars <- <<4, 0>>, MaxVectors <- 2, MaxOffset <- 3, MaxLength <- 2,
    MaxFunctions <- 1, stage <- v1, functions <- v2, command <- v3, next <- v4,
    pointer <- v5, seen <- v6, virtio <- v7, msix <- v8, regions <- v9

\* Two threads, one signal of two bits and two timers.
E == INSTANCE Events WITH
    Threads <- Callers, Bits <- Cells, Signals <- {"s"}, Timers <- Places,
    MaxTime <- 1, MaxGeneration <- 1, MaxWaiters <- 2, Recycled <- FALSE,
    signals <- v1, timers <- v2, thread <- v3, now <- v4, NEXT_TIMER <- v5,
    due <- v6

\* The same with one bit, the slot of the signal being used again.
R == INSTANCE Events WITH
    Threads <- Callers, Bits <- {"b"}, Signals <- {"s"}, Timers <- Places,
    MaxTime <- 2, MaxGeneration <- 2, MaxWaiters <- 2, Recycled <- FALSE,
    signals <- v1, timers <- v2, thread <- v3, now <- v4, NEXT_TIMER <- v5,
    due <- v6

\* A log of four cells that two admissions fill.
C == INSTANCE ControlLog WITH
    Admissions <- {"a", "b"}, CAPACITY <- 4, RESERVED <- 2, BATCH <- 2,
    MaxSequence <- 6, MaxLost <- 2, records <- v1, next_sequence <- v2,
    oldest_sequence <- v3, lost <- v4, coalesced <- v5, pending_reservations <- v6,
    readers <- v7, admission <- v8, reader <- v9

\* Two scopes that pay for two domains of up to two threads.
N == INSTANCE Domains WITH
    Scopes <- Places, Slots <- Cells, Threads <- Callers, NoScope <- Absent,
    ThreadsPerDomain <- 2, PageLimit <- 5, ThreadLimit <- 2, ImagePages <- 1,
    TableReserve <- 1, MapReserve <- 1, Capacity <- 3, MaxCreations <- 2,
    MaxEndpoint <- 2, MaxMaps <- 1, domains <- v1, scopes <- v2, thread <- v3,
    endpoint <- v4, kstacks <- v5, standing <- v6

\* Up to two devices and three programs, one more than there are slots.
B == INSTANCE Boot WITH
    MAX_DEVICES <- 3, Found <- {{}, {0}, {1}, {0, 1}}, Packages <- SmallPackages,
    FIRST_DEVICE <- 4, FIRST_MODULE <- 6, MAX_CAPS <- 8, MAX_OBJECT_PAGES <- 2,
    FreeFrames <- {2, 6}, Metadata <- 9, pc <- v1, package <- v2, devices <- v3,
    tables <- v4, objects <- v5, loader <- v6, frames <- v7, metadata <- v8,
    next <- v9, count <- v10, running <- v11

\* Three described processors besides the one that boots.
S == INSTANCE Smp WITH
    Described <- 3, MAX_CPUS <- 3, Late <- FALSE, bsp <- v1, entry <- v2,
    next <- v3, params <- v4, identity <- v5, alive <- v6, online <- v7,
    parked <- v8, shutdown <- v9, expected <- v10, ap <- v11, slotOf <- v12,
    given <- v13

\* A descriptor of two pages; three changes of the space around it.
I == INSTANCE Invoke WITH
    Operations <- RoundTrip, Pages <- 1 .. 2, Frames <- Grants, None <- Absent,
    MaxEntries <- 2, MaxChanges <- 3, REFUSAL_RECORD_LIMIT <- 1, step <- v1,
    call <- v2, page <- v3, frame <- v4, staged <- v5, filled <- v6, code <- v7,
    hold <- v8, found <- v9, table <- v10, holder <- v11, content <- v12,
    lineage <- v13, acted <- v14, reached <- v15, refusals <- v16, entries <- v17,
    changes <- v18

\* Images of up to three program headers in a space of four pages.
X == INSTANCE Elf WITH
    PAGE_SIZE <- 2, USER_MIN_ADDR <- 2, USER_MAX_ADDR <- 8, Wrap <- 16,
    MAX_SEGMENTS <- 2, MAX_IMAGE_PAGES <- 3, ImageLength <- 2, MaxHeaders <- 3,
    Offsets <- {0, 1}, Addresses <- {0, 2, 3, 4, 6, 14}, FileSizes <- {0, 2},
    MemorySizes <- {0, 1, 3}, Entries <- {3, 5}, verdict <- v1, segments <- v2,
    pages <- v3, entry <- v4, left <- v5

\* Two domains, three grants, and one slot whose generations are spent.
A == INSTANCE Authority WITH
    Threads <- {"t1", "t2"}, Domains <- {"A", "B"},
    DomainOf <- ("t1" :> "A") @@ ("t2" :> "B"), Root <- "A", MaxSlot <- 2,
    MaxNode <- 3, MaxDepth <- 2, Spent <- {<<"A", 2>>}, MaxRetired <- 2,
    Ids <- Grants, MaxBarriers <- 1, Untold <- FALSE, Overtaken <- FALSE,
    table <- v1, node <- v2, th <- v3, open <- v4, barred <- v5

-----------------------------------------------------------------------------
FInit == /\ part = "frames" /\ F!Init
         /\ v10 = 0 /\ v11 = 0 /\ v12 = 0 /\ v13 = 0 /\ v14 = 0 /\ v15 = 0
         /\ v16 = 0 /\ v17 = 0 /\ v18 = 0

FNext == /\ part = "frames" /\ F!Next
         /\ UNCHANGED <<part, v10, v11, v12, v13, v14, v15, v16, v17, v18>>

MInit == /\ part = "memory" /\ M!Init
         /\ v8 = 0 /\ v9 = 0 /\ v10 = 0 /\ v11 = 0 /\ v12 = 0 /\ v13 = 0
         /\ v14 = 0 /\ v15 = 0 /\ v16 = 0 /\ v17 = 0 /\ v18 = 0

MNext == /\ part = "memory" /\ M!Next
         /\ UNCHANGED <<part, v8, v9, v10, v11, v12, v13, v14, v15, v16, v17, v18>>

DInit == /\ part = "devices" /\ D!Init
         /\ v12 = 0 /\ v13 = 0 /\ v14 = 0 /\ v15 = 0 /\ v16 = 0 /\ v17 = 0
         /\ v18 = 0

DNext == /\ part = "devices" /\ D!Next
         /\ UNCHANGED <<part, v12, v13, v14, v15, v16, v17, v18>>

PInit == /\ part = "discovery" /\ P!Init
         /\ v10 = 0 /\ v11 = 0 /\ v12 = 0 /\ v13 = 0 /\ v14 = 0 /\ v15 = 0
         /\ v16 = 0 /\ v17 = 0 /\ v18 = 0

PNext == /\ part = "discovery" /\ P!Next
         /\ UNCHANGED <<part, v10, v11, v12, v13, v14, v15, v16, v17, v18>>

EInit == /\ part = "events" /\ E!EventsInit
         /\ v7 = 0 /\ v8 = 0 /\ v9 = 0 /\ v10 = 0 /\ v11 = 0 /\ v12 = 0
         /\ v13 = 0 /\ v14 = 0 /\ v15 = 0 /\ v16 = 0 /\ v17 = 0 /\ v18 = 0

ENext == /\ part = "events" /\ E!EventsNext
         /\ UNCHANGED <<part, v7, v8, v9, v10, v11, v12, v13, v14, v15, v16, v17,
                        v18>>

RInit == /\ part = "reuse" /\ R!EventsInit
         /\ v7 = 0 /\ v8 = 0 /\ v9 = 0 /\ v10 = 0 /\ v11 = 0 /\ v12 = 0
         /\ v13 = 0 /\ v14 = 0 /\ v15 = 0 /\ v16 = 0 /\ v17 = 0 /\ v18 = 0

RNext == /\ part = "reuse" /\ R!EventsNext
         /\ UNCHANGED <<part, v7, v8, v9, v10, v11, v12, v13, v14, v15, v16, v17,
                        v18>>

CInit == /\ part = "log" /\ C!LogInit
         /\ v10 = 0 /\ v11 = 0 /\ v12 = 0 /\ v13 = 0 /\ v14 = 0 /\ v15 = 0
         /\ v16 = 0 /\ v17 = 0 /\ v18 = 0

CNext == /\ part = "log" /\ C!LogNext
         /\ UNCHANGED <<part, v10, v11, v12, v13, v14, v15, v16, v17, v18>>

NInit == /\ part = "domains" /\ N!Init
         /\ v7 = 0 /\ v8 = 0 /\ v9 = 0 /\ v10 = 0 /\ v11 = 0 /\ v12 = 0
         /\ v13 = 0 /\ v14 = 0 /\ v15 = 0 /\ v16 = 0 /\ v17 = 0 /\ v18 = 0

NNext == /\ part = "domains" /\ N!Next
         /\ UNCHANGED <<part, v7, v8, v9, v10, v11, v12, v13, v14, v15, v16, v17,
                        v18>>

BInit == /\ part = "boot" /\ B!Init
         /\ v12 = 0 /\ v13 = 0 /\ v14 = 0 /\ v15 = 0 /\ v16 = 0 /\ v17 = 0
         /\ v18 = 0

BNext == /\ part = "boot" /\ B!Next
         /\ UNCHANGED <<part, v12, v13, v14, v15, v16, v17, v18>>

SInit == /\ part = "smp" /\ S!SmpInit
         /\ v14 = 0 /\ v15 = 0 /\ v16 = 0 /\ v17 = 0 /\ v18 = 0

SNext == /\ part = "smp" /\ S!SmpNext
         /\ UNCHANGED <<part, v14, v15, v16, v17, v18>>

IInit == /\ part = "invoke" /\ I!EntryInit

INext == /\ part = "invoke" /\ I!EntryNext
         /\ UNCHANGED <<part>>

XInit == /\ part = "elf" /\ X!Init
         /\ v6 = 0 /\ v7 = 0 /\ v8 = 0 /\ v9 = 0 /\ v10 = 0 /\ v11 = 0
         /\ v12 = 0 /\ v13 = 0 /\ v14 = 0 /\ v15 = 0 /\ v16 = 0 /\ v17 = 0
         /\ v18 = 0

XNext == /\ part = "elf" /\ X!Next
         /\ UNCHANGED <<part, v6, v7, v8, v9, v10, v11, v12, v13, v14, v15, v16,
                        v17, v18>>

AInit == /\ part = "authority" /\ A!Init
         /\ v6 = 0 /\ v7 = 0 /\ v8 = 0 /\ v9 = 0 /\ v10 = 0 /\ v11 = 0
         /\ v12 = 0 /\ v13 = 0 /\ v14 = 0 /\ v15 = 0 /\ v16 = 0 /\ v17 = 0
         /\ v18 = 0

ANext == /\ part = "authority" /\ A!Next
         /\ UNCHANGED <<part, v6, v7, v8, v9, v10, v11, v12, v13, v14, v15, v16,
                        v17, v18>>

Init ==
    \/ FInit \/ MInit \/ DInit \/ PInit \/ EInit \/ RInit
    \/ CInit \/ NInit \/ BInit \/ SInit \/ IInit \/ XInit
    \/ AInit

Next ==
    \/ FNext \/ MNext \/ DNext \/ PNext \/ ENext \/ RNext
    \/ CNext \/ NNext \/ BNext \/ SNext \/ INext \/ XNext
    \/ ANext

Spec == Init /\ [][Next]_vars

-----------------------------------------------------------------------------
\* What is counted is what is there, at every step of every construction,
\* refusal, withdrawal and death: the frames charged to an owner (frame.rs),
\* the mappings and grants of a memory object (memops.rs), the pages, threads
\* and cells a scope pays for its domains (domain.rs), and the
\* references and the children of a grant between operations (api/mod.rs).
Counted ==
    /\ part = "frames" => F!Conserved
    /\ part = "memory" => M!CountsTrue
    /\ part = "domains" => N!ChargesMatch
    /\ part = "authority" => A!CountsTrue

\* Nothing is given up while somebody may still use it: a frame waits for the
\* flush of every processor (frame.rs), the bytes of a sealed object change
\* under no translation and no device (memops.rs, seal), and a page is taken
\* from a device only once it was stopped (devops.rs, reset and dma_unmap).
ReleasedLast ==
    [][/\ part = "frames" => F!WaitsForFlush
       /\ part = "memory" => M!SealedStays
       /\ part = "devices" => D!StoppedFirst]_vars

\* A handle keeps the grant it was given, and a grant the one it was derived
\* from, whatever is copied, moved, closed and collected around them on other
\* processors (api/mod.rs, cap_install, release_entry and collect_grant).
GrantsBacked == part = "authority" => A!EntryBacked /\ A!TombstoneKept

\* A barrier on a grant or a scope reaches every copy and every derivation,
\* in whatever table it is (capops.rs, fence; api/mod.rs, walk_lineage).
BarrierReaches == part = "authority" => A!BarrierReaches

\* No one sleeps on what has happened: not on a bit that is raised, nor on a
\* timer that is due (evtops.rs, events.rs), nor the auditor on a full batch,
\* whose records have no hole (ctrl.rs).
Woken ==
    /\ part = "events" => E!SignalHeard /\ E!TimerNoticed
    /\ part = "reuse" => R!SignalHeard /\ R!TimerNoticed
    /\ part = "log" => C!BatchHeard

\* A covered operation is recorded or refused: no receipt that was reserved
\* is lost, whatever else fills the log meanwhile (ctrl.rs).
CoveredRecorded == [][part = "log" => C!CoveredRecorded]_vars

\* A handler acts only on a header that was accepted and a capability that is
\* alive at that moment, whatever other threads wrote into the descriptor and
\* closed or fenced since the entry (api/mod.rs, invoke and shared).
ActsOnChecked == [][part = "invoke" => I!ActsOnChecked]_vars

\* Memory in use has one user: a copy from or to a descriptor touches no frame
\* that was given to somebody else since its page was translated (ucopy.rs),
\* and no two processors run on one stack or as one slot (smp.rs, start_one).
UsedAlone ==
    /\ part = "invoke" => I!CopiesOwned
    /\ part = "smp" => S!StacksApart

\* What a search or a check lets through is what its definition says: a run
\* of frames is refused only when there is none (frame.rs, take_run), a window
\* given to a driver meets no interrupt table and a looped list is walked once
\* (device.rs), and an accepted image can be mapped (elf.rs).
SearchesTrue ==
    /\ part = "frames" => F!SearchComplete
    /\ part = "discovery" => P!WindowsApart /\ P!WalkedOnce
    /\ part = "elf" => X!AcceptedMaps

\* A table says what is so: the interrupt entries of a device are the bindings
\* of its present session (devops.rs), and the supervisor's manifest is the
\* package's programs in order and without a hole (k2boot.rs).
TablesTrue ==
    /\ part = "devices" => D!TableMatches
    /\ part = "boot" => B!ManifestWhole

\* Each set is used alike by every part.
Symmetry == Permutations(Callers) \cup Permutations(Cells)
            \cup Permutations(Places) \cup Permutations(Grants)
=============================================================================
