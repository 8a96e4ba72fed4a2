----------------------------- MODULE MCUserParts ----------------------------
(***************************************************************************)
(* The programs outside the kernel, each on a small instance.  A behaviour *)
(* is one of one program, chosen at the start.  The state service keeps    *)
(* its own variables; the slots v1, v2, ... hold another program's.        *)
(***************************************************************************)
EXTENDS Store

CONSTANTS r1, r2, x, Blobs, Nothing, Blank

VARIABLES part, v1, v2, v3, v4, v5, v6, v7, v8, v9, v10, v11, v12, v13, v14

all == <<vars, part, v1, v2, v3, v4, v5, v6, v7, v8, v9, v10, v11, v12, v13, v14>>

\* Two versions that share an object.
SharedDeps == (r1 :> {r1, x}) @@ (r2 :> {r2, x})

\* The workspaces of two principals, over two blobs and one policy.
W == INSTANCE Workspaces WITH
    MaxPrincipals <- 2, Blobs <- Blobs, Policies <- {"pol"}, Names <- {"n"},
    NoObject <- Nothing, MaxWorkspaces <- 1, MaxBindings <- 1, MaxStaged <- 4,
    MaxObjects <- 7, MaxProtected <- 8, Offered <- 1, MaxRetained <- 1,
    MaxGeneration <- 2, Foreign <- FALSE, Unpublished <- FALSE, staged <- v1,
    durable <- v2, lost <- v3, space <- v4, candidates <- v5, offered <- v6,
    published <- v7, generation <- v8, retained <- v9, pending <- v10, sound <- v11,
    gone <- v12

\* A work and its rival, of two legs each.
K == INSTANCE Works WITH
    Publisher <- "p", Rival <- "r", Zero <- Blank, Nothing <- Nothing, MaxLeg <- 2,
    Disciplined <- TRUE, Answered <- TRUE, versions <- v1, results <- v2, leg <- v3,
    asked <- v4, work <- v5

\* Every stage and scenario, with up to three requests.
S == INSTANCE Supervisor WITH
    MaxCaps <- 32, Shapes <- {"surface", "work", "engine"},
    Scenarios <- {"baseline", "rivals", "cancel"}, MaxAsked <- 3, Refuses <- FALSE,
    shape <- v1, scenario <- v2, table <- v3, todo <- v4, after <- v5, undo <- v6,
    turn <- v7, crash <- v8, up <- v9, request <- v10, asked <- v11, dead <- v12,
    finished <- v13, closing <- v14

\* A medium of two blocks behind a queue of two.
D == INSTANCE DiskDriver WITH
    Blocks <- Blobs, Values <- {"v"}, Blank <- Blank, Nothing <- Nothing,
    QUEUE_DEPTH <- 2, Offered <- {0, 4}, Wrap <- 4, Late <- FALSE,
    Rewrites <- FALSE, pc <- v1, queue <- v2, ring <- v3, device <- v4,
    memory <- v5, medium <- v6, latched <- v7, held <- v8, missed <- v9,
    request <- v10, reply <- v11, promised <- v12

\* A device that may post two entries it should not.
R == INSTANCE RingDriver WITH
    QUEUE_DEPTH <- 8, Offered <- {0, 2, 8}, Wrap <- 16, MaxPosted <- 2, pc <- v1,
    index <- v2, queue <- v3, ring <- v4, device <- v5, posted <- v6, believed <- v7

-----------------------------------------------------------------------------
StoreInit ==
    /\ part = "store"
    /\ v1 = 0 /\ v2 = 0 /\ v3 = 0 /\ v4 = 0 /\ v5 = 0 /\ v6 = 0 /\ v7 = 0
    /\ v8 = 0 /\ v9 = 0 /\ v10 = 0 /\ v11 = 0 /\ v12 = 0 /\ v13 = 0 /\ v14 = 0

StoreNext == /\ part = "store" /\ Next
             /\ UNCHANGED <<part, v1, v2, v3, v4, v5, v6, v7, v8, v9, v10, v11, v12, v13,
                          v14>>

WInit == /\ part = "workspaces" /\ W!Init
         /\ v13 = 0 /\ v14 = 0

WNext == /\ part = "workspaces" /\ W!Next
         /\ UNCHANGED <<vars, part, v13, v14>>

KInit == /\ part = "works" /\ K!Init
         /\ v6 = 0 /\ v7 = 0 /\ v8 = 0 /\ v9 = 0 /\ v10 = 0 /\ v11 = 0
         /\ v12 = 0 /\ v13 = 0 /\ v14 = 0

KNext == /\ part = "works" /\ K!Next
         /\ UNCHANGED <<vars, part, v6, v7, v8, v9, v10, v11, v12, v13, v14>>

SInit == /\ part = "supervisor" /\ S!Init

SNext == /\ part = "supervisor" /\ S!Next
         /\ UNCHANGED <<vars, part>>

DInit == /\ part = "disk" /\ D!Init
         /\ v13 = 0 /\ v14 = 0

DNext == /\ part = "disk" /\ D!Next
         /\ UNCHANGED <<vars, part, v13, v14>>

RInit == /\ part = "ring" /\ R!Init
         /\ v8 = 0 /\ v9 = 0 /\ v10 = 0 /\ v11 = 0 /\ v12 = 0 /\ v13 = 0
         /\ v14 = 0

RNext == /\ part = "ring" /\ R!Next
         /\ UNCHANGED <<vars, part, v8, v9, v10, v11, v12, v13, v14>>

PartsInit == /\ Init
             /\ StoreInit \/ WInit \/ KInit \/ SInit \/ DInit \/ RInit

PartsNext == StoreNext \/ WNext \/ KNext \/ SNext \/ DNext \/ RNext

PartsSpec == PartsInit /\ [][PartsNext]_all

-----------------------------------------------------------------------------
\* What a client may still name stays: what it put last, what its workspace
\* binds, the candidates it froze and the roots that are published or retained,
\* through sweeps, publications and compactions; no staging slot is lost, and
\* an admitted publication commits (k4store, protect, reclaim_staged, compact).
NameableStays ==
    part = "workspaces" =>
        W!NameableStays /\ W!RetainedWhole /\ W!StagingReturned /\ W!AdmittedCommits

\* No update is lost between the works: a version is made over the one it
\* replaces, from a tree the tool passed, and no request identity is spent
\* twice, whatever was cut on the way (k5work, attempt_with_runtime).
VersionsHonest ==
    part = "works" => K!OverTheLast /\ K!IdentitiesFresh /\ K!PublishedValidated

\* The supervisor's table never overflows and holds what the run still names
\* between requests, and a cut is reported as one (k5super, surface::run).
TableSettled ==
    part = "supervisor" => S!TableFits /\ S!TableSettled /\ S!CutReported

\* What a driver says of its device is true: a block has what the last answer
\* about it said (k4disk, serve), and the completion believed for a request is
\* that request's, whatever the used ring says (k3driver, validate_used).
DriversTrue ==
    /\ part = "disk" => D!AnswersTrue
    /\ part = "ring" => R!BelievedInOrder

\* Once the disk driver has latched no step changes a block (k4disk, Faults).
LatchedStays == [][part = "disk" => D!LatchedStays]_all

\* Principals are alike, and so are blobs and blocks.
Symmetry == Permutations(Principals) \cup Permutations(Blobs)
=============================================================================
