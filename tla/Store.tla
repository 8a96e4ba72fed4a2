------------------------------- MODULE Store -------------------------------
(***************************************************************************)
(* The engine of the managed state service (user/k4store/src/state.rs)     *)
(* over the block protocol (user/k4store/src/disk.rs): a log of records in *)
(* one of two arenas, two superblocks, publication by prepare, objects and *)
(* commit, compaction into the other arena, and recovery.                  *)
(*                                                                         *)
(* A step is one block written or one flush.  Between two flushes a crash  *)
(* may keep or lose each block written since, or leave it torn.  A record  *)
(* carries the record it follows (`prev`); `life` stands for the times     *)
(* every record holds, which tell apart two records written at one         *)
(* sequence in different lives of the service.  The receipt of a           *)
(* publication is one more object and is left out.                         *)
(***************************************************************************)
EXTENDS Naturals, Sequences, FiniteSets, FiniteSetsExt, SequencesExt, TLC

CONSTANTS Principals,   \* who publishes
          Roots,        \* candidate roots
          Deps,         \* the objects each root reaches
          Intents,      \* roots published with an intent for a broker
          NoRoot,       \* no version
          Torn,         \* what no parser accepts
          Nobody,       \* no principal
          Holdable,     \* roots that may be retained
          ArenaBlocks,  \* ARENA_BLOCK_COUNT
          Reserve,      \* CLOSURE_RESERVE_BLOCKS + COMPACTION_RESERVE_BLOCKS
          MaxResults,   \* MAX_RESULTS
          MaxSequence,  \* bound: requests of a principal
          MaxCompacts,  \* bound: compactions
          MaxTroubles,  \* bound: crashes and block requests that fail
          Replaced,     \* may a service be replaced between a write and its flush
          Persists,     \* does the service go on when it cannot tell what the
                        \* medium holds
          ReadFaults    \* may recovery fail to read a block

ASSUME /\ \A r \in Roots : IsFiniteSet(Deps[r])
       /\ Intents \cup Holdable \subseteq Roots /\ NoRoot \notin Roots
       /\ {ArenaBlocks, MaxResults} \subseteq Nat \ {0}
       /\ {Reserve, MaxSequence, MaxCompacts, MaxTroubles} \subseteq Nat
       /\ {Replaced, Persists, ReadFaults} \subseteq BOOLEAN

Objects == UNION {Deps[r] : r \in Roots}
Blocks == 1 .. 2 * ArenaBlocks
SuperA == 2 * ArenaBlocks + 1
SuperB == SuperA + 1
Supers == {SuperA, SuperB}
All == Blocks \cup Supers

VARIABLES view,     \* what a read of each block returns
          stable,   \* what each block may hold after a crash
          store,    \* the service's memory
          job,      \* the operation it is in
          life,     \* crashes and failed requests so far
          told,     \* outcomes the service ever had as its answer
          shown     \* the version it shows, or the next one will recover

vars == <<view, stable, store, job, life, told, shown>>

NoPending == [p |-> Nobody, rs |-> 0, seq |-> 0, digest |-> <<>>, root |-> NoRoot]
NoJob == [op |-> "none", step |-> "", p |-> Nobody, rs |-> 0, root |-> NoRoot,
          todo |-> {}, prepare |-> NoPending]

\* The memory of a service that has read nothing.
Fresh ==
    [ready |-> FALSE, failed |-> FALSE, stuck |-> FALSE, arena |-> 0,
     next |-> 1, seq |-> 1, prev |-> <<>>, checkpoint |-> 0,
     super |-> [slot |-> SuperA, generation |-> 0],
     published |-> [generation |-> 0, root |-> NoRoot],
     objects |-> <<>>, high |-> [p \in Principals |-> 0],
     pending_of |-> [p \in Principals |-> 0],
     results |-> <<>>, evict |-> 1, retained |-> {}, pending |-> NoPending]

Init ==
    /\ view = [b \in All |-> Torn]
    /\ stable = [b \in All |-> {Torn}]
    /\ store = Fresh
    /\ job = [NoJob EXCEPT !.op = "recover"]
    /\ life = 0
    /\ told = {}
    /\ shown = [generation |-> 0, root |-> NoRoot]

----------------------------------------------------------------------------
(* The medium. *)

Trouble == life < MaxTroubles /\ life' = life + 1

Write(b, rec) ==
    /\ view' = [view EXCEPT ![b] = rec]
    /\ stable' = [stable EXCEPT ![b] = @ \cup {rec, Torn}]
    /\ UNCHANGED life

\* A request that was not answered: the write may have happened.
WriteFails(b, rec) ==
    /\ Trouble
    /\ \E v \in {view[b], rec} : view' = [view EXCEPT ![b] = v]
    /\ stable' = [stable EXCEPT ![b] = @ \cup {rec, Torn}]

Flush ==
    /\ stable' = [b \in All |-> {view[b]}]
    /\ UNCHANGED <<view, life>>

\* A flush that failed may have made anything durable, or nothing.
FlushFails ==
    /\ Trouble
    /\ UNCHANGED <<view, stable>>

----------------------------------------------------------------------------
(* The log. *)

Start(arena) == arena * ArenaBlocks + 1
End(arena) == Start(arena) + ArenaBlocks
free_blocks == IF store.next >= End(store.arena) THEN 0
               ELSE End(store.arena) - store.next
Digest(rec) == <<rec.seq, rec.life>>

\* `append` frames a record at the end of the log.
Frame(st, kind, body) ==
    [kind |-> kind, seq |-> st.seq, arena |-> st.arena, prev |-> st.prev,
     life |-> life, body |-> body]

Appended(st, rec) ==
    [st EXCEPT !.next = @ + 1, !.seq = @ + 1, !.prev = Digest(rec)]

HasRoom(st) == st.next < End(st.arena)

\* `record_result`: one result per request, the oldest giving way.
record_result(st, entry) ==
    LET at == {k \in DOMAIN st.results : /\ st.results[k].p = entry.p
                                         /\ st.results[k].rs = entry.rs}
    IN  IF at # {} THEN [st EXCEPT !.results[Min(at)] = entry]
        ELSE IF Len(st.results) < MaxResults
        THEN [st EXCEPT !.results = Append(@, entry)]
        ELSE [st EXCEPT !.results[st.evict] = entry,
                        !.evict = (@ % MaxResults) + 1]

Result(p, rs, outcome, version) ==
    [p |-> p, rs |-> rs, outcome |-> outcome, generation |-> version.generation,
     root |-> version.root, outbox |-> FALSE]

NoVersion == [generation |-> 0, root |-> NoRoot]

\* The request is over: its result is held and its number is spent.
Closed(st, entry) ==
    [record_result(st, entry) EXCEPT !.high[entry.p] = entry.rs,
                                     !.pending_of[entry.p] = 0,
                                     !.pending = NoPending]

Committed(st, p, rs, version) ==
    Closed([st EXCEPT !.published = version], Result(p, rs, "committed", version))

Aborted(st, p, rs) == Closed(st, Result(p, rs, "aborted", NoVersion))

\* `record_outbox` and the replay of its record.
Recorded(st, p, rs) ==
    [st EXCEPT !.results = [k \in DOMAIN @ |->
        IF @[k].p = p /\ @[k].rs = rs THEN [@[k] EXCEPT !.outbox = TRUE] ELSE @[k]]]

\* What the service answers of finished requests, outbox apart.
Answers(st) ==
    {[st.results[k] EXCEPT !.outbox = FALSE] : k \in DOMAIN st.results}

Prepared(st, p, rs, root, digest) ==
    [st EXCEPT !.pending = [p |-> p, rs |-> rs, seq |-> digest[1],
                            digest |-> digest, root |-> root],
               !.pending_of[p] = rs]

\* `closure`: every object of the root is known.
Whole(st, root) == Deps[root] \subseteq DOMAIN st.objects

Adopted(st, o, block) == [st EXCEPT !.objects = (o :> block) @@ @]

----------------------------------------------------------------------------
(* Publication. *)

Idle == store.ready /\ ~store.stuck /\ job.op = "none"

\* The operation ends with an error.  `lost` says that the service no longer
\* knows what the medium holds.
GiveUp(st, lost) ==
    /\ store' = [st EXCEPT !.stuck = lost /\ ~Persists]
    /\ job' = NoJob
    /\ UNCHANGED <<told, shown>>

GoOn(st, step) ==
    /\ store' = st
    /\ job' = [job EXCEPT !.step = step]
    /\ UNCHANGED <<told, shown>>

\* A record is appended, or the block could not be written.
Appends(kind, body, st, step, lost) ==
    LET rec == Frame(st, kind, body)
    IN  \/ HasRoom(st) /\ Write(st.next, rec) /\ GoOn(Appended(st, rec), step)
        \/ HasRoom(st) /\ WriteFails(st.next, rec) /\ GiveUp(st, lost)

Missing(root) == Deps[root] \ DOMAIN store.objects

\* `admit`: the principal's next request, room for it and for closing it.
admit(p, rs, root) ==
    /\ rs = store.high[p] + 1 /\ rs <= MaxSequence
    /\ store.pending_of[p] \in {0, rs}
    /\ free_blocks >= Cardinality(Missing(root)) + 3
                          + (IF root \in Intents THEN 1 ELSE 0) + Reserve

\* `publish`: first the record that says what is about to be published.
Publish(p, root) ==
    LET rs == store.high[p] + 1
        body == [p |-> p, rs |-> rs, root |-> root]
        rec == Frame(store, "prepare", body)
    IN  /\ Idle /\ admit(p, rs, root)
        /\ \/ /\ Write(store.next, rec)
              /\ store' = Appended(store, rec)
              /\ job' = [NoJob EXCEPT !.op = "publish", !.step = "prepare", !.p = p,
                                      !.rs = rs, !.root = root]
              /\ UNCHANGED <<told, shown>>
           \/ WriteFails(store.next, rec) /\ GiveUp(store, FALSE)

At(op, step) == job.op = op /\ job.step = step

FlushPrepare ==
    /\ At("publish", "prepare")
    /\ \/ /\ Flush
          /\ store' = Prepared(store, job.p, job.rs, job.root, store.prev)
          /\ job' = [job EXCEPT !.step = "objects", !.prepare = store'.pending,
                                !.todo = Missing(job.root)]
          /\ UNCHANGED <<told, shown>>
       \/ FlushFails /\ GiveUp(store, FALSE)

\* `write_object`, for every object that is not durable yet.
WriteObject ==
    /\ At("publish", "objects") /\ job.todo # {}
    /\ LET o == CHOOSE x \in job.todo : TRUE
           rec == Frame(store, "object", o)
       IN  \/ /\ Write(store.next, rec)
              /\ store' = Adopted(Appended(store, rec), o, store.next)
              /\ job' = [job EXCEPT !.todo = @ \ {o}]
              /\ UNCHANGED <<told, shown>>
           \/ WriteFails(store.next, rec) /\ GiveUp(store, FALSE)

FlushObjects ==
    /\ At("publish", "objects") /\ job.todo = {}
    /\ \/ Flush /\ GoOn(store, "commit")
       \/ FlushFails /\ GiveUp(store, FALSE)

NextVersion(root) ==
    [generation |-> store.published.generation + 1, root |-> root]

\* The commit record, when the control log has room for it and its flush.
AppendCommit ==
    /\ At("publish", "commit")
    /\ \/ Appends("commit", [p |-> job.p, rs |-> job.rs,
                             version |-> NextVersion(job.root),
                             prepare |-> job.prepare.seq,
                             digest |-> job.prepare.digest],
                  store, "publish", TRUE)
       \/ /\ Trouble
          /\ GiveUp(store, FALSE) /\ UNCHANGED <<view, stable>>

\* Mutant: the version is published before its commit is durable.
FlushCommitNot ==
    /\ At("publish", "publish")
    /\ store' = Committed(store, job.p, job.rs, NextVersion(job.root))
    /\ job' = NoJob
    /\ told' = told \cup Answers(store')
    /\ shown' = store'.published
    /\ UNCHANGED <<view, stable, life>>

\* The commit is durable: the version is published and the caller answered.
FlushCommit ==
    /\ At("publish", "publish")
    /\ \/ /\ Flush
          /\ store' = Committed(store, job.p, job.rs, NextVersion(job.root))
          /\ job' = IF job.root \in Intents THEN [job EXCEPT !.step = "outbox"] ELSE NoJob
          /\ told' = told \cup Answers(store')
          /\ shown' = store'.published
       \/ FlushFails /\ GiveUp(store, TRUE)

\* `resolve_outbox`: the broker answers, and what it said is recorded.
AppendOutbox ==
    /\ At("publish", "outbox")
    /\ Appends("outbox", [p |-> job.p, rs |-> job.rs], store, "recorded", FALSE)

FlushOutbox ==
    /\ At("publish", "recorded")
    /\ \/ Flush /\ store' = Recorded(store, job.p, job.rs) /\ job' = NoJob
          /\ UNCHANGED <<told, shown>>
       \/ FlushFails /\ GiveUp(store, FALSE)

----------------------------------------------------------------------------
(* Retention and compaction. *)

retain(root) ==
    /\ Idle /\ root \in DOMAIN store.objects /\ root \notin store.retained
    /\ store' = [store EXCEPT !.retained = @ \cup {root}]
    /\ UNCHANGED <<view, stable, job, life, told, shown>>

release(root) ==
    /\ Idle /\ root \in store.retained
    /\ store' = [store EXCEPT !.retained = @ \ {root}]
    /\ UNCHANGED <<view, stable, job, life, told, shown>>

\* The roots whose objects a compaction copies, and a sweep keeps.
Held(st) ==
    (IF st.published.generation = 0 THEN {} ELSE {st.published.root})
        \cup {r \in st.retained : Whole(st, r)}

Reachable(st) == UNION {Deps[r] : r \in Held(st)}

\* `write_checkpoint` opens an arena: it follows nothing.
Opened(st, arena) ==
    [st EXCEPT !.arena = arena, !.next = Start(arena), !.prev = <<>>]

CheckpointBody(st) ==
    [published |-> st.published, high |-> st.high, pending_of |-> st.pending_of,
     results |-> st.results, retained |-> st.retained]

Checkpointed(st, rec) == [Appended(st, rec) EXCEPT !.checkpoint = rec.seq]

Compact ==
    LET st == Opened(store, 1 - store.arena)
        rec == Frame(st, "checkpoint", CheckpointBody(st))
    IN  /\ Idle /\ store.pending = NoPending
        /\ store.super.generation <= MaxCompacts
        /\ Cardinality(Reachable(store)) + 1 <= ArenaBlocks
        /\ \/ /\ Write(st.next, rec)
              /\ store' = Checkpointed(st, rec)
              /\ job' = [NoJob EXCEPT !.op = "compact", !.step = "copy",
                                      !.todo = Reachable(store)]
              /\ UNCHANGED <<told, shown>>
           \/ /\ WriteFails(st.next, rec)
              /\ GiveUp([st EXCEPT !.arena = store.arena], TRUE)

\* `load` finds the object where the index says it is.
Loads(st, o) ==
    LET rec == view[st.objects[o]]
    IN  rec # Torn /\ rec.kind = "object" /\ rec.body = o

CopyObject ==
    /\ At("compact", "copy") /\ job.todo # {}
    /\ LET o == CHOOSE x \in job.todo : TRUE
           rec == Frame(store, "object", o)
       IN  \/ /\ Loads(store, o)
              /\ Write(store.next, rec)
              /\ store' = Adopted(Appended(store, rec), o, store.next)
              /\ job' = [job EXCEPT !.todo = @ \ {o}]
              /\ UNCHANGED <<told, shown>>
           \/ WriteFails(store.next, rec) /\ GiveUp(store, TRUE)

\* Mutant: the superblock is switched before the copies are durable.
FlushCopyNot ==
    /\ At("compact", "copy") /\ job.todo = {}
    /\ GoOn(store, "switch") /\ UNCHANGED <<view, stable, life>>

FlushCopy ==
    /\ At("compact", "copy") /\ job.todo = {}
    /\ \/ Flush /\ GoOn(store, "switch")
       \/ FlushFails /\ GiveUp(store, TRUE)

\* `write_superblock`.
Super(st, generation) ==
    [generation |-> generation, arena |-> st.arena, checkpoint |-> st.checkpoint,
     through |-> st.seq - 1]

\* Mutant: the switch overwrites the superblock in use.
OtherSlotSame == store.super.slot

OtherSlot == IF store.super.slot = SuperA THEN SuperB ELSE SuperA

Switch ==
    /\ At("compact", "switch")
    /\ LET sb == Super(store, store.super.generation + 1)
       IN  \/ Write(OtherSlot, sb) /\ GoOn(store, "switched")
           \/ WriteFails(OtherSlot, sb) /\ GiveUp(store, TRUE)

\* Mutant: the index keeps the objects that were not copied.
FlushSwitchKeeps ==
    /\ At("compact", "switched")
    /\ Flush
    /\ store' = [store EXCEPT
          !.super = [slot |-> OtherSlot, generation |-> @.generation + 1]]
    /\ job' = NoJob
    /\ UNCHANGED <<told, shown>>

\* Objects that were only in the old arena are gone.
FlushSwitch ==
    /\ At("compact", "switched")
    /\ \/ /\ Flush
          /\ store' = [store EXCEPT
                !.super = [slot |-> OtherSlot, generation |-> @.generation + 1],
                !.objects = [o \in {x \in DOMAIN @ :
                                      /\ @[x] >= Start(store.arena)
                                      /\ @[x] < End(store.arena)} |-> @[o]]]
          /\ job' = NoJob
          /\ UNCHANGED <<told, shown>>
       \/ FlushFails /\ GiveUp(store, TRUE)

----------------------------------------------------------------------------
(* Recovery. *)

\* `format` writes a store where there is none.
Format ==
    LET st == Opened(store, 0)
        rec == Frame(st, "checkpoint", CheckpointBody(st))
    IN  \/ /\ Write(st.next, rec) /\ UNCHANGED <<told, shown>>
           /\ store' = Checkpointed(st, rec)
           /\ job' = [NoJob EXCEPT !.op = "format", !.step = "flush"]
        \/ WriteFails(st.next, rec) /\ GiveUp(st, FALSE)

FormatFlush ==
    /\ At("format", "flush")
    /\ \/ Flush /\ GoOn(store, "super")
       \/ FlushFails /\ GiveUp(store, FALSE)

FormatSuper ==
    /\ At("format", "super")
    /\ LET st == [store EXCEPT !.super = [slot |-> SuperA, generation |-> 1]]
       IN  \/ Write(SuperA, Super(st, 1)) /\ GoOn(st, "end")
           \/ WriteFails(SuperA, Super(st, 1)) /\ GiveUp(st, FALSE)

FormatEnd ==
    /\ At("format", "end")
    /\ \/ /\ Flush
          /\ store' = [store EXCEPT !.ready = TRUE]
          /\ job' = NoJob
          /\ UNCHANGED <<told, shown>>
       \/ FlushFails /\ GiveUp(store, FALSE)

\* The newer superblock the two blocks hold.
Chosen(v) ==
    CHOOSE s \in Supers : /\ v[s] # Torn
                          /\ \A t \in Supers : v[t] # Torn =>
                                v[s].generation >= v[t].generation

\* The record the chain says comes next.
Follows(st, rec) ==
    rec.seq = st.seq /\ rec.arena = st.arena /\ rec.prev = st.prev

\* `replay_record`: the state after a record, or "bad".
replay_record(st, rec, block) ==
    LET b == rec.body
    IN  CASE rec.kind = "object" -> Adopted(st, b, block)
          [] rec.kind = "prepare" -> Prepared(st, b.p, b.rs, b.root, Digest(rec))
          [] rec.kind = "commit" ->
                IF \/ st.pending.seq # b.prepare \/ st.pending.digest # b.digest
                   \/ st.pending.root # b.version.root
                THEN [st EXCEPT !.failed = TRUE]
                ELSE IF Whole(st, b.version.root)
                THEN Committed(st, b.p, b.rs, b.version) ELSE st
          [] rec.kind = "abort" -> Aborted(st, b.p, b.rs)
          [] rec.kind = "outbox" -> Recorded(st, b.p, b.rs)
          [] rec.kind = "checkpoint" -> [st EXCEPT !.failed = TRUE]

\* One block of the forward scan; `stuck` marks the end of the log.
Scan(v, st, block) ==
    IF \/ st.stuck \/ st.failed \/ v[block] = Torn
    THEN [st EXCEPT !.stuck = TRUE]
    ELSE IF ~Follows(st, v[block]) THEN [st EXCEPT !.stuck = TRUE]
    ELSE replay_record(Appended(st, v[block]), v[block], block)

\* `load_checkpoint`.
Loaded(st, rec) ==
    [Appended(st, rec) EXCEPT
        !.seq = rec.seq + 1,
        !.published = rec.body.published, !.high = rec.body.high,
        !.pending_of = rec.body.pending_of, !.results = rec.body.results,
        !.retained = rec.body.retained]

\* `replay`: the checkpoint the superblock names, then the records that chain
\* to it; fewer of them than were durable is a failure.
Replay(v) ==
    LET s == Chosen(v)
        sb == v[s]
        at == Start(sb.arena)
        first == v[at]
        st == [Fresh EXCEPT !.arena = sb.arena, !.next = at,
                            !.checkpoint = sb.checkpoint,
                            !.super = [slot |-> s, generation |-> sb.generation]]
        bad == [st EXCEPT !.failed = TRUE]
        scanned == FoldLeft(LAMBDA acc, k : Scan(v, acc, at + k), Loaded(st, first),
                            [k \in 1 .. ArenaBlocks - 1 |-> k])
    IN  IF first = Torn THEN bad
        ELSE IF \/ first.kind # "checkpoint" \/ first.seq # sb.checkpoint
                \/ first.arena # sb.arena
        THEN bad
        ELSE IF scanned.failed \/ scanned.seq - 1 < sb.through THEN bad
        ELSE [scanned EXCEPT !.stuck = FALSE]

\* `recover`: a store is formatted where no superblock is read; otherwise the
\* log is replayed, and a prepare it leaves unresolved is aborted first.
Recover ==
    /\ job.op = "recover"
    /\ \E unread \in IF ReadFaults THEN {{}} \cup {{b} : b \in Blocks} ELSE {{}} :
          LET v == [b \in All |-> IF b \in unread THEN Torn ELSE view[b]]
              st == Replay(v)
          IN  IF \A s \in Supers : v[s] = Torn
              THEN Format
              ELSE /\ IF st.failed \/ st.pending # NoPending
                      THEN store' = st
                      ELSE store' = [st EXCEPT !.ready = TRUE]
                   /\ job' = IF st.failed \/ st.pending = NoPending THEN NoJob
                             ELSE [NoJob EXCEPT !.op = "resolve", !.step = "abort"]
                   /\ told' = IF store'.ready THEN told \cup Answers(store') ELSE told
                   /\ UNCHANGED <<view, stable, life, shown>>

\* `resolve_pending`.
AppendAbort ==
    /\ At("resolve", "abort")
    /\ Appends("abort", [p |-> store.pending.p, rs |-> store.pending.rs],
               store, "flush", FALSE)

FlushAbort ==
    /\ At("resolve", "flush")
    /\ \/ /\ Flush
          /\ store' = [Aborted(store, store.pending.p, store.pending.rs)
                          EXCEPT !.ready = TRUE]
          /\ job' = NoJob
          /\ told' = told \cup Answers(store')
          /\ UNCHANGED shown
       \/ FlushFails /\ GiveUp(store, FALSE)

----------------------------------------------------------------------------
(* Faults. *)

Dirty == {b \in All : Cardinality(stable[b]) > 1}

Reborn ==
    /\ Trouble
    /\ store' = Fresh
    /\ job' = [NoJob EXCEPT !.op = "recover"]
    /\ UNCHANGED told

\* The version a medium holds.
Recovers(v) ==
    IF \A s \in Supers : v[s] = Torn THEN NoVersion ELSE Replay(v).published

\* The machine stops, and what was not flushed may be lost or torn.
Crash ==
    /\ Reborn
    /\ \E f \in [Dirty -> UNION {stable[b] : b \in Dirty}] :
          LET v == [b \in All |-> IF b \in Dirty THEN f[b] ELSE view[b]]
          IN  /\ \A b \in Dirty : f[b] \in stable[b]
              /\ view' = v
              /\ stable' = [b \in All |-> {v[b]}]
              /\ shown' = Recovers(v)

\* The service alone is replaced; the medium keeps what it was given.
Replace ==
    /\ Reborn
    /\ Replaced \/ Dirty = {}
    /\ shown' = Recovers(view)
    /\ UNCHANGED <<view, stable>>

Next ==
    \/ \E p \in Principals, r \in Roots : Publish(p, r)
    \/ FlushPrepare \/ WriteObject \/ FlushObjects \/ AppendCommit \/ FlushCommit
    \/ AppendOutbox \/ FlushOutbox
    \/ \E r \in Holdable : retain(r) \/ release(r)
    \/ Compact \/ CopyObject \/ FlushCopy \/ Switch \/ FlushSwitch
    \/ Recover \/ FormatFlush \/ FormatSuper \/ FormatEnd
    \/ AppendAbort \/ FlushAbort
    \/ Crash \/ Replace

Spec == Init /\ [][Next]_vars

----------------------------------------------------------------------------
(* Properties. *)

\* Once a request has an outcome, no later life of the service has another one
\* for it, and no two requests ever share a generation.
OneOutcome ==
    /\ \A e, f \in told : e.p = f.p /\ e.rs = f.rs => e = f
    /\ \A e, f \in told : e.generation = f.generation /\ e.generation # 0 => e = f

\* What was answered stays true: no outcome changes, and no life of the service
\* goes back before a version an earlier one reported committed, shows another
\* in its place, or takes its request as new (`publish`, `recover`,
\* `replay_record`).
AckedSurvives ==
    /\ OneOutcome
    /\ store.ready =>
          \A e \in told : e.outcome = "committed" =>
              /\ store.published.generation >= e.generation
              /\ store.published.generation = e.generation =>
                    store.published.root = e.root
              /\ store.high[e.p] >= e.rs

\* Everything the service serves is where its index says it is: the objects
\* of the published root and of the retained ones load from the medium, also
\* half-way through a compaction, and no crash makes a sound store refuse to
\* serve (`compact`, `load`, `closure`, `replay`).
ServedLoads ==
    /\ ~store.failed
    /\ store.ready => \A o \in Reachable(store) :
                         o \in DOMAIN store.objects /\ Loads(store, o)

V == INSTANCE Versions WITH generation <- shown.generation, root <- shown.root

\* The published version only ever changes by being succeeded by the next,
\* through crashes, replacements and compactions.
ImplementsVersions == V!Spec
============================================================================
