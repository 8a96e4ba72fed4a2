----------------------------- MODULE DiskDriver -----------------------------
(***************************************************************************)
(* The block driver the durability claims rest on: user/k4disk.  One       *)
(* thread serves one request at a time: it publishes a chain at head 0,    *)
(* waits for the device and answers.  The fault engine decides which       *)
(* writes reach the medium.                                                *)
(*                                                                         *)
(* A block is two sectors, so that a write can be torn; an extent of more  *)
(* blocks is one block to the medium and only told apart where the engine  *)
(* refuses to hold it.  Lengths are in sectors.  The counters the driver   *)
(* reports decide nothing and are left out.                                *)
(***************************************************************************)
EXTENDS Virtqueue

CONSTANTS
    Blocks, Values,  \* the blocks of the medium, what a caller writes
    Blank,           \* what the medium holds at first
    Nothing,         \* no request, no held write
    QUEUE_DEPTH,     \* entries the driver uses
    Offered,         \* queue sizes a device may offer
    Wrap,            \* the indices count modulo Wrap (2^16)
    Late,            \* a device that missed a deadline may answer after it
    Rewrites         \* a caller may name a block whose write is held

VARIABLES
    pc,        \* "start", "idle", "release", "wait" or "exit"
    queue,     \* struct Queue: size, avail, used, published
    ring,      \* what driver and device share: desc, kind, block, status
    device,    \* the device: what it has seen, what it has used, its entries
    memory,    \* the caller's buffer and the driver's block for a held write
    medium,    \* the blocks
    latched, held,  \* struct Faults: the latch, the block whose write is held
    missed,    \* the device has missed a deadline
    request,   \* the request being served
    reply,     \* the last answer: its request and status
    promised   \* what each block holds as far as callers were told

vars == <<pc, queue, ring, device, memory, medium, latched, held, missed, request, reply,
          promised>>

Whole(v) == <<v, v>>
SectorsPerBlock == 2
(* The first `len' sectors of a block replaced. *)
Put(old, new, len) == [i \in 1..SectorsPerBlock |-> IF i <= len THEN new[i] ELSE old[i]]

Init ==
    /\ pc = "start"
    /\ queue = [size |-> 0, avail |-> 0, used |-> 0, published |-> 0]
    /\ ring = [desc |-> [i \in 0..2 |-> Desc("status", 1, FALSE, 0)],
               kind |-> "flush", block |-> Nothing, status |-> "unset"]
    /\ device = [seen |-> 0, used |-> 0, len |-> [i \in 0..QUEUE_DEPTH - 1 |-> 0]]
    /\ memory = [iobuf |-> Whole(Blank), held |-> Whole(Blank)]
    /\ medium = [b \in Blocks |-> Whole(Blank)]
    /\ promised = medium
    /\ latched = FALSE /\ held = Nothing /\ missed = FALSE
    /\ request = Nothing /\ reply = Nothing

(* initialise: the handshake ends the program where the device confirms too  *)
(* little; otherwise the queue is as deep as both sides allow.               *)
initialise ==
    /\ pc = "start"
    /\ \/ \E offered \in Offered \ {0} :
             /\ queue' = [queue EXCEPT !.size = IF offered < QUEUE_DEPTH THEN offered
                                                ELSE QUEUE_DEPTH]
             /\ pc' = "idle"
       \/ pc' = "exit" /\ UNCHANGED queue
    /\ UNCHANGED <<ring, device, memory, medium, latched, held, missed, request, reply, promised>>

(* Queue::publish at head 0: header, data, status; a flush has no data. *)
\* Mutant: the header links straight to the status descriptor.
ChainOfUnlinked(addr, length) ==
    LET status == IF length = 0 THEN 1 ELSE 2
    IN  [i \in 0..2 |-> CASE i = 0      -> Desc("header", 1, TRUE, status)
                          [] i = status -> Desc("status", 1, FALSE, 0)
                          [] i = 1 /\ status = 2 -> Desc(addr, length, TRUE, status)
                          [] OTHER      -> ring.desc[i]]
ChainOf(addr, length) ==
    LET status == IF length = 0 THEN 1 ELSE 2
    IN  [i \in 0..2 |-> CASE i = 0      -> Desc("header", 1, TRUE, 1)
                          [] i = status -> Desc("status", 1, FALSE, 0)
                          [] i = 1 /\ status = 2 -> Desc(addr, length, TRUE, status)
                          [] OTHER      -> ring.desc[i]]

publish(base, kind, block, addr, length) ==
    /\ ring' = [desc |-> ChainOf(addr, length), kind |-> kind, block |-> block,
                status |-> "unset"]
    /\ queue' = [base EXCEPT !.published = length + 1, !.avail = (@ + 1) % Wrap]

Reply(asked, status) ==
    /\ reply' = [request |-> asked, status |-> status]
    /\ request' = Nothing
    /\ pc' = "idle"

-----------------------------------------------------------------------------

(* serve: what each operation does before it waits for the device.  A caller *)
(* fills the shared buffer before it asks for a write.                       *)
Asked(op, block, mode) == [op |-> op, block |-> block, mode |-> mode]
Names(b) == Rewrites \/ held # b

Transfers(asked, stage) == request' = asked /\ pc' = stage /\ reply' = Nothing

read(b) ==
    /\ pc = "idle" /\ Names(b)
    /\ publish(queue, "in", b, "iobuf", SectorsPerBlock)
    /\ Transfers(Asked("read", b, "none"), "wait")
    /\ UNCHANGED <<device, memory, medium, latched, held, missed, promised>>

(* write_with_faults: a write the engine lets through, whole or torn... *)
write(b, v, mode) ==
    /\ pc = "idle" /\ Names(b) /\ ~latched
    /\ memory' = [memory EXCEPT !.iobuf = Whole(v)]
    /\ publish(queue, "out", b, "iobuf", IF mode = "tear" THEN 1 ELSE SectorsPerBlock)
    /\ Transfers(Asked("write", b, mode), "wait")
    /\ UNCHANGED <<device, medium, latched, held, missed, promised>>

(* ...one it answers and does not issue... *)
suppress(b, v, mode) ==
    /\ pc = "idle" /\ Names(b)
    /\ memory' = [memory EXCEPT !.iobuf = Whole(v)]
    /\ Reply(Asked("write", b, mode),
             IF latched THEN "latched" ELSE IF mode = "drop" THEN "ok" ELSE "io_error")
    /\ UNCHANGED <<queue, ring, device, medium, latched, held, missed, promised>>

(* ...and one it holds, if it is a single block and none is held yet. *)
hold(b, v, single) ==
    /\ pc = "idle" /\ Names(b) /\ ~latched
    /\ IF single /\ held = Nothing
       THEN /\ held' = b
            /\ memory' = [iobuf |-> Whole(v), held |-> Whole(v)]
            /\ promised' = [promised EXCEPT ![b] = Whole(v)]
            /\ Reply(Asked("write", b, "reorder"), "ok")
       ELSE /\ memory' = [memory EXCEPT !.iobuf = Whole(v)]
            /\ Reply(Asked("write", b, "reorder"), "invalid")
            /\ UNCHANGED <<held, promised>>
    /\ UNCHANGED <<queue, ring, device, medium, latched, missed>>

(* A flush releases a held write first. *)
\* Mutant: the held write is released before the latch is looked at.
flushReleased ==
    /\ pc = "idle"
    /\ IF held # Nothing
       THEN publish(queue, "out", held, "held", SectorsPerBlock)
            /\ Transfers(Asked("flush", Nothing, "none"), "release")
       ELSE IF latched THEN Reply(Asked("flush", Nothing, "none"), "latched")
                            /\ UNCHANGED <<queue, ring>>
       ELSE publish(queue, "flush", Nothing, "iobuf", 0)
            /\ Transfers(Asked("flush", Nothing, "none"), "wait")
    /\ held' = Nothing
    /\ UNCHANGED <<device, memory, medium, latched, missed, promised>>
flush ==
    /\ pc = "idle"
    /\ \/ /\ latched
          /\ Reply(Asked("flush", Nothing, "none"), "latched")
          /\ UNCHANGED <<queue, ring, held>>
       \/ /\ ~latched /\ held # Nothing
          /\ publish(queue, "out", held, "held", SectorsPerBlock)
          /\ Transfers(Asked("flush", Nothing, "none"), "release")
          /\ held' = Nothing
       \/ /\ ~latched /\ held = Nothing
          /\ publish(queue, "flush", Nothing, "iobuf", 0)
          /\ Transfers(Asked("flush", Nothing, "none"), "wait")
          /\ UNCHANGED held
    /\ UNCHANGED <<device, memory, medium, latched, missed, promised>>

latch ==
    /\ pc = "idle"
    /\ latched' = TRUE /\ held' = Nothing
    /\ promised' = [b \in Blocks |-> IF b = held THEN medium[b] ELSE promised[b]]
    /\ Reply(Asked("latch", Nothing, "none"), "ok")
    /\ UNCHANGED <<queue, ring, device, memory, medium, missed>>

(* A message too short, an operation or a range the service does not know. *)
invalid ==
    /\ pc = "idle"
    /\ Reply(Asked("invalid", Nothing, "none"), "invalid")
    /\ UNCHANGED <<queue, ring, device, memory, medium, latched, held, missed, promised>>

-----------------------------------------------------------------------------

(* Queue::consume: a completion is there, and is one that may be believed. *)
Consumable ==
    LET distance == Distance(device.used, queue.used, Wrap)
    IN  /\ distance # 0 /\ distance <= queue.size
        /\ device.len[queue.used % queue.size] <= queue.published
Consumed == [queue EXCEPT !.used = (@ + 1) % Wrap]

(* transfer ended, with the queue as it left it.  A held write released is   *)
(* followed by the flush itself; anything else is answered.  A write that    *)
(* failed or was torn leaves whatever the medium has of it.                  *)
Tears == request.mode = "tear"
Ended(base, ok) ==
    /\ latched' = (latched \/ (ok /\ Tears))
    /\ promised' = IF ring.kind # "out" THEN promised
                   ELSE [promised EXCEPT ![ring.block] =
                           IF ok /\ ~Tears THEN memory[ring.desc[1].addr] ELSE medium[ring.block]]
    /\ IF ok /\ pc = "release"
       THEN publish(base, "flush", Nothing, "iobuf", 0) /\ Transfers(request, "wait")
       ELSE Reply(request, IF ok THEN "ok" ELSE "io_error") /\ queue' = base /\ UNCHANGED ring
    /\ UNCHANGED <<device, memory, medium, held>>

complete ==
    /\ pc \in {"wait", "release"} /\ Consumable
    /\ Ended(Consumed, ring.status = "ok")
    /\ UNCHANGED missed

(* The deadline of the wait, or a wait that fails. *)
TimedOut ==
    /\ pc \in {"wait", "release"} /\ ~Consumable
    /\ Ended(queue, FALSE)
    /\ missed' = TRUE

(* The device takes the next chain it was notified of: it moves the bytes    *)
(* between the header and the status, writes the status and posts the        *)
(* length it wrote.  A request it fails may have moved nothing.              *)
Moves(block) ==
    LET data == Data(ring.desc, 0)
    IN  /\ medium' = IF ring.kind = "out" /\ data # <<>>
                     THEN [medium EXCEPT ![block] = Put(@, memory[data[1].addr], data[1].len)]
                     ELSE medium
        /\ memory' = IF ring.kind = "in" /\ data # <<>>
                     THEN [memory EXCEPT ![data[1].addr] = Put(@, medium[block], data[1].len)]
                     ELSE memory
Written == 1 + (IF ring.kind = "in" /\ Data(ring.desc, 0) # <<>> THEN SectorsPerBlock ELSE 0)

Device ==
    /\ device.seen # queue.avail
    /\ missed => Late
    /\ \/ Moves(ring.block) /\ ring' = [ring EXCEPT !.status = "ok"]
       \/ /\ Moves(ring.block) \/ UNCHANGED <<medium, memory>>
          /\ ring' = [ring EXCEPT !.status = "failed"]
    /\ device' = [seen |-> (device.seen + 1) % Wrap, used |-> (device.used + 1) % Wrap,
                  len |-> [device.len EXCEPT ![device.used % queue.size] = Written]]
    /\ UNCHANGED <<pc, queue, latched, held, missed, request, reply, promised>>

Next ==
    \/ initialise
    \/ \E b \in Blocks :
          \/ read(b)
          \/ \E v \in Values :
                \/ \E mode \in {"none", "tear"} : write(b, v, mode)
                \/ \E mode \in {"drop", "io_error"} : suppress(b, v, mode)
                \/ \E single \in BOOLEAN : hold(b, v, single)
    \/ flush \/ latch \/ invalid
    \/ complete \/ TimedOut \/ Device

Spec == Init /\ [][Next]_vars

-----------------------------------------------------------------------------

(* What callers were told is true of the medium: between requests every      *)
(* block whose write is not held has what the last answer about it said, and *)
(* a read answered OK left that content in the caller's buffer.  A chain     *)
(* the device completes without moving a byte would break it (publish).      *)
AnswersTrue ==
    pc = "idle" =>
        /\ \A b \in Blocks : held # b => medium[b] = promised[b]
        /\ reply # Nothing /\ reply.status = "ok" /\ reply.request.op = "read" =>
              memory.iobuf = promised[reply.request.block]

(* "Nothing further reaches the medium": once the driver has latched, by     *)
(* request or by tearing a write, no step changes a block, a held write      *)
(* least of all (Faults, serve and write_with_faults of k4disk).             *)
LatchedStays == latched => medium' = medium
=============================================================================
