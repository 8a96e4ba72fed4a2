----------------------------- MODULE RingDriver -----------------------------
(***************************************************************************)
(* The driver of the device stage: user/k3driver.  It brings the transport *)
(* up, runs its validator over entries of its own, then reads a block,     *)
(* writes one and flushes, each at a head of its own, one at a time, and   *)
(* lets the device go.  What the used ring says is validated before it is  *)
(* believed, so the ring here may say anything: the device serves the      *)
(* chains it is given, and an entry may also be one no device should post. *)
(***************************************************************************)
EXTENDS Virtqueue

CONSTANTS
    QUEUE_DEPTH,  \* entries of the queue
    Offered,      \* queue sizes a device may offer
    Wrap,         \* the indices count modulo Wrap (2^16)
    MaxPosted     \* bound on the entries nobody should have posted

VARIABLES
    pc,        \* "start", "test", "publish", "wait", "done" or "exit"
    index,     \* the request of the script
    queue,     \* struct Queue
    ring,      \* what driver and device share: desc, status
    device,    \* the device's indices, the used entries, what it moved
    posted,    \* entries nobody should have posted
    believed   \* the heads the driver took completions of, in order

vars == <<pc, index, queue, ring, device, posted, believed>>

(* The script: a read, a write and a flush. *)
Script == <<[kind |-> "in", length |-> 1], [kind |-> "out", length |-> 1],
            [kind |-> "flush", length |-> 0]>>
Heads == 0..QUEUE_DEPTH - 1
HeadOf(i) == (i - 1) * 3

Init ==
    /\ pc = "start" /\ index = 1
    /\ queue = [size |-> 0, avail |-> 0, used |-> 0,
                in_flight |-> [h \in Heads |-> FALSE], published_len |-> [h \in Heads |-> 0]]
    /\ ring = [desc |-> [h \in Heads |-> Desc("none", 0, FALSE, 0)], status |-> "unset"]
    /\ device = [seen |-> 0, used |-> 0, entry |-> [s \in Heads |-> [id |-> 0, len |-> 0]],
                 moved |-> {}]
    /\ posted = 0 /\ believed = <<>>

initialise ==
    /\ pc = "start"
    /\ \/ \E offered \in Offered \ {0} :
             /\ queue' = [queue EXCEPT !.size = IF offered < QUEUE_DEPTH THEN offered
                                                ELSE QUEUE_DEPTH]
             /\ pc' = "test"
       \/ pc' = "exit" /\ UNCHANGED queue
    /\ UNCHANGED <<index, ring, device, posted, believed>>

(* validate_used: what a driver makes of one used entry. *)
Rejected(q, entry) ==
    \/ entry.id >= QUEUE_DEPTH
    \/ ~q.in_flight[entry.id]
    \/ entry.len > q.published_len[entry.id]

\* Mutant: a head taken stays in flight.
validate_usedKept(q, device_index, entry, synthetic) ==
    LET pending == Distance(device_index, q.used, Wrap)
    IN  IF pending = 0 \/ pending > q.size THEN [queue |-> q, done |-> FALSE]
        ELSE [queue |-> [q EXCEPT !.used = (@ + 1) % Wrap],
              done |-> ~Rejected(q, entry)]
validate_used(q, device_index, entry, synthetic) ==
    LET pending == Distance(device_index, q.used, Wrap)
        passed == [q EXCEPT !.used = (@ + 1) % Wrap]
    IN  IF pending = 0 \/ pending > q.size THEN [queue |-> q, done |-> FALSE]
        ELSE IF Rejected(q, entry) THEN [queue |-> passed, done |-> FALSE]
        ELSE [queue |-> IF synthetic THEN passed
                        ELSE [passed EXCEPT !.in_flight[entry.id] = FALSE],
              done |-> TRUE]

(* validator_self_test: four entries of its own, head zero made to look      *)
(* published; the queue is put back as it was.                               *)
validator_self_test ==
    /\ pc = "test"
    /\ LET tried(q, id, len) ==
             validate_used(q, (q.used + 1) % Wrap, [id |-> id, len |-> len], TRUE).queue
           posing == [queue EXCEPT !.in_flight[0] = TRUE, !.published_len[0] = 2]
           after == tried(tried(tried(tried(posing, QUEUE_DEPTH, 1), 1, 1), 0, 3), 0, 1)
       IN  queue' = [after EXCEPT !.used = queue.used, !.in_flight[0] = queue.in_flight[0],
                                  !.published_len[0] = queue.published_len[0]]
    /\ pc' = "publish"
    /\ UNCHANGED <<index, ring, device, posted, believed>>

(* Queue::publish: the header names the status descriptor, the data          *)
(* descriptor lies between them.                                             *)
ChainOf(head, length) ==
    LET status == IF length = 0 THEN head + 1 ELSE head + 2
    IN  [h \in Heads |-> CASE h = head   -> Desc("header", 1, TRUE, status)
                           [] h = status -> Desc("status", 1, FALSE, 0)
                           [] h = head + 1 /\ length # 0 -> Desc("data", length, TRUE, status)
                           [] OTHER      -> ring.desc[h]]

publish ==
    /\ pc = "publish" /\ index <= Len(Script)
    /\ LET head == HeadOf(index)
           length == Script[index].length
       IN  /\ ring' = [desc |-> ChainOf(head, length), status |-> "unset"]
           /\ queue' = [queue EXCEPT !.in_flight[head] = TRUE,
                                     !.published_len[head] = length + 1,
                                     !.avail = (@ + 1) % Wrap]
    /\ pc' = "wait"
    /\ UNCHANGED <<index, device, posted, believed>>

(* complete: consume until something is done; the wait ends at the deadline, *)
(* or after sixty-four rounds, and the program with it.                      *)
consume ==
    /\ pc = "wait"
    /\ device.used # queue.used
    /\ LET entry == device.entry[queue.used % queue.size]
           after == validate_used(queue, device.used, entry, FALSE)
       IN  /\ queue' = after.queue
           /\ IF after.done
              THEN /\ believed' = Append(believed, entry.id)
                   /\ index' = index + 1
                   /\ pc' = IF index = Len(Script) THEN "done" ELSE "publish"
              ELSE UNCHANGED <<believed, index, pc>>
    /\ UNCHANGED <<ring, device, posted>>

TimedOut ==
    /\ pc = "wait"
    /\ pc' = "exit"
    /\ UNCHANGED <<index, queue, ring, device, posted, believed>>

(* The driver says it is done and waits for recovery to end the session. *)
stale ==
    /\ pc = "done"
    /\ pc' = "exit"
    /\ UNCHANGED <<index, queue, ring, device, posted, believed>>

(* The device serves the chains in the order they were published, moving     *)
(* what lies between header and status...                                    *)
Posts(entry, by) ==
    [device EXCEPT !.used = (@ + by) % Wrap, !.entry[device.used % queue.size] = entry]

Device ==
    /\ device.seen # queue.avail
    /\ LET r == device.seen + 1
           head == HeadOf(r)
           data == Data(ring.desc, head)
           len == IF Script[r].kind = "in" /\ data # <<>> THEN 2 ELSE 1
       IN  device' = [Posts([id |-> head, len |-> len], 1)
                        EXCEPT !.seen = (@ + 1) % Wrap,
                               !.moved = IF data # <<>> THEN @ \cup {r} ELSE @]
    /\ ring' = [ring EXCEPT !.status = "ok"]
    /\ UNCHANGED <<pc, index, queue, posted, believed>>

(* ...and the ring may hold an entry no device should have posted, or an     *)
(* index further along than the queue is deep.                               *)
Malformed ==
    /\ pc \in {"publish", "wait"} /\ posted < MaxPosted
    /\ \E id \in {HeadOf(i) : i \in 1..Len(Script)} \cup {1, QUEUE_DEPTH}, len \in {1, 3},
          by \in {1, queue.size + 1} :
          /\ id # HeadOf(index)
          /\ device' = Posts([id |-> id, len |-> len], by)
    /\ posted' = posted + 1
    /\ UNCHANGED <<pc, index, queue, ring, believed>>

Next ==
    \/ initialise \/ validator_self_test \/ publish \/ consume \/ TimedOut \/ stale
    \/ Device \/ Malformed

Spec == Init /\ [][Next]_vars

-----------------------------------------------------------------------------

(* Whatever the used ring says, the completion believed for a request names  *)
(* that request's head, and no head is believed twice: "a malformed entry is *)
(* rejected and reported; it never becomes a head this driver reuses"        *)
(* (validate_used and complete of k3driver).                                 *)
BelievedInOrder == \A i \in 1..Len(believed) : believed[i] = HeadOf(i)

=============================================================================
