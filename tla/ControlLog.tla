----------------------------- MODULE ControlLog -----------------------------
(***************************************************************************)
(* The control log (ctrl.rs, api/logops.rs) and the receipts written to it  *)
(* (api/mod.rs).  A covered admission, under the shared hold of the machine, *)
(* reserves a cell, may yet be refused, and writes its receipt in a later   *)
(* step; it then wakes the reader in a third.  What closes or notes things  *)
(* has the exclusive hold and is one step.                                   *)
(***************************************************************************)
EXTENDS Integers, Sequences

CONSTANTS Admissions,    \* threads that admit covered operations
          CAPACITY, RESERVED, BATCH,
          MaxSequence,   \* bound on the receipts written
          MaxLost        \* bound on the receipts counted and not written

VARIABLES records,       \* the live records, by sequence, oldest first
          next_sequence, oldest_sequence, lost, coalesced, pending_reservations,
          readers,       \* whether the reader's bit is set
          admission,     \* where each admission is
          reader         \* where the auditor is

log_vars == <<records, next_sequence, oldest_sequence, lost, coalesced, pending_reservations,
              readers, admission, reader>>

log == <<records, next_sequence, oldest_sequence, lost, coalesced>>

LogInit == /\ records = <<>> /\ next_sequence = 1 /\ oldest_sequence = 1
           /\ lost = 0 /\ coalesced = 0 /\ pending_reservations = 0
           /\ readers = FALSE
           /\ admission = [a \in Admissions |-> "none"]
           /\ reader = "out"

Exclusive == \A a \in Admissions : admission[a] = "none"

ordinary_capacity == CAPACITY - RESERVED

\* Mutant: the cells promised to other admissions are not counted.
can_reserve_alone == Len(records) < ordinary_capacity

can_reserve == Len(records) + pending_reservations < ordinary_capacity

\* write: a closing receipt may use the reserved cells; one that finds no
\* cell is counted.
write(closing) ==
    IF Len(records) >= (IF closing THEN CAPACITY ELSE ordinary_capacity)
    THEN /\ coalesced' = IF closing THEN coalesced + 1 ELSE coalesced
         /\ lost' = IF closing THEN lost ELSE lost + 1
         /\ UNCHANGED <<records, next_sequence, oldest_sequence>>
    ELSE /\ records' = Append(records, next_sequence)
         /\ oldest_sequence' = IF records = <<>> THEN next_sequence ELSE oldest_sequence
         /\ next_sequence' = next_sequence + 1
         /\ UNCHANGED <<lost, coalesced>>

\* Mutant: the reader is woken by the receipt that exceeds its batch.
OwedAfter(n) == n > BATCH /\ readers

Owed(n) == n >= BATCH /\ readers

\* wake_reader: the bit is dropped, and the wait claimed if it still stands.
Roused(awake) == IF awake THEN /\ readers' = FALSE
                               /\ reader' = IF reader = "asleep" THEN "look" ELSE reader
                 ELSE UNCHANGED <<readers, reader>>

\* -------------------------------------------------------------------------
\* A covered admission.

reserve(a) == /\ admission[a] = "none" /\ next_sequence <= MaxSequence
              /\ can_reserve
              /\ pending_reservations' = pending_reservations + 1
              /\ admission' = [admission EXCEPT ![a] = "reserved"]
              /\ UNCHANGED <<log, readers, reader>>

\* A later check refuses the operation.
release_reservation(a) ==
    /\ admission[a] = "reserved"
    /\ pending_reservations' = pending_reservations - 1
    /\ admission' = [admission EXCEPT ![a] = "none"]
    /\ UNCHANGED <<log, readers, reader>>

commit_reserved(a) ==
    /\ admission[a] = "reserved"
    /\ pending_reservations' = pending_reservations - 1
    /\ write(FALSE)
    /\ admission' = [admission EXCEPT ![a] = IF Owed(Len(records')) THEN "wake" ELSE "none"]
    /\ UNCHANGED <<readers, reader>>

wake_reader(a) == /\ admission[a] = "wake"
                  /\ admission' = [admission EXCEPT ![a] = "none"]
                  /\ Roused(Owed(Len(records)))
                  /\ UNCHANGED <<log, pending_reservations>>

\* -------------------------------------------------------------------------
\* Under the exclusive hold: a note, a fence or a retirement, and the reader.

receipt(closing) == /\ Exclusive /\ next_sequence <= MaxSequence
                    /\ lost + coalesced < MaxLost
                    /\ write(closing)
                    /\ Roused(Owed(Len(records')))
                    /\ UNCHANGED <<pending_reservations, admission>>

\* acknowledge: records leave at the head, up to the first that is later.
acknowledge(s) ==
    /\ Exclusive
    /\ \E dropped \in 0 .. Len(records) :
         /\ \A i \in 1 .. dropped : records[i] <= s
         /\ dropped < Len(records) => records[dropped + 1] > s
         /\ records' = SubSeq(records, dropped + 1, Len(records))
    /\ oldest_sequence' = IF records' = <<>> THEN next_sequence ELSE Head(records')
    /\ UNCHANGED <<next_sequence, lost, coalesced, pending_reservations, readers, admission, reader>>

\* The auditor answers with a batch, or with what there is at its deadline,
\* or registers and sleeps.
read == /\ Exclusive /\ reader \in {"out", "look", "final"}
        /\ IF Len(records) >= BATCH \/ reader = "final"
           THEN reader' = "out" /\ UNCHANGED readers
           ELSE reader' = "asleep" /\ readers' = TRUE
        /\ UNCHANGED <<log, pending_reservations, admission>>

\* The deadline: a last look.  Its bit stays set.
ReadTimedOut == /\ reader = "asleep"
                /\ reader' = "final"
                /\ UNCHANGED <<log, pending_reservations, readers, admission>>

LogNext == \/ \E a \in Admissions : \/ reserve(a) \/ release_reservation(a)
                                    \/ commit_reserved(a) \/ wake_reader(a)
           \/ \E closing \in BOOLEAN : receipt(closing)
           \/ \E s \in 1 .. MaxSequence : acknowledge(s)
           \/ read \/ ReadTimedOut

LogSpec == LogInit /\ [][LogNext]_log_vars

\* A covered operation is recorded or refused: whatever the other admissions,
\* the fences and the retirements write in the meantime, the receipt that a
\* reservation paid for finds a cell.
CoveredRecorded == (\E a \in Admissions : admission[a] = "reserved") => lost' = lost

\* The live records are the sequences from the oldest on, with no hole, and
\* the auditor does not sleep on a batch it was not told of.
BatchHeard ==
    /\ \A i \in 1 .. Len(records) : records[i] = oldest_sequence + i - 1
    /\ oldest_sequence + Len(records) = next_sequence
    /\ reader = "asleep" /\ Len(records) >= BATCH => \E a \in Admissions : admission[a] = "wake"
=============================================================================
