------------------------------- MODULE BrLock -------------------------------
(***************************************************************************)
(* The control lock (kernel/src/sync.rs, BrLock): the hot paths hold the   *)
(* machine shared, the control plane holds it exclusive.                   *)
(*                                                                         *)
(* One step is one atomic access of the code.  Every access that the       *)
(* handshake rests on is SeqCst, so interleaving the steps is the memory   *)
(* model the code relies on.  Statistics and the invalidation service in   *)
(* the spin loops leave these variables alone.                             *)
(***************************************************************************)
EXTENDS Naturals, FiniteSets

CONSTANTS NCpu,      \* MAX_CPUS
          TicketMod  \* 2^32: a ticket is a u32 and fetch_add wraps

ASSUME NCpuAssumption == NCpu \in Nat \ {0}

\* The code relies on a u32 naming more tickets than there are processors.
ASSUME TicketModAssumption == TicketMod \in Nat /\ TicketMod > NCpu

Cpus == 0..(NCpu - 1)

VARIABLES next,       \* ticket the next exclusive holder takes
          serving,    \* ticket now allowed to hold exclusively
          excluding,  \* an exclusive holder is in, or waiting to get in
          readers,    \* readers[c]: processor c's count of shared holds
          pc,         \* where each processor stands in read or write
          ticket,     \* the ticket a processor in write took
          scan        \* the processor whose count write looks at next

lock_vars == <<next, serving, excluding, readers, pc, ticket, scan>>

ReadPcs == {"announced", "withdraw", "rspin", "shared"}
WritePcs == {"turn", "exclude", "scan", "exclusive", "handover"}

LockTypeOK ==
  /\ next \in 0..(TicketMod - 1)
  /\ serving \in 0..(TicketMod - 1)
  /\ excluding \in {0, 1}
  /\ readers \in [Cpus -> {0, 1}]
  /\ pc \in [Cpus -> {"out"} \union ReadPcs \union WritePcs]
  /\ ticket \in [Cpus -> 0..(TicketMod - 1)]
  /\ scan \in [Cpus -> 0..NCpu]

\* fetch_add(1) on a u32.
Wrap(t) == IF t + 1 = TicketMod THEN 0 ELSE t + 1

LockInit ==
  /\ next = 0
  /\ serving = 0
  /\ excluding = 0
  /\ readers = [c \in Cpus |-> 0]
  /\ pc = [c \in Cpus |-> "out"]
  /\ ticket = [c \in Cpus |-> 0]
  /\ scan = [c \in Cpus |-> 0]

Goto(c, from, to) == pc[c] = from /\ pc' = [pc EXCEPT ![c] = to]

-----------------------------------------------------------------------------
(* read() and the drop of its guard.                                       *)

\* A reader that announces itself again without waiting the writer out.
ReadAnnounceEager(c) ==
  /\ Goto(c, "out", "announced") \/ Goto(c, "rspin", "announced")
  /\ readers' = [readers EXCEPT ![c] = 1]
  /\ UNCHANGED <<next, serving, excluding, ticket, scan>>

\* A reader that does not look at the flag after announcing itself.
ReadCheckBlind(c) ==
  /\ Goto(c, "announced", "shared")
  /\ UNCHANGED <<next, serving, excluding, readers, ticket, scan>>

\* A hold is never nested, so read and write are entered from "out".
ReadAnnounce(c) ==
  /\ \/ Goto(c, "out", "announced")
     \/ Goto(c, "rspin", "announced") /\ excluding = 0
  /\ readers' = [readers EXCEPT ![c] = 1]
  /\ UNCHANGED <<next, serving, excluding, ticket, scan>>

ReadCheck(c) ==
  /\ \/ Goto(c, "announced", "shared") /\ excluding = 0
     \/ Goto(c, "announced", "withdraw") /\ excluding = 1
  /\ UNCHANGED <<next, serving, excluding, readers, ticket, scan>>

ReadWithdraw(c) ==
  /\ Goto(c, "withdraw", "rspin")
  /\ readers' = [readers EXCEPT ![c] = 0]
  /\ UNCHANGED <<next, serving, excluding, ticket, scan>>

ReadDrop(c) ==
  /\ Goto(c, "shared", "out")
  /\ readers' = [readers EXCEPT ![c] = 0]
  /\ UNCHANGED <<next, serving, excluding, ticket, scan>>

-----------------------------------------------------------------------------
(* write() and the drop of its guard.                                      *)

\* The test-and-set flag the ticket replaced: whoever finds it clear is in.
WriteTurnUnordered(c) ==
  /\ Goto(c, "turn", "exclude")
  /\ excluding = 0
  /\ \A d \in Cpus : pc[d] \notin {"exclude", "handover"}
  /\ UNCHANGED <<next, serving, excluding, readers, ticket, scan>>

WriteTicket(c) ==
  /\ Goto(c, "out", "turn")
  /\ ticket' = [ticket EXCEPT ![c] = next]
  /\ next' = Wrap(next)
  /\ UNCHANGED <<serving, excluding, readers, scan>>

WriteTurn(c) ==
  /\ Goto(c, "turn", "exclude")
  /\ serving = ticket[c]
  /\ UNCHANGED <<next, serving, excluding, readers, ticket, scan>>

WriteExclude(c) ==
  /\ Goto(c, "exclude", "scan")
  /\ excluding' = 1
  /\ scan' = [scan EXCEPT ![c] = 0]
  /\ UNCHANGED <<next, serving, readers, ticket>>

\* for readers in &self.readers: wait for each count in turn to be zero.
WriteScan(c) ==
  \/ /\ pc[c] = "scan"
     /\ scan[c] < NCpu
     /\ readers[scan[c]] = 0
     /\ scan' = [scan EXCEPT ![c] = @ + 1]
     /\ UNCHANGED <<next, serving, excluding, readers, pc, ticket>>
  \/ /\ Goto(c, "scan", "exclusive")
     /\ scan[c] = NCpu
     /\ UNCHANGED <<next, serving, excluding, readers, ticket, scan>>

WriteDrop(c) ==
  /\ Goto(c, "exclusive", "handover")
  /\ excluding' = 0
  /\ UNCHANGED <<next, serving, readers, ticket, scan>>

WriteServe(c) ==
  /\ Goto(c, "handover", "out")
  /\ serving' = Wrap(serving)
  /\ UNCHANGED <<next, excluding, readers, ticket, scan>>

-----------------------------------------------------------------------------
ReadStep(c) ==
  ReadAnnounce(c) \/ ReadCheck(c) \/ ReadWithdraw(c) \/ ReadDrop(c)

WriteStep(c) ==
  \/ WriteTicket(c) \/ WriteTurn(c) \/ WriteExclude(c)
  \/ WriteScan(c) \/ WriteDrop(c) \/ WriteServe(c)

LockNext == \E c \in Cpus : ReadStep(c) \/ WriteStep(c)

LockSpec == LockInit /\ [][LockNext]_lock_vars

\* A processor inside read or write keeps running: interrupts are masked on
\* every path that takes the lock, so a holder is never descheduled.  Asking
\* for the lock is the processor's choice and has no fairness.
Progress(c) ==
  \/ ReadStep(c) /\ pc[c] # "out"
  \/ WriteStep(c) /\ pc[c] # "out"

LockFairness == \A c \in Cpus : WF_lock_vars(Progress(c))

-----------------------------------------------------------------------------
Writers == {c \in Cpus : pc[c] \in WritePcs}

\* How many exclusive holds come before ticket t, counted from serving.
Offset(t) == IF t >= serving THEN t - serving ELSE t + TicketMod - serving

Past(c) == pc[c] \in {"exclude", "scan", "exclusive", "handover"}

Holding(c) == pc[c] \in {"scan", "exclusive"}

Scanned(c) ==
  IF pc[c] = "scan" THEN 0..(scan[c] - 1)
  ELSE IF pc[c] = "exclusive" THEN Cpus ELSE {}

\* The inductive invariant: the outstanding tickets are exactly the ones from
\* serving up to next, one per processor in write, also across the wrap of
\* the u32; only the one being served is past its turn; excluding is its flag;
\* and a processor it has already looked at cannot be in.
TicketInv ==
  /\ next = IF serving + Cardinality(Writers) < TicketMod
              THEN serving + Cardinality(Writers)
              ELSE serving + Cardinality(Writers) - TicketMod
  /\ \A c \in Writers : Offset(ticket[c]) < Cardinality(Writers)
  /\ \A c, d \in Writers : ticket[c] = ticket[d] => c = d

HoldInv ==
  /\ \A c \in Cpus : Past(c) => ticket[c] = serving
  /\ excluding = 1 <=> \E c \in Cpus : Holding(c)
  /\ \A c \in Cpus : pc[c] \in {"announced", "withdraw", "shared"}
                       => readers[c] = 1
  /\ \A c \in Cpus : \A r \in Scanned(c) : pc[r] # "shared"

LockIInv == LockTypeOK /\ TicketInv /\ HoldInv

\* sync.rs says a shared hold hands out &T only while no exclusive holder
\* exists and an exclusive one &mut T only while nobody else holds: whoever
\* is exclusive is alone, whatever the interleaving of the two handshakes.
Exclusion ==
  \A c, d \in Cpus :
    pc[c] = "exclusive" /\ c # d => pc[d] \notin {"shared", "exclusive"}

\* An exclusive holder that took its ticket gets in: shared holders that meet
\* the flag withdraw their count, so a stream of readers cannot starve it,
\* and neither can a processor releasing and asking again in a loop.
WriterServed ==
  \A c \in Cpus : pc[c] = "turn" ~> pc[c] = "exclusive"

\* The abstract lock this one implements.  A writer leaves the line when it
\* drops excluding; the ticket it still has to pass on is not the line's.
Waiting == {c \in Cpus : pc[c] \in WritePcs \ {"handover"}}

Before(c) ==
  IF c \in Waiting
    THEN {d \in Waiting : Offset(ticket[d]) < Offset(ticket[c])}
    ELSE {}

Abstract == INSTANCE SharedLock WITH
  ahead <- [c \in Cpus |-> Before(c)],
  inLine <- Waiting,
  writer <- {c \in Cpus : pc[c] = "exclusive"},
  holders <- {c \in Cpus : pc[c] = "shared"}

\* Exclusive holds are granted in the order of the requests and exclude every
\* other hold: each step of the handshake is a step of the abstract lock or
\* leaves it alone.
Implements == Abstract!ASpec
=============================================================================
