------------------------------- MODULE Frames -------------------------------
(***************************************************************************)
(* The physical frame allocator (mm/frame.rs) and the quarantine it keeps  *)
(* for frames another processor may still translate.  Every operation runs *)
(* under the exclusive hold of the machine, so each is one step.  Frames    *)
(* are numbers, the bitmap is the set of the clear bits, and an             *)
(* invalidation generation is a number that the processors catch up with.  *)
(***************************************************************************)
EXTENDS Integers, FiniteSets, FiniteSetsExt

CONSTANTS Frames,        \* how many frames the bitmap covers
          Unavailable,   \* frames no usable region describes
          Reserved,      \* frames the loader gives back later
          Below,         \* the bound alloc_below is asked for
          Owners,        \* accounts frames are charged to
          Slots,         \* QUARANTINE_SLOTS
          MaxStamp,      \* bound on the generations taken
          Registers      \* whether a teardown meets mapped device registers

VARIABLES free,          \* frames whose bit is clear
          hint,          \* where the next search starts
          charged,       \* frames counted against each owner
          quarantine,    \* [frame, owner, stamp] records
          retained,      \* frames the full quarantine could not take
          stamp,         \* the last invalidation generation published
          safe,          \* the generation every processor has flushed past
          holder,        \* who a frame was handed to
          answer         \* what the last request for frames was told

vars == <<free, hint, charged, quarantine, retained, stamp, safe, holder, answer>>

Index == 0 .. Frames - 1
Usable == Index \ (Unavailable \cup Reserved)
Nobody == "nobody"
None == -1
Idle == [count |-> 0, at |-> None]

Entry == [frame : Index, owner : Owners, stamp : 0 .. MaxStamp]

Init == /\ free = Usable
        /\ hint = 0
        /\ charged = [o \in Owners |-> 0]
        /\ quarantine = {}
        /\ retained = {}
        /\ stamp = 0
        /\ safe = 0
        /\ holder = [f \in Index |-> Nobody]
        /\ answer = Idle

After(i) == IF i >= Frames THEN 0 ELSE i

\* release: a frame outside the bitmap or already clear changes nothing.
\* Several frames are given back one after the other.
Released(fs) == [free |-> free \cup fs,
                 hint |-> Min(fs \cup {hint})]

Owed(es, o) == Cardinality({e \in es : e.owner = o /\ e.frame \notin free})
Paid(es) == [o \in Owners |-> IF charged[o] > Owed(es, o)
                              THEN charged[o] - Owed(es, o) ELSE 0]
Emptied(fs) == [f \in Index |-> IF f \in fs THEN Nobody ELSE holder[f]]

\* Mutant: an off-by-one in the comparison of generations.
DrainableEarly == {e \in quarantine : e.stamp <= safe + 1}

\* The records whose generation every processor has flushed past.
Drainable == {e \in quarantine : e.stamp <= safe}

FramesOf(es) == {e.frame : e \in es}

Leading(clear, i, count) == Min({k \in 0 .. count : k = count \/ i + k \notin clear})

\* Mutant: the walk goes on one frame too far.
take_run_past(clear, from, to, count) ==
    LET walk[i \in 0 .. Frames + 1] ==
            IF i + count > to THEN None
            ELSE IF Leading(clear, i, count) = count THEN i
            ELSE walk[i + Leading(clear, i, count) + 2]
    IN  walk[from]

\* The walk of take_run over [from, to): the frame after the first taken one
\* is where the next run may start.
take_run(clear, from, to, count) ==
    LET walk[i \in 0 .. Frames] ==
            IF i + count > to THEN None
            ELSE IF Leading(clear, i, count) = count THEN i
            ELSE walk[i + Leading(clear, i, count) + 1]
    IN  walk[from]

\* From where the last allocation left off, and only then from the beginning,
\* as far as a run that starts just below the hint reaches.
Search(clear, start, count) ==
    LET ahead == take_run(clear, start, Frames, count)
    IN  IF ahead # None THEN ahead
        ELSE take_run(clear, 0, Min({start + count, Frames}), count)

Drained(es) == /\ quarantine' = quarantine \ es
               /\ UNCHANGED <<retained, stamp, safe>>

\* alloc drains only when nothing is free, and wraps around the bitmap.
alloc(o) ==
    LET es == IF free = {} THEN Drainable ELSE {}
        clear == free \cup FramesOf(es)
        start == Min({hint} \cup FramesOf(es))
        ahead == {i \in clear : i >= start}
        i == Min(IF ahead # {} THEN ahead ELSE clear)
        paid == Paid(es)
    IN  /\ clear # {}
        /\ free' = clear \ {i}
        /\ hint' = After(i + 1)
        /\ charged' = [paid EXCEPT ![o] = @ + 1]
        /\ holder' = [Emptied(FramesOf(es)) EXCEPT ![i] = o]
        /\ answer' = [count |-> 1, at |-> i]
        /\ Drained(es)

allocFails(o) == /\ free = {} /\ Drainable = {}
                 /\ answer' = [count |-> 1, at |-> None]
                 /\ UNCHANGED <<free, hint, charged, quarantine, retained, stamp, safe, holder>>

alloc_below(o) ==
    LET fit == {i \in free : i >= 1 /\ i < Below} IN
    /\ fit # {}
    /\ free' = free \ {Min(fit)}
    /\ charged' = [charged EXCEPT ![o] = @ + 1]
    /\ holder' = [holder EXCEPT ![Min(fit)] = o]
    /\ answer' = Idle
    /\ UNCHANGED <<hint, quarantine, retained, stamp, safe>>

\* alloc_contiguous always drains first; a refusal keeps what the drain freed.
alloc_contiguous(o, count) ==
    LET es == Drainable
        clear == Released(FramesOf(es)).free
        start == Released(FramesOf(es)).hint
        i == Search(clear, start, count)
        run == IF i = None THEN {} ELSE i .. i + count - 1
        paid == Paid(es)
    IN  /\ free' = clear \ run
        /\ hint' = IF i = None THEN start ELSE After(i + count)
        /\ charged' = [paid EXCEPT ![o] = @ + Cardinality(run)]
        /\ holder' = [f \in Index |-> IF f \in run THEN o ELSE Emptied(FramesOf(es))[f]]
        /\ answer' = [count |-> count, at |-> i]
        /\ Drained(es)

\* A frame its owner gives straight back.
release(o, f) ==
    /\ holder[f] = o
    /\ f \notin retained \cup FramesOf(quarantine)
    /\ free' = Released({f}).free
    /\ hint' = Released({f}).hint
    /\ charged' = Paid({[frame |-> f, owner |-> o, stamp |-> 0]})
    /\ holder' = Emptied({f})
    /\ answer' = Idle
    /\ UNCHANGED <<quarantine, retained, stamp, safe>>

\* The frames a domain's page tables name when its space is destroyed: its
\* own, and the registers of a device it had mapped.
Leaves(o) == {f \in Index : holder[f] = o /\ f \notin retained \cup FramesOf(quarantine)}
             \cup (IF Registers THEN Unavailable ELSE {})

\* A teardown retires its frames at one fresh generation; what does not fit
\* stays charged for the rest of the run.
retire_at(o, fs) ==
    /\ stamp < MaxStamp
    /\ fs # {}
    /\ stamp' = stamp + 1
    /\ \E kept \in SUBSET fs :
          /\ Cardinality(kept) = Min({Slots - Cardinality(quarantine), Cardinality(fs)})
          /\ \A f \in kept, g \in fs \ kept : f < g
          /\ quarantine' = quarantine \cup
                 {[frame |-> f, owner |-> o, stamp |-> stamp + 1] : f \in kept}
          /\ retained' = retained \cup (fs \ kept)
    /\ answer' = Idle
    /\ UNCHANGED <<free, hint, charged, safe, holder>>

retire(o) == \E fs \in SUBSET Leaves(o) : retire_at(o, fs)

\* The tick drains what it may; a processor's flush is what makes it more.
drain_quarantine ==
    LET es == Drainable IN
    /\ es # {}
    /\ free' = Released(FramesOf(es)).free
    /\ hint' = Released(FramesOf(es)).hint
    /\ charged' = Paid(es)
    /\ holder' = Emptied(FramesOf(es))
    /\ answer' = Idle
    /\ Drained(es)

Flush == /\ safe < stamp
         /\ safe' = safe + 1
         /\ UNCHANGED <<free, hint, charged, quarantine, retained, stamp, holder>>
    /\ answer' = Idle

\* Mutant: the records change owner and the accounts do not.
reassign_quarantine_only(from, to) ==
    LET es == {e \in quarantine : e.owner = from} IN
    /\ from # to /\ es # {}
    /\ quarantine' = (quarantine \ es) \cup {[e EXCEPT !.owner = to] : e \in es}
    /\ holder' = [f \in Index |-> IF f \in FramesOf(es) THEN to ELSE holder[f]]
    /\ answer' = Idle
    /\ UNCHANGED <<free, hint, charged, retained, stamp, safe>>

\* The slot of an owner is about to be reused: its quarantined frames move.
reassign_quarantine(from, to) ==
    LET es == {e \in quarantine : e.owner = from} IN
    /\ from # to /\ es # {}
    /\ quarantine' = (quarantine \ es) \cup {[e EXCEPT !.owner = to] : e \in es}
    /\ charged' = [charged EXCEPT ![from] = IF @ > Cardinality(es) THEN @ - Cardinality(es) ELSE 0,
                                  ![to] = @ + Cardinality(es)]
    /\ holder' = [f \in Index |-> IF f \in FramesOf(es) THEN to ELSE holder[f]]
    /\ answer' = Idle
    /\ UNCHANGED <<free, hint, retained, stamp, safe>>

\* The loader's structures join the pool, charged to nobody.
reclaim == /\ Reserved \cap free # Reserved
           /\ \A f \in Reserved : holder[f] = Nobody
           /\ free' = free \cup Reserved
           /\ answer' = Idle
    /\ UNCHANGED <<hint, charged, quarantine, retained, stamp, safe, holder>>

Next == \/ \E o \in Owners : \/ alloc(o) \/ allocFails(o) \/ alloc_below(o)
                             \/ \E n \in 2 .. 3 : alloc_contiguous(o, n)
                             \/ retire(o)
                             \/ \E f \in Index : release(o, f)
                             \/ \E p \in Owners : reassign_quarantine(o, p)
        \/ drain_quarantine \/ Flush \/ reclaim

Spec == Init /\ [][Next]_vars

\* Accounting and reuse together: an owner is charged exactly the frames it
\* holds, quarantined and retained ones included, through every drain, refusal
\* and change of account; and no frame is both in the pool and held, waiting
\* for a flush, or memory no region ever described.
Conserved ==
    /\ \A o \in Owners : charged[o] = Cardinality({f \in Index : holder[f] = o})
    /\ \A f \in free : holder[f] = Nobody /\ f \notin Unavailable
    /\ \A e \in quarantine : holder[e.frame] = e.owner
    /\ \A d, e \in quarantine : d.frame = e.frame => d = e

\* A frame leaves the quarantine for the pool only when every processor has
\* flushed past the generation it was retired at.
WaitsForFlush == \A e \in quarantine : e.frame \in free' => e.stamp <= safe

\* take_run against its definition: a request for a run is refused only when
\* there is none, whatever the hint and the fragmentation, and what it is
\* given is a run of the requested length.
SearchComplete ==
    answer.count > 0 =>
        IF answer.at = None
        THEN \A i \in 0 .. Frames - answer.count :
                \E k \in 0 .. answer.count - 1 : i + k \notin free
        ELSE \A k \in 0 .. answer.count - 1 : holder[answer.at + k] # Nobody
=============================================================================
