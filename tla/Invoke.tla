------------------------------- MODULE Invoke -------------------------------
(***************************************************************************)
(* One INVOKE entry of the kernel, from the registers to the status:       *)
(* api/mod.rs invoke, with the copies of ucopy.rs.  The descriptor comes   *)
(* in page by page without the machine lock and is validated in kernel     *)
(* memory; the handle is resolved and the handler runs inside one hold of  *)
(* the lock, shared or exclusive; the response goes out page by page,      *)
(* again without the lock.                                                 *)
(*                                                                         *)
(* Meanwhile other threads of the domain rewrite the descriptor, withdraw  *)
(* its pages and map others there, and a holder of authority fences the    *)
(* lineage of the handle.  What a handler does is left to the modules of   *)
(* the operations; here it is the counter `acted`.  Another thread closing *)
(* the handle under a second shared hold is in Authority and Invocations.  *)
(***************************************************************************)
EXTENDS Naturals, FiniteSets

CONSTANTS
    Operations,    \* records [name, path, reads, responds, reaps, observes]
    Pages,         \* 1..n: the pages the descriptor lies on
    Frames,
    None,          \* no frame
    MaxEntries,    \* entries of the one thread
    MaxChanges,    \* changes of the other threads
    REFUSAL_RECORD_LIMIT

VARIABLES
    step, call,    \* the thread's step and the operation it entered with
    page, frame,   \* the page being copied and the frame its translation gave
    staged,        \* the header in the staging buffer
    filled, code,  \* Staging::filled and the status so far
    hold,          \* the thread's hold of MACHINE
    found,         \* whether the last resolution succeeded
    table,         \* table[p]: the frame page p of the caller's space maps
    holder,        \* holder[f]: who has frame f
    content,       \* content[f]: the header a frame of the first page holds
    lineage,       \* the handle's capability: live, dead or gone
    acted, reached, refusals, entries, changes

entry_vars == <<step, call, page, frame, staged, filled, code, hold, found, table, holder, content,
                lineage, acted, reached, refusals, entries, changes>>
copying == <<page, frame, staged>>
memory == <<table, holder, content>>
others == <<memory, lineage, changes>>
counts == <<acted, reached, refusals, entries>>

Placements == {t \in [Pages -> Frames] : \A p, q \in Pages : t[p] = t[q] => p = q}
AnOperation == CHOOSE o \in Operations : TRUE

EntryInit ==
    /\ step = "user" /\ call = AnOperation
    /\ page = 1 /\ frame = None /\ staged = "none"
    /\ filled = FALSE /\ code = "OK" /\ hold = "none" /\ found = FALSE
    /\ table \in Placements
    /\ holder = [f \in Frames |-> IF \E p \in Pages : table[p] = f THEN "caller" ELSE "pool"]
    /\ content = [f \in Frames |-> "asked"]
    /\ lineage = "live"
    /\ acted = 0 /\ reached = {} /\ refusals = 0 /\ entries = 0 /\ changes = 0

(* The end of an entry: a refusal is counted and recorded up to the limit. *)
Leave(c) ==
    /\ step' = "user" /\ code' = "OK" /\ filled' = FALSE /\ found' = FALSE
    /\ page' = 1 /\ frame' = None /\ staged' = "none"
    /\ refusals' = IF c = "OK" \/ refusals = REFUSAL_RECORD_LIMIT THEN refusals ELSE refusals + 1

(* The structure of the registers, before anything is read: an operation the *)
(* interface does not assign, flags it does not know, a length that is not   *)
(* the operation's.                                                          *)
Structure == {"NOT_SUPPORTED", "INVALID_ARGUMENT", "OK"}
invoke(o, c) ==
    /\ step = "user" /\ entries < MaxEntries
    /\ entries' = entries + 1
    /\ reached' = IF c = "NOT_SUPPORTED" THEN reached ELSE reached \cup {o.name}
    /\ call' = o
    /\ IF c = "OK"
       THEN /\ step' = IF o.reaps = "before" THEN "reap" ELSE IF o.reads THEN "in" ELSE "hold"
            /\ UNCHANGED <<copying, filled, code, found, refusals>>
       ELSE Leave(c)
    /\ UNCHANGED <<hold, others, acted>>

(* reap_dead takes the machine lock: on the way in for the closing           *)
(* operations, on the way out for a termination.                             *)
reap_dead ==
    /\ step \in {"reap", "reap_after"}
    /\ step' = IF step = "reap" THEN IF call.reads THEN "in" ELSE "hold" ELSE "respond"
    /\ UNCHANGED <<call, copying, filled, code, hold, found, others, counts>>

-----------------------------------------------------------------------------

(* walk: each page is translated through the caller's own tables and its     *)
(* chunk copied before the next one is looked at.                            *)
\* Mutant: the way out uses the translation the way in made.
TranslatedOnce(p) == IF step = "out" /\ frame # None THEN frame ELSE table[p]
Translated(p) == table[p]

walk ==
    /\ step \in {"in", "out"} /\ Translated(page) # None
    /\ frame' = Translated(page)
    /\ step' = IF step = "in" THEN "in_chunk" ELSE "out_chunk"
    /\ UNCHANGED <<call, page, staged, filled, code, hold, found, others, counts>>

(* A range outside the user's, a page that is not mapped, on the way out one *)
(* that is not writable: the copy ends, and the chunks before it were made.  *)
(* On the way out the operation has already happened.                        *)
faults ==
    /\ step \in {"in", "out"} /\ (table[page] = None \/ page = 1 \/ step = "out")
    /\ Leave("INVALID_ADDRESS")
    /\ UNCHANGED <<call, hold, others, acted, reached, entries>>

AfterLast(next, last) ==
    IF page + 1 \in Pages
    THEN page' = page + 1 /\ step' = next
    ELSE page' = 1 /\ step' = last

copy_in ==
    /\ step = "in_chunk"
    /\ staged' = IF page = 1 THEN content[frame] ELSE staged
    /\ AfterLast("in", "check")
    /\ UNCHANGED <<call, frame, filled, code, hold, found, others, counts>>

copy_out ==
    /\ step = "out_chunk"
    /\ content' = [content EXCEPT ![frame] = IF page = 1 THEN "response" ELSE @]
    /\ IF page + 1 \in Pages
       THEN /\ page' = page + 1 /\ step' = "out"
            /\ UNCHANGED <<frame, staged, filled, code, found, refusals>>
       ELSE Leave(code)
    /\ UNCHANGED <<call, hold, table, holder, lineage, changes, acted, reached, entries>>

(* The header is checked where the caller can no longer write it.            *)
\* Mutant: the header is checked in the caller's memory.
HeaderThere == IF table[1] = None THEN "none" ELSE content[table[1]]
HeaderRead == staged

validate_header ==
    /\ step = "check"
    /\ IF HeaderRead = "asked"
       THEN step' = "hold" /\ UNCHANGED <<copying, filled, code, found, refusals>>
       ELSE Leave("INVALID_ARGUMENT")
    /\ UNCHANGED <<call, hold, others, acted, reached, entries>>

-----------------------------------------------------------------------------

Resolves == lineage = "live" \/ (call.observes /\ lineage = "dead")

(* The hold: shared for the operations of a round trip, exclusive for the    *)
(* rest.  The operations that may wait take their own holds, in Invocations, *)
(* Events, ControlLog, Memory and Devices.                                   *)
Acquire ==
    /\ step = "hold" /\ hold = "none"
    /\ hold' = IF call.path \in {"shared", "release"} THEN "read" ELSE "write"
    /\ step' = "resolve"
    /\ UNCHANGED <<call, copying, filled, code, found, others, counts>>

(* A release of a memory object has to give frames back: the shared hold is  *)
(* dropped, and the operation runs again under the exclusive one.            *)
shared_declines ==
    /\ step = "resolve" /\ hold = "read" /\ call.path = "release" /\ Resolves
    /\ hold' = "none" /\ step' = "exclusive" /\ found' = TRUE
    /\ UNCHANGED <<call, copying, filled, code, others, counts>>

exclusive ==
    /\ step = "exclusive" /\ hold = "none"
    /\ hold' = "write" /\ step' = "resolve"
    /\ UNCHANGED <<call, copying, filled, code, found, others, counts>>

\* Mutant: the resolution made under the shared hold is kept.
ResolvedKept == found \/ Resolves
Resolved == Resolves

resolve ==
    /\ step = "resolve" /\ ~(hold = "read" /\ call.path = "release" /\ Resolves)
    /\ found' = Resolved
    /\ step' = IF Resolved THEN "handler" ELSE "release"
    /\ code' = IF Resolved THEN "OK" ELSE "REFUSED"
    /\ UNCHANGED <<call, copying, filled, hold, others, counts>>

(* The handler, which may refuse, and may have written a response either way. *)
simple(c, wrote) ==
    /\ step = "handler"
    /\ c = "OK" \/ c = "REFUSED"
    /\ wrote => call.responds
    /\ code' = c /\ filled' = wrote
    /\ acted' = IF c = "OK" THEN acted + 1 ELSE acted
    /\ lineage' = IF c = "OK" /\ call.path = "release" THEN "gone" ELSE lineage
    /\ step' = "release"
    /\ UNCHANGED <<call, copying, hold, found, memory, changes, reached, refusals, entries>>

(* The hold is dropped and the wakes go out, before the response. *)
Release ==
    /\ step = "release"
    /\ hold' = "none"
    /\ step' = IF call.reaps = "after" THEN "reap_after" ELSE "respond"
    /\ UNCHANGED <<call, copying, filled, code, found, others, counts>>

(* A response goes out whenever a handler wrote one, whatever the status. *)
write_response ==
    /\ step = "respond"
    /\ IF filled
       THEN step' = "out" /\ UNCHANGED <<copying, filled, code, found, refusals>>
       ELSE Leave(code)
    /\ UNCHANGED <<call, hold, others, acted, reached, entries>>

-----------------------------------------------------------------------------

Changed == changes < MaxChanges /\ changes' = changes + 1
mine == <<step, call, copying, filled, code, hold, found, counts>>

(* Another thread of the domain writes the descriptor. *)
Rewrite(p, h) ==
    /\ Changed /\ table[p] # None
    /\ content' = [content EXCEPT ![table[p]] = h]
    /\ UNCHANGED <<mine, table, holder, lineage>>

(* It withdraws a page: the frame waits for this processor to flush.  The    *)
(* exclusive hold it takes keeps every other hold out.                       *)
Withdraw(p) ==
    /\ Changed /\ hold = "none" /\ table[p] # None
    /\ holder' = [holder EXCEPT ![table[p]] = "withdrawn"]
    /\ table' = [table EXCEPT ![p] = None]
    /\ UNCHANGED <<mine, content, lineage>>

Map(p, f) ==
    /\ Changed /\ hold = "none" /\ table[p] = None /\ holder[f] = "pool"
    /\ table' = [table EXCEPT ![p] = f] /\ holder' = [holder EXCEPT ![f] = "caller"]
    /\ UNCHANGED <<mine, content, lineage>>

(* This processor answers an invalidation in ring 3, or while it waits for   *)
(* a lock: interrupts are masked from the entry on.                          *)
FlushHere ==
    /\ step \in {"user", "reap", "hold", "exclusive", "reap_after"}
    /\ \E f \in Frames : holder[f] = "withdrawn"
    /\ holder' = [f \in Frames |-> IF holder[f] = "withdrawn" THEN "pool" ELSE holder[f]]
    /\ UNCHANGED <<mine, table, content, lineage, changes>>

(* A frame of the pool is given to somebody else, who fills it. *)
Reuse(f) ==
    /\ holder[f] = "pool"
    /\ holder' = [holder EXCEPT ![f] = "other"] /\ content' = [content EXCEPT ![f] = "other"]
    /\ UNCHANGED <<mine, table, lineage, changes>>

Fence ==
    /\ Changed /\ hold = "none" /\ lineage = "live"
    /\ lineage' = "dead"
    /\ UNCHANGED <<mine, memory>>

(* Another thread closes the handle: for a memory object, under the exclusive *)
(* hold.                                                                      *)
Closed ==
    /\ Changed /\ hold = "none" /\ lineage # "gone"
    /\ lineage' = "gone"
    /\ UNCHANGED <<mine, memory>>

EntryNext ==
    \/ \E o \in Operations, c \in Structure : invoke(o, c)
    \/ reap_dead \/ walk \/ faults \/ copy_in \/ copy_out \/ validate_header
    \/ Acquire \/ shared_declines \/ exclusive \/ resolve
    \/ \E c \in {"OK", "REFUSED"}, wrote \in BOOLEAN : simple(c, wrote)
    \/ Release \/ write_response
    \/ \E p \in Pages, h \in {"asked", "else"} : Rewrite(p, h)
    \/ \E p \in Pages : Withdraw(p)
    \/ \E p \in Pages, f \in Frames : Map(p, f)
    \/ FlushHere \/ Fence \/ Closed
    \/ \E f \in Frames : Reuse(f)

EntrySpec == EntryInit /\ [][EntryNext]_entry_vars

-----------------------------------------------------------------------------

(* A handler acts only on a header that was accepted and on a capability     *)
(* that is alive at that moment, whatever the domain's other threads wrote   *)
(* into the descriptor and whatever was fenced since the entry: the copy is  *)
(* what is checked, and the resolution is made in the hold the handler runs  *)
(* in, again when the shared path gave up (api/mod.rs, invoke and shared).   *)
ActsOnChecked == acted' # acted => Resolves /\ (call.reads => staged = "asked")

(* The frame a copy is about to read or write still belongs to the caller's  *)
(* space or waits for this processor's flush; it was never given to somebody *)
(* else, although no lock is held ("the frame stays where it is until the    *)
(* copy is over", ucopy.rs).                                                 *)
CopiesOwned ==
    step \in {"in_chunk", "out_chunk"} => holder[frame] \in {"caller", "withdrawn"}
=============================================================================
