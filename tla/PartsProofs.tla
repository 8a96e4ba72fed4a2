----------------------------- MODULE PartsProofs -----------------------------
(***************************************************************************)
(* Proofs about three parts of the kernel that share no state: the withdrawal *)
(* of mappings, the processors' start and the entry of an operation.  Each *)
(* part has its own inductive invariant, stated before its lemmas, and its own *)
(* theorems.                                                               *)
(***************************************************************************)
EXTENDS TLAPS, TlbShootdown, Smp, Invoke

-----------------------------------------------------------------------------
(***************************************************************************)
(* TlbShootdown.                                                           *)
(* For any number of processors and mappings: a shootdown that reports its *)
(* generation acknowledged leaves no translation of the mapping anywhere,  *)
(* and frames that come back by the object's own record of its             *)
(* withdrawals, or from the quarantine, are reached by none.               *)
(* The inductive invariant says of a stale translation who must still know *)
(* of it: the shootdown that waits for its processor (Awaited) and the     *)
(* object that remembers it (Remembered).  Both speak of a processor that  *)
(* has not flushed since, and is not about to record that it has (Owes):   *)
(* that is what a refresh in progress, between its flush and its record,   *)
(* would otherwise break.  There is one lemma per action.                  *)
(***************************************************************************)

\* What collect_memory_acked may do to the object.
Outcome ==
  \/ UNCHANGED <<gen, frames, stamp>>
  \/ /\ frames = "owned" /\ ~named /\ pte = {}
     /\ frames' = "free" /\ UNCHANGED <<gen, stamp>>
  \/ /\ frames = "owned" /\ ~named /\ pte = {}
     /\ frames' = "quarantine" /\ gen' = gen + 1 /\ stamp' = gen + 1

\* collect_memory_acked leaves the object alone, frees its frames, or sends them
\* to the quarantine with a new generation.
LEMMA CollectOutcome ==
  ASSUME NEW acked \in BOOLEAN, Collect(acked) PROVE Outcome
BY DEF Collect, Outcome

\* The statics of tlb.rs and an object nothing has mapped yet.
LEMMA InitKeeps == Init => IInv
<1>. SUFFICES ASSUME Init PROVE IInv
  OBVIOUS
<1>1. TypeOK
  <2>1. named \in BOOLEAN /\ pending \in BOOLEAN
    BY Zenon DEF Init
  <2>2. pc \in [Cpus -> Steps] /\ back \in [Cpus -> Steps \ {"flush", "record"}]
    BY DEF Init, Steps, Locked
  <2>. QED BY <2>1, <2>2 DEF Init, TypeOK
<1>2. Orderly /\ Remembered
  BY ShootdownAssumption DEF Init, Orderly, Remembered, Calling, Doing, Locked
<1>3. \A c \in Cpus : ~Calling(c)
  BY DEF Init, Calling, Doing
<1>. QED BY <1>1, <1>2, <1>3 DEF IInv

\* A processor caches an entry that is in the tables.
LEMMA FillKeeps ==
  ASSUME NEW c \in Cpus, NEW m \in Maps, IInv, Fill(c, m) PROVE IInv'
<1>. USE ShootdownAssumption
<1>1. TypeOK'
  BY DEF IInv, TypeOK, Steps, Locked, Fill, local, object
<1>2. Orderly'
  BY DEF IInv, TypeOK, Orderly, Calling, Doing, Locked, Fill, local, object
<1>3. Remembered'
  BY DEF IInv, TypeOK, Orderly, Remembered, Owes, Calling, Doing, Fill, local, object
<1>4. (\A d \in Cpus : Calling(d) => Awaited(d))'
  BY DEF IInv, TypeOK, Orderly, Awaited, Owes, Calling, Doing, Fill, local, object
<1>. QED BY <1>1, <1>2, <1>3, <1>4 DEF IInv

\* A refresh from the interrupt or from a wait for the lock.
LEMMA ServiceKeeps ==
  ASSUME NEW c \in Cpus, IInv, Service(c) PROVE IInv'
<1>. USE ShootdownAssumption
<1>1. TypeOK'
  BY DEF IInv, TypeOK, Steps, Locked, Service, Refresh, Goto, Outside, object
<1>2. Orderly'
  BY DEF IInv, TypeOK, Orderly, Calling, Doing, Locked, Service, Refresh, Goto, Outside, object
<1>3. Remembered'
  BY DEF IInv, TypeOK, Orderly, Remembered, Owes, Calling, Doing, Service, Refresh, Goto, Outside, object
<1>4. (\A d \in Cpus : Calling(d) => Awaited(d))'
  BY DEF IInv, TypeOK, Orderly, Awaited, Owes, Calling, Doing, Service, Refresh, Goto, Outside, object
<1>. QED BY <1>1, <1>2, <1>3, <1>4 DEF IInv

\* The refresh between joining the live set and loading the space.
LEMMA RefreshLoadKeeps ==
  ASSUME NEW c \in Cpus, IInv, Refresh(c, "joined", "load") PROVE IInv'
<1>. USE ShootdownAssumption
<1>1. TypeOK'
  BY DEF IInv, TypeOK, Steps, Locked, Refresh, Goto, object
<1>2. Orderly'
  BY DEF IInv, TypeOK, Orderly, Calling, Doing, Locked, Refresh, Goto, object
<1>3. Remembered'
  BY DEF IInv, TypeOK, Orderly, Remembered, Owes, Calling, Doing, Refresh, Goto, object
<1>4. (\A d \in Cpus : Calling(d) => Awaited(d))'
  BY DEF IInv, TypeOK, Orderly, Awaited, Owes, Calling, Doing, Refresh, Goto, object
<1>. QED BY <1>1, <1>2, <1>3, <1>4 DEF IInv

\* The refresh before the space is left.
LEMMA RefreshUnloadKeeps ==
  ASSUME NEW c \in Cpus, IInv, Refresh(c, "user", "unload") PROVE IInv'
<1>. USE ShootdownAssumption
<1>1. TypeOK'
  BY DEF IInv, TypeOK, Steps, Locked, Refresh, Goto, object
<1>2. Orderly'
  BY DEF IInv, TypeOK, Orderly, Calling, Doing, Locked, Refresh, Goto, object
<1>3. Remembered'
  BY DEF IInv, TypeOK, Orderly, Remembered, Owes, Calling, Doing, Refresh, Goto, object
<1>4. (\A d \in Cpus : Calling(d) => Awaited(d))'
  BY DEF IInv, TypeOK, Orderly, Awaited, Owes, Calling, Doing, Refresh, Goto, object
<1>. QED BY <1>1, <1>2, <1>3, <1>4 DEF IInv

\* The refresh before the wait.
LEMMA RefreshWaitKeeps ==
  ASSUME NEW c \in Cpus, IInv, Refresh(c, "ready", "wait") PROVE IInv'
<1>. USE ShootdownAssumption
<1>1. TypeOK'
  BY DEF IInv, TypeOK, Steps, Locked, Refresh, Goto, object
<1>2. Orderly'
  BY DEF IInv, TypeOK, Orderly, Calling, Doing, Locked, Refresh, Goto, object
<1>3. Remembered'
  BY DEF IInv, TypeOK, Orderly, Remembered, Owes, Calling, Doing, Refresh, Goto, object
<1>4. (\A d \in Cpus : Calling(d) => Awaited(d))'
  BY DEF IInv, TypeOK, Orderly, Awaited, Owes, Calling, Doing, Refresh, Goto, object
<1>. QED BY <1>1, <1>2, <1>3, <1>4 DEF IInv

\* refresh_local flushes,
LEMMA FlushKeeps ==
  ASSUME NEW c \in Cpus, IInv, Flush(c) PROVE IInv'
<1>. USE ShootdownAssumption
<1>1. TypeOK'
  BY DEF IInv, TypeOK, Steps, Locked, Flush, Goto, local, object
<1>2. Orderly'
  BY DEF IInv, TypeOK, Orderly, Calling, Doing, Locked, Flush, Goto, local, object
<1>3. Remembered'
  BY DEF IInv, TypeOK, Orderly, Remembered, Owes, Calling, Doing, Flush, Goto, local, object
<1>4. (\A d \in Cpus : Calling(d) => Awaited(d))'
  BY DEF IInv, TypeOK, Orderly, Awaited, Owes, Calling, Doing, Flush, Goto, local, object
<1>. QED BY <1>1, <1>2, <1>3, <1>4 DEF IInv

\* and records the generation it read before it did.
LEMMA RecordKeeps ==
  ASSUME NEW c \in Cpus, IInv, Record(c) PROVE IInv'
<1>. USE ShootdownAssumption
<1>1. TypeOK'
  BY DEF IInv, TypeOK, Steps, Locked, Record, Goto, object
<1>2. Orderly'
  BY DEF IInv, TypeOK, Orderly, Calling, Doing, Locked, Record, Goto, object
<1>3. Remembered'
  BY DEF IInv, TypeOK, Orderly, Remembered, Owes, Calling, Doing, Record, Goto, object
<1>4. (\A d \in Cpus : Calling(d) => Awaited(d))'
  BY DEF IInv, TypeOK, Orderly, Awaited, Owes, Calling, Doing, Record, Goto, object
<1>. QED BY <1>1, <1>2, <1>3, <1>4 DEF IInv

\* A processor joins the live set.
LEMMA Note_dispatchKeeps ==
  ASSUME NEW c \in Cpus, IInv, note_dispatch(c) PROVE IInv'
<1>. USE ShootdownAssumption
<1>1. TypeOK'
  BY DEF IInv, TypeOK, Steps, Locked, note_dispatch, Outside, local, object
<1>2. Orderly'
  BY DEF IInv, TypeOK, Orderly, Calling, Doing, Locked, note_dispatch, Outside, local, object
<1>3. Remembered'
  BY DEF IInv, TypeOK, Orderly, Remembered, Owes, Calling, Doing, note_dispatch, Outside, local, object
<1>4. (\A d \in Cpus : Calling(d) => Awaited(d))'
  BY DEF IInv, TypeOK, Orderly, Awaited, Owes, Calling, Doing, note_dispatch, Outside, local, object
<1>. QED BY <1>1, <1>2, <1>3, <1>4 DEF IInv

\* It loads the space, being in the live set.
LEMMA LoadKeeps ==
  ASSUME NEW c \in Cpus, IInv, Load(c) PROVE IInv'
<1>. USE ShootdownAssumption
<1>1. TypeOK'
  BY DEF IInv, TypeOK, Orderly, Doing, Steps, Locked, Load, Goto, local, object
<1>2. Orderly'
  BY DEF IInv, TypeOK, Orderly, Calling, Doing, Locked, Load, Goto, local, object
<1>3. Remembered'
  BY DEF IInv, TypeOK, Orderly, Remembered, Owes, Calling, Doing, Load, Goto, local, object
<1>4. (\A d \in Cpus : Calling(d) => Awaited(d))'
  BY DEF IInv, TypeOK, Orderly, Awaited, Owes, Calling, Doing, Load, Goto, local, object
<1>. QED BY <1>1, <1>2, <1>3, <1>4 DEF IInv

\* It loads another one,
LEMMA UnloadKeeps ==
  ASSUME NEW c \in Cpus, IInv, Unload(c) PROVE IInv'
<1>. USE ShootdownAssumption
<1>1. TypeOK'
  BY DEF IInv, TypeOK, Steps, Locked, Unload, Goto, local, object
<1>2. Orderly'
  BY DEF IInv, TypeOK, Orderly, Calling, Doing, Locked, Unload, Goto, local, object
<1>3. Remembered'
  BY DEF IInv, TypeOK, Orderly, Remembered, Owes, Calling, Doing, Unload, Goto, local, object
<1>4. (\A d \in Cpus : Calling(d) => Awaited(d))'
  BY DEF IInv, TypeOK, Orderly, Awaited, Owes, Calling, Doing, Unload, Goto, local, object
<1>. QED BY <1>1, <1>2, <1>3, <1>4 DEF IInv

\* and leaves the live set with nothing cached.
LEMMA LeftKeeps ==
  ASSUME NEW c \in Cpus, IInv, Left(c) PROVE IInv'
<1>. USE ShootdownAssumption
<1>1. TypeOK'
  BY DEF IInv, TypeOK, Orderly, Doing, Steps, Locked, Left, Goto, local, object
<1>2. Orderly'
  BY DEF IInv, TypeOK, Orderly, Calling, Doing, Locked, Left, Goto, local, object
<1>3. Remembered'
  BY DEF IInv, TypeOK, Orderly, Remembered, Owes, Calling, Doing, Left, Goto, local, object
<1>4. (\A d \in Cpus : Calling(d) => Awaited(d))'
  BY DEF IInv, TypeOK, Orderly, Awaited, Owes, Calling, Doing, Left, Goto, local, object
<1>. QED BY <1>1, <1>2, <1>3, <1>4 DEF IInv

\* map installs entries.
LEMMA InstallKeeps ==
  ASSUME NEW c \in Cpus, NEW m \in Maps, IInv, Install(c, m) PROVE IInv'
<1>. USE ShootdownAssumption
<1>1. TypeOK'
  BY DEF IInv, TypeOK, Steps, Locked, Install, Outside, object
<1>2. Orderly'
  BY DEF IInv, TypeOK, Orderly, Calling, Doing, Locked, Install, Outside, object
<1>3. Remembered'
  BY DEF IInv, TypeOK, Orderly, Remembered, Owes, Calling, Doing, Install, Outside, object
<1>4. (\A d \in Cpus : Calling(d) => Awaited(d))'
  BY DEF IInv, TypeOK, Orderly, Awaited, Owes, Calling, Doing, Install, Outside, object
<1>. QED BY <1>1, <1>2, <1>3, <1>4 DEF IInv

\* The end of map, and its failure.
LEMMA InstalledKeeps ==
  ASSUME NEW c \in Cpus, IInv, Installed(c) PROVE IInv'
<1>. USE ShootdownAssumption
<1>1. TypeOK'
  BY DEF IInv, TypeOK, Steps, Locked, Installed, Goto, Home, object
<1>2. Orderly'
  BY DEF IInv, TypeOK, Orderly, Calling, Doing, Locked, Installed, Goto, Home, object
<1>3. Remembered'
  BY DEF IInv, TypeOK, Orderly, Remembered, Owes, Calling, Doing, Installed, Goto, Home, object
<1>4. (\A d \in Cpus : Calling(d) => Awaited(d))'
  BY DEF IInv, TypeOK, Orderly, Awaited, Owes, Calling, Doing, Installed, Goto, Home, object
<1>. QED BY <1>1, <1>2, <1>3, <1>4 DEF IInv

\* unmap is called.
LEMMA UnmapKeeps ==
  ASSUME NEW c \in Cpus, IInv, Unmap(c) PROVE IInv'
<1>. USE ShootdownAssumption
<1>1. TypeOK'
  BY DEF IInv, TypeOK, Steps, Locked, Unmap, Outside, local, object
<1>2. Orderly'
  BY DEF IInv, TypeOK, Orderly, Calling, Doing, Locked, Unmap, Outside, local, object
<1>3. Remembered'
  BY DEF IInv, TypeOK, Orderly, Remembered, Owes, Calling, Doing, Unmap, Outside, local, object
<1>4. (\A d \in Cpus : Calling(d) => Awaited(d))'
  BY DEF IInv, TypeOK, Orderly, Awaited, Owes, Calling, Doing, Unmap, Outside, local, object
<1>. QED BY <1>1, <1>2, <1>3, <1>4 DEF IInv

\* No record matches.
LEMMA UnmapNoneKeeps ==
  ASSUME NEW c \in Cpus, IInv, UnmapNone(c) PROVE IInv'
<1>. USE ShootdownAssumption
<1>1. TypeOK'
  BY DEF IInv, TypeOK, Steps, Locked, UnmapNone, Goto, Home, local, object
<1>2. Orderly'
  BY DEF IInv, TypeOK, Orderly, Calling, Doing, Locked, UnmapNone, Goto, Home, local, object
<1>3. Remembered'
  BY DEF IInv, TypeOK, Orderly, Remembered, Owes, Calling, Doing, UnmapNone, Goto, Home, local, object
<1>4. (\A d \in Cpus : Calling(d) => Awaited(d))'
  BY DEF IInv, TypeOK, Orderly, Awaited, Owes, Calling, Doing, UnmapNone, Goto, Home, local, object
<1>. QED BY <1>1, <1>2, <1>3, <1>4 DEF IInv

\* The entries of one mapping go.
LEMMA RemoveKeeps ==
  ASSUME NEW c \in Cpus, NEW m \in Maps, IInv, Remove(c, m) PROVE IInv'
<1>. USE ShootdownAssumption
<1>1. TypeOK'
  BY DEF IInv, TypeOK, Steps, Locked, Remove, Goto, object
<1>2. Orderly'
  BY DEF IInv, TypeOK, Orderly, Calling, Doing, Locked, Remove, Goto, object
<1>3. Remembered'
  BY DEF IInv, TypeOK, Orderly, Remembered, Owes, Calling, Doing, Remove, Goto, object
<1>4. (\A d \in Cpus : Calling(d) => Awaited(d))'
  BY DEF IInv, TypeOK, Orderly, Awaited, Owes, Calling, Doing, Remove, Goto, object
<1>. QED BY <1>1, <1>2, <1>3, <1>4 DEF IInv

\* publish: every processor is behind the generation that is recorded.
LEMMA PublishKeeps ==
  ASSUME NEW c \in Cpus, IInv, Publish(c) PROVE IInv'
<1>. USE ShootdownAssumption
<1>1. TypeOK'
  BY DEF IInv, TypeOK, Steps, Locked, Publish, Goto, local
<1>2. Orderly'
  BY DEF IInv, TypeOK, Orderly, Calling, Doing, Locked, Publish, Goto, local
<1>3. Remembered'
  BY DEF IInv, TypeOK, Orderly, Remembered, Owes, Calling, Doing, Locked, Publish, Goto, local
<1>4. (\A d \in Cpus : Calling(d) => Awaited(d))'
  BY DEF IInv, TypeOK, Orderly, Awaited, Owes, Calling, Doing, Publish, Goto, local
<1>. QED BY <1>1, <1>2, <1>3, <1>4 DEF IInv

\* The processors in the live set are remembered: any holder is among them.
LEMMA HoldKeeps ==
  ASSUME NEW c \in Cpus, IInv, Hold(c) PROVE IInv'
<1>. USE ShootdownAssumption
<1>1. TypeOK'
  BY DEF IInv, TypeOK, Steps, Locked, Hold, Goto, local
<1>2. Orderly'
  BY DEF IInv, TypeOK, Orderly, Calling, Doing, Locked, Hold, Goto, local
<1>3. Remembered'
  BY DEF IInv, TypeOK, Orderly, Remembered, Owes, Calling, Doing, Hold, Goto, local
<1>4. (\A d \in Cpus : Calling(d) => Awaited(d))'
  BY DEF IInv, TypeOK, Orderly, Awaited, Owes, Calling, Doing, Hold, Goto, local
<1>. QED BY <1>1, <1>2, <1>3, <1>4 DEF IInv

\* shootdown_space publishes again: every processor owes its generation.
LEMMA AnnounceKeeps ==
  ASSUME NEW c \in Cpus, IInv, Announce(c) PROVE IInv'
<1>. USE ShootdownAssumption
<1>1. TypeOK'
  BY DEF IInv, TypeOK, Steps, Locked, Announce, Goto, object
<1>2. Orderly'
  BY DEF IInv, TypeOK, Orderly, Calling, Doing, Locked, Announce, Goto, object
<1>3. Remembered'
  BY DEF IInv, TypeOK, Orderly, Remembered, Owes, Calling, Doing, Announce, Goto, object
<1>4. (\A d \in Cpus : Calling(d) => Awaited(d))'
  BY DEF IInv, TypeOK, Orderly, Awaited, Owes, Calling, Doing, Announce, Goto, object
<1>. QED BY <1>1, <1>2, <1>3, <1>4 DEF IInv

\* Whoever has the translation is in the live set that is read.
LEMMA LookKeeps ==
  ASSUME NEW c \in Cpus, IInv, Look(c) PROVE IInv'
<1>. USE ShootdownAssumption
<1>1. TypeOK'
  BY DEF IInv, TypeOK, Steps, Locked, Look, Goto, object
<1>2. Orderly'
  BY DEF IInv, TypeOK, Orderly, Calling, Doing, Locked, Look, Goto, object
<1>3. Remembered'
  BY DEF IInv, TypeOK, Orderly, Remembered, Owes, Calling, Doing, Look, Goto, object
<1>4. (\A d \in Cpus : Calling(d) => Awaited(d))'
  BY DEF IInv, TypeOK, Orderly, Awaited, Owes, Calling, Doing, Look, Goto, object
<1>. QED BY <1>1, <1>2, <1>3, <1>4 DEF IInv

\* Nobody the shootdown waits for owes its generation.
LEMMA AckedKeeps ==
  ASSUME NEW c \in Cpus, IInv, Acked(c) PROVE IInv'
<1>. USE ShootdownAssumption
<1>1. TypeOK'
  BY DEF IInv, TypeOK, Steps, Locked, Acked, Goto, local, object
<1>2. Orderly'
  BY DEF IInv, TypeOK, Orderly, Calling, Doing, Locked, Acked, Goto, local, object
<1>3. Remembered'
  BY DEF IInv, TypeOK, Orderly, Remembered, Owes, Calling, Doing, Acked, Goto, local, object
<1>4. (\A d \in Cpus : Calling(d) => Awaited(d))'
  BY DEF IInv, TypeOK, Orderly, Awaited, Owes, Calling, Doing, Acked, Goto, local, object
<1>. QED BY <1>1, <1>2, <1>3, <1>4 DEF IInv

\* The wait ends without its answers.
LEMMA TimedOutKeeps ==
  ASSUME NEW c \in Cpus, IInv, TimedOut(c) PROVE IInv'
<1>. USE ShootdownAssumption
<1>1. TypeOK'
  BY DEF IInv, TypeOK, Steps, Locked, TimedOut, Goto, local, object
<1>2. Orderly'
  BY DEF IInv, TypeOK, Orderly, Calling, Doing, Locked, TimedOut, Goto, local, object
<1>3. Remembered'
  BY DEF IInv, TypeOK, Orderly, Remembered, Owes, Calling, Doing, TimedOut, Goto, local, object
<1>4. (\A d \in Cpus : Calling(d) => Awaited(d))'
  BY DEF IInv, TypeOK, Orderly, Awaited, Owes, Calling, Doing, TimedOut, Goto, local, object
<1>. QED BY <1>1, <1>2, <1>3, <1>4 DEF IInv

\* unmap looks at the object again.
LEMMA UnmappedKeeps ==
  ASSUME NEW c \in Cpus, IInv, Unmapped(c) PROVE IInv'
<1>. USE ShootdownAssumption
<1>0. Outcome
  <2>1. (pc[c] = "acked") \in BOOLEAN
    OBVIOUS
  <2>. QED BY <2>1, CollectOutcome, Zenon DEF Unmapped
<1>1. TypeOK'
  BY <1>0 DEF IInv, TypeOK, Steps, Locked, Unmapped, Home, Outcome
<1>2. Orderly'
  BY <1>0 DEF IInv, TypeOK, Orderly, Calling, Doing, Locked, Unmapped, Home, Outcome
<1>3. Remembered'
  BY <1>0 DEF IInv, TypeOK, Orderly, Remembered, Owes, Calling, Doing, Unmapped, Home, Outcome
<1>4. (\A d \in Cpus : Calling(d) => Awaited(d))'
  BY <1>0 DEF IInv, TypeOK, Orderly, Awaited, Owes, Calling, Doing, Unmapped, Home, Outcome
<1>. QED BY <1>1, <1>2, <1>3, <1>4 DEF IInv

\* The last capability is closed.
LEMMA Release_entryKeeps ==
  ASSUME IInv, release_entry PROVE IInv'
<1>. USE ShootdownAssumption
<1>1. TypeOK'
  BY DEF IInv, TypeOK, Steps, Locked, release_entry, local
<1>2. Orderly'
  BY DEF IInv, TypeOK, Orderly, Calling, Doing, Locked, release_entry, local
<1>3. Remembered'
  BY DEF IInv, TypeOK, Orderly, Remembered, Owes, Calling, Doing, release_entry, local
<1>4. (\A d \in Cpus : Calling(d) => Awaited(d))'
  BY DEF IInv, TypeOK, Orderly, Awaited, Owes, Calling, Doing, release_entry, local
<1>. QED BY <1>1, <1>2, <1>3, <1>4 DEF IInv

\* The next exclusive holder looks at the object.
LEMMA Drain_pending_memoryKeeps ==
  ASSUME IInv, drain_pending_memory PROVE IInv'
<1>. USE ShootdownAssumption
<1>0. Outcome
  BY FALSE \in BOOLEAN, CollectOutcome, Zenon DEF drain_pending_memory
<1>1. TypeOK'
  <2>1. named' \in BOOLEAN /\ pending' \in BOOLEAN
    BY Zenon DEF drain_pending_memory, IInv, TypeOK
  <2>2. UNCHANGED <<seen, live, loaded, tlb, pte, fresh, lock, pc, local, named, at, held>>
    BY DEF drain_pending_memory
  <2>. QED BY <1>0, <2>1, <2>2 DEF IInv, TypeOK, Outcome, local
<1>2. Orderly'
  BY <1>0 DEF IInv, TypeOK, Orderly, Calling, Doing, Locked, drain_pending_memory, Outcome, local
<1>3. Remembered'
  BY <1>0 DEF IInv, TypeOK, Orderly, Remembered, Owes, Calling, Doing, drain_pending_memory, Outcome, local
<1>4. (\A d \in Cpus : Calling(d) => Awaited(d))'
  BY <1>0 DEF IInv, TypeOK, Orderly, Awaited, Owes, Calling, Doing, drain_pending_memory, Outcome, local
<1>. QED BY <1>1, <1>2, <1>3, <1>4 DEF IInv

\* The quarantine gives its frames back.
LEMMA Drain_quarantineKeeps ==
  ASSUME IInv, drain_quarantine PROVE IInv'
<1>. USE ShootdownAssumption
<1>1. TypeOK'
  BY DEF IInv, TypeOK, Steps, Locked, drain_quarantine, local
<1>2. Orderly'
  BY DEF IInv, TypeOK, Orderly, Calling, Doing, Locked, drain_quarantine, local
<1>3. Remembered'
  BY DEF IInv, TypeOK, Orderly, Remembered, Owes, Calling, Doing, drain_quarantine, local
<1>4. (\A d \in Cpus : Calling(d) => Awaited(d))'
  BY DEF IInv, TypeOK, Orderly, Awaited, Owes, Calling, Doing, drain_quarantine, local
<1>. QED BY <1>1, <1>2, <1>3, <1>4 DEF IInv

\* The perimeter of the sponsor is retired.
LEMMA Release_sponsoredKeeps ==
  ASSUME IInv, release_sponsored PROVE IInv'
<1>. USE ShootdownAssumption
<1>1. TypeOK'
  BY DEF IInv, TypeOK, Steps, Locked, release_sponsored, local
<1>2. Orderly'
  BY DEF IInv, TypeOK, Orderly, Calling, Doing, Locked, release_sponsored, local
<1>3. Remembered'
  BY DEF IInv, TypeOK, Orderly, Remembered, Owes, Calling, Doing, release_sponsored, local
<1>4. (\A d \in Cpus : Calling(d) => Awaited(d))'
  BY DEF IInv, TypeOK, Orderly, Awaited, Owes, Calling, Doing, release_sponsored, local
<1>. QED BY <1>1, <1>2, <1>3, <1>4 DEF IInv

\* Every step of the machine keeps the invariant.
LEMMA NextKeeps == IInv /\ [Next]_vars => IInv'
<1>. SUFFICES ASSUME IInv, [Next]_vars PROVE IInv'
  OBVIOUS
<1>1. CASE UNCHANGED vars
  <2>1. TypeOK' /\ Orderly'
    BY <1>1, SMTT(30) DEF IInv, TypeOK, Orderly, Calling, Doing, vars, local, object
  <2>3. Remembered'
    <3>1. /\ seen' = seen /\ tlb' = tlb /\ pte' = pte /\ pc' = pc /\ wanted' = wanted /\ map' = map
          /\ at' = at /\ held' = held /\ frames' = frames /\ stamp' = stamp
      BY <1>1 DEF vars, local, object
    <3>2. Remembered
      BY DEF IInv
    <3>3. SUFFICES ASSUME NEW q \in Cpus, NEW m \in tlb'[q] \ (pte' \cup Clashing)
                   PROVE  \/ \E c \in Cpus : pc'[c] = "publish" /\ map'[c] = m
                          \/ /\ Owes(q, at)'
                             /\ q \in held' \/ \E c \in Cpus : pc'[c] = "hold" /\ map'[c] = m
                             /\ frames' = "quarantine" => Owes(q, stamp)'
      BY Zenon DEF Remembered
    <3>4. /\ Owes(q, at) => Owes(q, at)'
          /\ Owes(q, stamp) => Owes(q, stamp)'
      BY <3>1, Zenon DEF Owes
    <3>5. \/ \E c \in Cpus : pc[c] = "publish" /\ map[c] = m
          \/ /\ Owes(q, at)
             /\ q \in held \/ \E c \in Cpus : pc[c] = "hold" /\ map[c] = m
             /\ frames = "quarantine" => Owes(q, stamp)
      BY <3>1, <3>2, Zenon DEF Remembered
    <3>. QED BY <3>1, <3>4, <3>5, Zenon
  <2>2. (\A d \in Cpus : Calling(d) => Awaited(d))'
    BY <1>1 DEF IInv, Awaited, Owes, Calling, Doing, vars, local, object
  <2>. QED BY <2>1, <2>2, <2>3 DEF IInv
<1>2. ASSUME NEW c \in Cpus, Call(c) PROVE IInv'
  BY <1>2, UnmapKeeps, UnmapNoneKeeps, PublishKeeps, HoldKeeps, AnnounceKeeps, LookKeeps,
     RefreshWaitKeeps, AckedKeeps, TimedOutKeeps, UnmappedKeeps, InstalledKeeps,
     InstallKeeps, RemoveKeeps DEF Call
<1>3. ASSUME NEW c \in Cpus, Switch(c) PROVE IInv'
  BY <1>3, Note_dispatchKeeps, RefreshLoadKeeps, LoadKeeps, RefreshUnloadKeeps, UnloadKeeps,
     LeftKeeps DEF Switch
<1>4. ASSUME NEW c \in Cpus, Service(c) \/ Flush(c) \/ Record(c) PROVE IInv'
  BY <1>4, ServiceKeeps, FlushKeeps, RecordKeeps
<1>5. ASSUME NEW c \in Cpus, NEW m \in Maps, Fill(c, m) PROVE IInv'
  BY <1>5, FillKeeps
<1>6. CASE release_entry \/ drain_pending_memory \/ drain_quarantine \/ release_sponsored
  BY <1>6, Release_entryKeeps, Drain_pending_memoryKeeps, Drain_quarantineKeeps, Release_sponsoredKeeps
<1>. QED BY <1>1, <1>2, <1>3, <1>4, <1>5, <1>6 DEF Next

\* Whatever the interleaving of shootdowns, switches and refreshes, a stale
\* translation is one that a shootdown awaits and that the object remembers.
THEOREM Inductive == Spec => []IInv
<1>. QED BY InitKeeps, NextKeeps, PTL DEF Spec

\* shootdown_space: an acknowledged generation means that no processor has a
\* translation of the mapping.
THEOREM AcknowledgedIsGone == Spec => []AckedMeansGone
<1>1. IInv => AckedMeansGone
  BY DEF IInv, TypeOK, Orderly, Awaited, AckedMeansGone, Calling
<1>. QED BY <1>1, Inductive, PTL

\* Without the lock, whoever has a translation owes the generations the object
\* and the quarantine recorded, so neither takes itself for flushed.
LEMMA NotFlushed ==
  ASSUME IInv, lock = NoCpu, pte = {}, NEW q \in Cpus, ~(tlb[q] \subseteq Clashing)
  PROVE  /\ ~Immediate(FALSE)
         /\ frames = "quarantine" => ~FlushedBy(Cpus, stamp)
<1>1. PICK m \in tlb[q] : m \notin Clashing
  OBVIOUS
<1>2. \A c \in Cpus : pc[c] \notin {"publish", "hold"}
  BY ShootdownAssumption DEF IInv, TypeOK, Orderly, Doing, Locked
<1>3. Owes(q, at) /\ q \in held /\ (frames = "quarantine" => Owes(q, stamp))
  BY <1>1, <1>2 DEF IInv, Remembered
<1>4. seen[q] \in Nat /\ at \in Nat
  BY DEF IInv, TypeOK
<1>5. at # 0 /\ ~FlushedBy(held, at) /\ ~FlushedBy(Cpus, at)
  BY <1>3, <1>4 DEF IInv, TypeOK, Owes, FlushedBy
<1>6. frames = "quarantine" => ~FlushedBy(Cpus, stamp)
  BY <1>3, <1>4 DEF IInv, TypeOK, Owes, FlushedBy
<1>. QED BY <1>5, <1>6, Zenon DEF Immediate

\* The order of the generations of `shootdown_space`.
LEMMA Later == \A a, b, c \in Nat : a < b /\ b <= c => a < c
OBVIOUS

\* withdraw_map and shootdown_space: once the machine lock is free, a processor that
\* still has a translation of a withdrawn mapping is behind the generation, so its
\* next refresh flushes.
THEOREM WithdrawalsAnnounced == Spec => []Announced
<1>1. IInv => Announced
  <2>. SUFFICES ASSUME IInv, lock = NoCpu, NEW q \in Cpus,
                       NEW m \in tlb[q], m \notin pte \cup Clashing
                PROVE  seen[q] < gen
    BY DEF Announced
  <2>1. \A c \in Cpus : pc[c] # "publish"
    BY ShootdownAssumption DEF IInv, Orderly, Doing, Locked
  <2>2. Owes(q, at)
    BY <2>1 DEF IInv, Remembered
  <2>3. seen[q] \in Nat /\ at \in Nat /\ gen \in Nat /\ at <= gen
    BY DEF IInv, TypeOK
  <2>4. seen[q] < at BY <2>2, Zenon DEF Owes
  <2>. QED BY <2>3, <2>4, Later, Zenon
<1>. QED BY <1>1, Inductive, PTL

\* collect_memory, drain_quarantine, and unmap where the object had one mapping:
\* frames become free when no processor has a translation of a withdrawn mapping.
THEOREM RecordIsEnough == Spec => RecordedReclaim
<1>1. ASSUME IInv, [Next]_vars, Reclaims, NEW q \in Cpus, ~(tlb[q] \subseteq Clashing),
             \A c \in Cpus : pc[c] = "acked" => pc'[c] = "acked" \/ Maps \ fresh = {map[c]}
      PROVE  FALSE
  <2>1. CASE drain_quarantine
    BY <1>1, <2>1, NotFlushed DEF drain_quarantine, IInv, Orderly
  <2>2. CASE Collect(FALSE) /\ lock = NoCpu
    <3>1. frames = "owned" /\ pte = {} /\ Immediate(FALSE)
      BY <1>1, <2>2 DEF Collect, Reclaims
    <3>. QED BY <1>1, <2>2, <3>1, NotFlushed, Zenon
  <2>3. CASE drain_pending_memory
    BY <2>2, <2>3 DEF drain_pending_memory
  <2>4. ASSUME NEW c \in Cpus, Unmapped(c) PROVE FALSE
    <3>1. pc'[c] # "acked"
      BY <2>4, <1>1 DEF Unmapped, Home, IInv, TypeOK
    <3>2. CASE pc[c] = "acked"
      <4>1. Maps \ fresh = {map[c]}
        BY <1>1, <3>1, <3>2
      <4>2. tlb[q] \subseteq Maps \ fresh
        BY <1>1 DEF IInv, TypeOK, Orderly
      <4>3. map[c] \notin tlb[q]
        BY <1>1, <3>2 DEF IInv, Awaited, Calling, Doing
      <4>. QED BY <1>1, <4>1, <4>2, <4>3
    <3>3. CASE pc[c] # "acked"
      <4>1. (pc[c] = "acked") = FALSE
        BY <3>3
      <4>. QED BY <2>2, <2>4, <4>1, Zenon DEF Unmapped
    <3>. QED BY <3>2, <3>3
  <2>5. CASE UNCHANGED frames \/ release_sponsored
    BY <1>1, <2>5 DEF Reclaims, release_sponsored
  <2>6. \/ UNCHANGED frames \/ release_sponsored \/ drain_quarantine
        \/ drain_pending_memory \/ \E c \in Cpus : Unmapped(c)
    <3>1. ASSUME NEW c \in Cpus, Call(c) PROVE UNCHANGED frames \/ Unmapped(c)
      BY <3>1 DEF Call, Unmap, UnmapNone, Publish, Hold, Announce, Look, Refresh, Acked, TimedOut,
         Install, Installed, Remove, object
    <3>2. ASSUME NEW c \in Cpus, Switch(c) PROVE UNCHANGED frames
      BY <3>2 DEF Switch, note_dispatch, Refresh, Load, Unload, Left, object
    <3>3. ASSUME NEW c \in Cpus, Service(c) \/ Flush(c) \/ Record(c) PROVE UNCHANGED frames
      BY <3>3 DEF Service, Refresh, Flush, Record, object
    <3>4. ASSUME NEW c \in Cpus, NEW m \in Maps, Fill(c, m) PROVE UNCHANGED frames
      BY <3>4 DEF Fill, object
    <3>5. CASE release_entry
      BY <3>5 DEF release_entry
    <3>6. CASE UNCHANGED vars
      BY <3>6 DEF vars, object
    <3>. QED BY <1>1, <3>1, <3>2, <3>3, <3>4, <3>5, <3>6 DEF Next
  <2>. QED BY <2>1, <2>3, <2>4, <2>5, <2>6
<1>2. IInv /\ [Next]_vars
        => [Reclaims /\ (\A c \in Cpus :
                           pc[c] = "acked" => pc'[c] = "acked" \/ Maps \ fresh = {map[c]})
              => \A q \in Cpus : tlb[q] \subseteq Clashing]_vars
  BY <1>1
<1>. QED BY <1>2, Inductive, PTL DEF Spec, RecordedReclaim

-----------------------------------------------------------------------------
(***************************************************************************)
(* Smp.  The block of the trampoline names one slot at a time: what keeps  *)
(* processors apart is that a slot is given once, whether or not its       *)
(* processor answered, and that the block is read while it names that slot. *)
(***************************************************************************)

\* The bootstrap processor is between the block it wrote and the next entry.
Starting == bsp \in {"init", "again", "wait"}

\* Slots are given in order and never twice: a processor's is below the next one, or it
\* is the one being started, whose slot the block names; who runs took the slot it was given.
SmpIInv ==
    /\ entry \in Nat \ {0} /\ next \in Nat
    /\ slotOf \in [Entries -> Nat] /\ given \in [Entries -> Nat]
    /\ bsp \in {"space", "start"} \cup {"init", "again", "wait"} \cup {"up", "stopping", "parked", "park_timeout"}
    /\ Starting => entry \in Entries /\ next < MAX_CPUS /\ params = next /\ given[entry] = next
    /\ \A p \in Entries : given[p] # NoSlot =>
         \/ p < entry /\ given[p] < next
         \/ Starting /\ p = entry
    /\ \A p, q \in Entries : given[p] # NoSlot /\ given[p] = given[q] => p = q
    /\ \A p \in Entries : slotOf[p] # NoSlot => slotOf[p] = given[p]

\* However many processors the firmware describes and however many slots there are, no two
\* processors run as one slot or on one stack, and each runs as the one start_one gave it,
\* if none reads the trampoline's block after its deadline (smp.rs, start_one and ap_entry).
THEOREM SlotsStayApart ==
  ASSUME MAX_CPUS \in Nat, Described \in Nat, ~Late
  PROVE  SmpSpec => []StacksApart
<1>1. SmpInit => SmpIInv
  BY DEF SmpInit, SmpIInv, Starting, Entries, NoSlot
<1>2. SmpIInv /\ [SmpNext]_smp_vars => SmpIInv'
  <2> SUFFICES ASSUME SmpIInv, [SmpNext]_smp_vars PROVE SmpIInv'
    OBVIOUS
  <2> USE DEF SmpIInv, Starting, Entries, NoSlot
  <2>1. CASE start_all
    BY <2>1 DEF start_all, APs, Stopping
  <2>2. CASE skip_full
    BY <2>2 DEF skip_full, APs, Stopping
  <2>3. CASE start_one
    <3>1. given[entry] = NoSlot /\ slotOf[entry] = NoSlot
      BY <2>3 DEF start_one
    <3>2. CASE NextTurn(FALSE) /\ UNCHANGED <<params, alive, given>>
      BY <2>3, <3>2 DEF start_one, NextTurn, NextSlot
    <3>3. CASE given' = [given EXCEPT ![entry] = next] /\ bsp' = "init"
      <4>1. /\ bsp = "start" /\ bsp' = "init" /\ entry \in Entries /\ next < MAX_CPUS
            /\ UNCHANGED <<entry, next, slotOf>> /\ params' = next
        BY <2>3, <3>3 DEF start_one, NextTurn
      <4>2. given' \in [Entries -> Nat] /\ given'[entry] = next
        BY <3>3, <4>1
      <4>3. \A p \in Entries : p # entry => given'[p] = given[p]
        BY <3>3, <4>1
      <4>4. \A p \in Entries : given[p] # NoSlot => p < entry /\ given[p] < next
        BY <4>1
      <4>5. \A p, q \in Entries : given'[p] # NoSlot /\ given'[p] = given'[q] => p = q
        <5>1. next # NoSlot BY <4>1
        <5>2. \A p \in Entries : p # entry => given'[p] # next
          <6>1. \A p \in Entries : given[p] # NoSlot => given[p] # next BY <4>4
          <6> QED BY <4>3, <5>1, <6>1, Zenon
        <5>3. \A p, q \in Entries : given[p] # NoSlot /\ given[p] = given[q] => p = q
          BY Zenon DEF SmpIInv
        <5> QED BY <4>2, <4>3, <5>2, <5>3, Zenon
      <4>6. \A p \in Entries : slotOf[p] # NoSlot => slotOf[p] = given'[p]
        BY <3>1, <4>1, <4>3
      <4>7. \A p \in Entries : given'[p] # NoSlot => (p < entry /\ given'[p] < next) \/ p = entry
        BY <4>3, <4>4
      <4> QED
        BY <4>1, <4>2, <4>5, <4>6, <4>7
    <3> QED
      BY <2>3, <3>2, <3>3 DEF start_one
  <2>4. CASE no_controller
    BY <2>4 DEF no_controller, NextTurn, NextSlot, APs, Stopping
  <2>5. CASE send_startup
    BY <2>5 DEF send_startup, APs, Stopping
  <2>6. CASE one_startup
    BY <2>6 DEF one_startup, APs, Stopping
  <2>7. CASE handshake
    BY <2>7 DEF handshake, NextTurn, NextSlot, APs, Stopping
  <2>8. CASE ap_timeout
    BY <2>8 DEF ap_timeout, NextTurn, NextSlot, APs, Stopping
  <2>9. CASE probe_absent_processor
    BY <2>9 DEF probe_absent_processor, APs, Stopping
  <2>10. CASE stop_all
    BY <2>10 DEF stop_all, APs, Stopping
  <2>11. CASE stopped
    BY <2>11 DEF stopped, APs, Stopping
  <2>12. ASSUME NEW p \in Entries, trampoline(p) PROVE SmpIInv'
    BY <2>12 DEF trampoline, InTime, APs, Stopping
  <2>13. ASSUME NEW p \in Entries, ap_entry(p) \/ ap_online(p) \/ park(p) PROVE SmpIInv'
    BY <2>13 DEF ap_entry, ap_online, park, APs, Stopping
  <2>14. CASE UNCHANGED smp_vars
    BY <2>14 DEF smp_vars
  <2> QED
    BY <2>1, <2>2, <2>3, <2>4, <2>5, <2>6, <2>7, <2>8, <2>9, <2>10, <2>11, <2>12, <2>13, <2>14 DEF SmpNext
<1>3. SmpIInv => StacksApart
  BY DEF SmpIInv, StacksApart, Running
<1> QED
  BY <1>1, <1>2, <1>3, PTL DEF SmpSpec

-----------------------------------------------------------------------------
(***************************************************************************)
(* Invoke.  No lock is held during the copies: what protects a frame is that *)
(* this processor has not flushed.  What protects a decision is that it is *)
(* made on the copy, and in the hold in which it is used.                  *)
(***************************************************************************)

\* The steps after the header was accepted, until the handler is done.
Ready == {"hold", "resolve", "exclusive", "handler"}

\* A mapped frame is the caller's and is mapped once, a frame about to be copied has not
\* reached the pool, the header past the check is the accepted one, and a resolution is made
\* and used inside one hold.
EntryIInv ==
    /\ table \in [Pages -> Frames \cup {None}] /\ page \in Pages
    /\ holder \in [Frames -> {"caller", "withdrawn", "pool", "other"}]
    /\ \A p \in Pages : table[p] # None => holder[table[p]] = "caller"
    /\ \A p, q \in Pages : table[p] # None /\ table[p] = table[q] => p = q
    /\ step \in {"in_chunk", "out_chunk"} =>
         frame \in Frames /\ holder[frame] \in {"caller", "withdrawn"}
    /\ step \in Ready /\ call.reads => staged = "asked"
    /\ step \in {"resolve", "handler"} => hold # "none"
    /\ step = "handler" => Resolves

\* The end of an entry, with whatever status, keeps the invariant (api/mod.rs, invoke).
LEMMA LeaveKeeps ==
  ASSUME NEW c, EntryIInv, 1 \in Pages, Leave(c), UNCHANGED <<call, table, holder>>
  PROVE  EntryIInv'
BY DEF EntryIInv, Leave, Ready, Resolves

\* Every step of the entry, of the domain's other threads and of the frames' other users
\* keeps the invariant.
LEMMA EntryKeeps ==
  ASSUME 1 \in Pages, None \notin Frames, EntryIInv, [EntryNext]_entry_vars
  PROVE  EntryIInv'
<1> USE DEF EntryIInv, Ready, Resolves, others, memory, counts, copying, mine
<1>1. ASSUME NEW o \in Operations, NEW c \in Structure, invoke(o, c) PROVE EntryIInv'
  <2>1. CASE c = "OK"
    BY <1>1, <2>1 DEF invoke
  <2>2. CASE c # "OK"
    <3>1. Leave(c) /\ UNCHANGED <<table, holder>>
      BY <1>1, <2>2 DEF invoke
    <3> QED
      BY <3>1, <1>1 DEF Leave, invoke
  <2> QED
    BY <2>1, <2>2
<1>2. CASE reap_dead
  BY <1>2 DEF reap_dead
<1>3. CASE walk
  BY <1>3 DEF walk, Translated
<1>4. CASE faults
  BY <1>4, LeaveKeeps DEF faults
<1>5. CASE copy_in
  BY <1>5 DEF copy_in, AfterLast
<1>6. CASE copy_out
  <2>1. CASE page + 1 \in Pages
    BY <1>6, <2>1 DEF copy_out
  <2>2. CASE page + 1 \notin Pages
    BY <1>6, <2>2, LeaveKeeps DEF copy_out
  <2> QED
    BY <2>1, <2>2
<1>7. CASE validate_header
  <2>1. CASE HeaderRead = "asked"
    BY <1>7, <2>1 DEF validate_header, HeaderRead
  <2>2. CASE HeaderRead # "asked"
    BY <1>7, <2>2, LeaveKeeps DEF validate_header
  <2> QED
    BY <2>1, <2>2
<1>8. CASE Acquire
  BY <1>8 DEF Acquire
<1>9. CASE shared_declines
  BY <1>9 DEF shared_declines
<1>10. CASE exclusive
  BY <1>10 DEF exclusive
<1>11. CASE resolve
  BY <1>11 DEF resolve, Resolved
<1>12. ASSUME NEW c, NEW wrote, simple(c, wrote) PROVE EntryIInv'
  BY <1>12 DEF simple
<1>13. CASE Release
  BY <1>13 DEF Release
<1>14. CASE write_response
  <2>1. CASE filled
    BY <1>14, <2>1 DEF write_response
  <2>2. CASE ~filled
    BY <1>14, <2>2, LeaveKeeps DEF write_response
  <2> QED
    BY <2>1, <2>2
<1>15. ASSUME NEW p \in Pages, NEW h, Rewrite(p, h) PROVE EntryIInv'
  BY <1>15 DEF Rewrite
<1>16. ASSUME NEW p \in Pages, Withdraw(p) PROVE EntryIInv'
  BY <1>16 DEF Withdraw
<1>17. ASSUME NEW p \in Pages, NEW f \in Frames, Map(p, f) PROVE EntryIInv'
  BY <1>17 DEF Map
<1>18. CASE FlushHere
  BY <1>18 DEF FlushHere
<1>19. CASE Fence
  BY <1>19 DEF Fence
<1>20. CASE Closed
  BY <1>20 DEF Closed
<1>21. ASSUME NEW f \in Frames, Reuse(f) PROVE EntryIInv'
  BY <1>21 DEF Reuse
<1>22. CASE UNCHANGED entry_vars
  BY <1>22 DEF entry_vars
<1> QED
  BY <1>1, <1>2, <1>3, <1>4, <1>5, <1>6, <1>7, <1>8, <1>9, <1>10, <1>11, <1>12, <1>13, <1>14,
     <1>15, <1>16, <1>17, <1>18, <1>19, <1>20, <1>21, <1>22 DEF EntryNext

\* A thread outside the kernel, with its descriptor mapped, satisfies the invariant.
LEMMA EntryStarts ==
  ASSUME 1 \in Pages, None \notin Frames, EntryInit
  PROVE  EntryIInv
BY DEF EntryInit, EntryIInv, Placements, Ready

\* For any descriptor, any frames and any operations: a copy touches only a frame that is
\* the caller's or waits for this processor's flush (ucopy.rs, walk).
THEOREM CopiesStayOwned ==
  ASSUME 1 \in Pages, None \notin Frames
  PROVE  EntrySpec => []CopiesOwned
<1>1. EntryInit => EntryIInv
  BY EntryStarts
<1>2. EntryIInv /\ [EntryNext]_entry_vars => EntryIInv'
  BY EntryKeeps
<1>3. EntryIInv => CopiesOwned
  BY DEF EntryIInv, CopiesOwned
<1> QED
  BY <1>1, <1>2, <1>3, PTL DEF EntrySpec

\* For the same: a handler acts only on a header that was accepted and on a capability that
\* is alive at that moment (api/mod.rs, invoke and shared).
THEOREM HandlersAreChecked ==
  ASSUME 1 \in Pages, None \notin Frames
  PROVE  EntrySpec => [][ActsOnChecked]_entry_vars
<1>1. EntryInit => EntryIInv
  BY EntryStarts
<1>2. EntryIInv /\ [EntryNext]_entry_vars => EntryIInv'
  BY EntryKeeps
<1>3. EntryIInv /\ [EntryNext]_entry_vars => [ActsOnChecked]_entry_vars
  <2> SUFFICES ASSUME EntryIInv, EntryNext, acted' # acted
               PROVE  Resolves /\ (call.reads => staged = "asked")
    BY DEF ActsOnChecked
  <2>1. \E c, wrote : simple(c, wrote)
    BY DEF EntryNext, invoke, reap_dead, walk, faults, copy_in, copy_out, validate_header, Acquire,
           shared_declines, exclusive, resolve, Release, write_response, Rewrite, Withdraw, Map,
           FlushHere, Reuse, Fence, Closed, counts, mine
  <2> QED
    BY <2>1 DEF simple, EntryIInv, Ready
<1> QED
  BY <1>1, <1>2, <1>3, PTL DEF EntrySpec
=============================================================================
