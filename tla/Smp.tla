-------------------------------- MODULE Smp ---------------------------------
(***************************************************************************)
(* Bringing the other processors up and stopping them: smp.rs.  The        *)
(* bootstrap processor gives each processor the firmware describes a slot, *)
(* a stack and the parameter block of the trampoline, sends INIT and up to *)
(* two start-up interrupts, and waits for the handshake until a deadline.  *)
(* A processor takes its slot and its stack from the parameter block, in   *)
(* its own time.                                                           *)
(*                                                                         *)
(* Slot 0 is the bootstrap processor.  A stack is named by the slot it was *)
(* made for: the idle thread's and the emergency stacks go together.       *)
(***************************************************************************)
EXTENDS Naturals, FiniteSets

CONSTANTS
    Described,  \* how many processors the firmware describes beside this one
    MAX_CPUS,   \* slots
    Late        \* a processor may read the block after its deadline

Entries == 1..Described
Slots == 0..MAX_CPUS - 1
NoSlot == MAX_CPUS

VARIABLES
    bsp,       \* the bootstrap processor's step
    entry,     \* the firmware's entry it looks at
    next,      \* the next slot
    params,    \* the trampoline's parameter block: the slot it names
    identity,  \* identity[s]: the entry whose identifier slot s holds, or 0
    alive, online, parked,  \* AP_ALIVE, ONLINE, PARKED
    shutdown,  \* SHUTDOWN
    expected,  \* the processors stop_all waits for
    ap,        \* ap[p]: what processor p is doing
    slotOf,    \* slotOf[p]: the slot and stack it runs with
    given      \* given[p]: the slot the bootstrap processor gave it

smp_vars == <<bsp, entry, next, params, identity, alive, online, parked, shutdown, expected,
              ap, slotOf, given>>

SmpInit ==
    /\ bsp = "space" /\ entry = 1 /\ next = 1
    /\ params = NoSlot
    /\ identity = [s \in Slots |-> 0]
    /\ alive = {} /\ online = {0} /\ parked = {}
    /\ shutdown = FALSE /\ expected = {}
    /\ ap = [p \in Entries |-> "off"]
    /\ slotOf = [p \in Entries |-> NoSlot] /\ given = [p \in Entries |-> NoSlot]

APs == <<ap, slotOf, given>>
Stopping == <<parked, shutdown, expected>>

(* build_ap_space and install_trampoline; without either the machine stays a *)
(* uniprocessor.                                                             *)
start_all ==
    /\ bsp = "space"
    /\ bsp' \in {"start", "up"}
    /\ UNCHANGED <<entry, next, params, identity, alive, online, Stopping, APs>>

(* The slot after this one: whether or not the processor answered. *)
\* Mutant: a slot whose processor did not answer is given to the next one.
NextReused(answered) == IF answered THEN next + 1 ELSE next
NextSlot(answered) == next + 1

NextTurn(answered) == bsp' = "start" /\ entry' = entry + 1 /\ next' = NextSlot(answered)

(* One turn of start_all's loop: a processor past the table is skipped.      *)
skip_full ==
    /\ bsp = "start" /\ entry <= Described /\ next >= MAX_CPUS
    /\ entry' = entry + 1
    /\ UNCHANGED <<bsp, next, params, identity, alive, online, Stopping, APs>>

(* Otherwise its identifier and its stacks come first.  Without an idle      *)
(* stack it is not started; with one the parameter block is written before   *)
(* the first interrupt.                                                      *)
start_one ==
    /\ bsp = "start" /\ entry <= Described /\ next < MAX_CPUS
    /\ identity' = [identity EXCEPT ![next] = entry]
    /\ \/ NextTurn(FALSE) /\ UNCHANGED <<params, alive, given>>
       \/ /\ given' = [given EXCEPT ![entry] = next]
          /\ params' = next
          /\ alive' = alive \ {next}
          /\ bsp' = "init"
          /\ UNCHANGED <<entry, next>>
    /\ UNCHANGED <<online, Stopping, ap, slotOf>>

(* There is no interrupt controller to send with. *)
no_controller ==
    /\ bsp = "init"
    /\ NextTurn(FALSE)
    /\ UNCHANGED <<params, identity, alive, online, Stopping, APs>>

(* INIT and the start-up interrupt, a second one if it is not alive yet; a   *)
(* processor the firmware described may still not be there.                  *)
send_startup ==
    /\ bsp \in {"init", "again"}
    /\ bsp = "again" => next \notin alive
    /\ bsp' = IF bsp = "init" THEN "again" ELSE "wait"
    /\ ap' \in {ap, [ap EXCEPT ![entry] = IF @ = "off" THEN "trampoline" ELSE @]}
    /\ UNCHANGED <<entry, next, params, identity, alive, online, Stopping, slotOf, given>>

one_startup ==
    /\ bsp = "again" /\ next \in alive
    /\ bsp' = "wait"
    /\ UNCHANGED <<entry, next, params, identity, alive, online, Stopping, APs>>

handshake ==
    /\ bsp = "wait" /\ next \in online
    /\ NextTurn(TRUE)
    /\ UNCHANGED <<params, identity, alive, online, Stopping, APs>>

(* The deadline.  The slot and its stack stay with the processor.            *)
ap_timeout ==
    /\ bsp = "wait" /\ next \notin online
    /\ NextTurn(FALSE)
    /\ UNCHANGED <<params, identity, alive, online, Stopping, APs>>

(* A start-up interrupt for an identifier nobody has: nothing answers. *)
probe_absent_processor ==
    /\ bsp = "start" /\ entry > Described
    /\ bsp' = "up"
    /\ UNCHANGED <<entry, next, params, identity, alive, online, Stopping, APs>>

-----------------------------------------------------------------------------

(* The trampoline reads the block when the processor gets there. *)
InTime(p) == bsp \in {"again", "wait"} /\ entry = p
trampoline(p) ==
    /\ ap[p] = "trampoline"
    /\ InTime(p) \/ Late
    /\ slotOf' = [slotOf EXCEPT ![p] = params]
    /\ ap' = [ap EXCEPT ![p] = "entry"]
    /\ UNCHANGED <<bsp, entry, next, params, identity, alive, online, Stopping, given>>

(* ap_entry, until the slot is alive, and from there to the online set. *)
ap_entry(p) ==
    /\ ap[p] = "entry"
    /\ alive' = alive \cup {slotOf[p]}
    /\ ap' = [ap EXCEPT ![p] = "alive"]
    /\ UNCHANGED <<bsp, entry, next, params, identity, online, Stopping, slotOf, given>>

ap_online(p) ==
    /\ ap[p] = "alive"
    /\ online' = online \cup {slotOf[p]}
    /\ ap' = [ap EXCEPT ![p] = "running"]
    /\ UNCHANGED <<bsp, entry, next, params, identity, alive, Stopping, slotOf, given>>

(* The run is over: the others are told, and waited for until a deadline. *)
stop_all ==
    /\ bsp = "up"
    /\ shutdown' = TRUE /\ expected' = online \ {0}
    /\ bsp' = "stopping"
    /\ UNCHANGED <<entry, next, params, identity, alive, online, parked, APs>>

stopped ==
    /\ bsp = "stopping"
    /\ bsp' = IF expected \subseteq parked THEN "parked" ELSE "park_timeout"
    /\ UNCHANGED <<entry, next, params, identity, alive, online, Stopping, APs>>

park(p) ==
    /\ ap[p] = "running" /\ shutdown
    /\ online' = online \ {slotOf[p]} /\ parked' = parked \cup {slotOf[p]}
    /\ ap' = [ap EXCEPT ![p] = "parked"]
    /\ UNCHANGED <<bsp, entry, next, params, identity, alive, shutdown, expected, slotOf, given>>

SmpNext ==
    \/ start_all \/ skip_full \/ start_one \/ no_controller \/ send_startup \/ one_startup
    \/ handshake \/ ap_timeout \/ probe_absent_processor \/ stop_all \/ stopped
    \/ \E p \in Entries : trampoline(p) \/ ap_entry(p) \/ ap_online(p) \/ park(p)

SmpSpec == SmpInit /\ [][SmpNext]_smp_vars

-----------------------------------------------------------------------------

(* No two processors ever run on one stack or as one slot, and each runs as  *)
(* the one it was given, however late it arrives: "the stack it was given is *)
(* never handed to another processor, because a late arrival would then run  *)
(* on a stack somebody else is using" (smp.rs, start_one and ap_entry).      *)
Running == {p \in Entries : slotOf[p] # NoSlot}
StacksApart ==
    /\ \A p, q \in Running : slotOf[p] = slotOf[q] => p = q
    /\ \A p \in Running : slotOf[p] = given[p]
=============================================================================
