-------------------------------- MODULE Boot --------------------------------
(***************************************************************************)
(* How the machine hands itself over: k2boot.rs and the part of boot.rs    *)
(* that builds the initial package.  The bootstrap processor makes the     *)
(* root scope and the control log, then either one supervisor with a       *)
(* manifest of boot capabilities, or, from a package without one, a domain *)
(* per module; the loader's memory is reclaimed after that.                *)
(*                                                                         *)
(* One processor runs this, so the steps are in program order; what varies *)
(* is the package, the devices that were found, the frames that are free   *)
(* and which of the reservations the limits still allow.                   *)
(***************************************************************************)
EXTENDS Naturals, Sequences, FiniteSets

CONSTANTS
    MAX_DEVICES,   \* device slots of the machine
    Found,         \* the sets of device slots that may be in use
    Packages,      \* sequences of modules: kind and pages
    FIRST_DEVICE, FIRST_MODULE, MAX_CAPS,  \* slots of a capability table
    MAX_OBJECT_PAGES,
    FreeFrames,    \* frames free when the package is built
    Metadata       \* metadata objects the system scope may hold

VARIABLES
    pc,        \* the step
    package,   \* the modules, in the loader's order
    devices,   \* the device slots in use
    tables,    \* tables[d][slot]: the object a boot capability names
    objects,   \* the modules copied into sealed objects
    loader,    \* the loader's module memory is still there
    frames, metadata,  \* frames free, metadata charged
    next,      \* the device or module the loop looks at
    count,     \* devices or modules installed
    running    \* the domains activated

vars == <<pc, package, devices, tables, objects, loader, frames, metadata, next, count, running>>

Domains == 0..MAX_DEVICES - 1
Slots == 0..MAX_CAPS - 1
Nothing == <<"nothing", 0>>
Supervisor == 0

Elves == SelectSeq(package, LAMBDA m : m.kind = "user_elf")

Init ==
    /\ pc = "root"
    /\ package \in Packages /\ devices \in Found
    /\ tables = [d \in Domains |-> [s \in Slots |-> Nothing]]
    /\ objects = {} /\ loader = TRUE
    /\ frames \in FreeFrames /\ metadata = 0
    /\ next = 0 /\ count = 0
    /\ running = {}

Goes(step) == pc' = step
Fixed == <<package, devices>>

(* scope::reserve of one metadata object. *)
Chargeable == metadata < Metadata

(* establish_root and establish_control_log; create_initial_domains. *)
establish_root ==
    /\ pc = "root"
    /\ Goes(IF \E i \in 1..Len(package) : package[i].kind = "supervisor" THEN "supervisor"
            ELSE "k1")
    /\ next' = 1
    /\ UNCHANGED <<Fixed, tables, objects, loader, frames, metadata, count, running>>

(* install: a grant and a table entry, each charged; a slot past the table   *)
(* or already in use is refused.                                             *)
Installable(d, slot) == slot \in Slots /\ tables[d][slot] = Nothing /\ metadata + 1 < Metadata
Installed(d, slot, object) ==
    /\ tables' = [tables EXCEPT ![d][slot] = object]
    /\ metadata' = metadata + 2

(* establish_supervisor up to its loops: the two scopes, the domain and the  *)
(* three fixed capabilities.  Anything refused ends the build.               *)
establish_supervisor ==
    /\ pc = "supervisor"
    /\ \/ /\ tables' = [tables EXCEPT ![Supervisor][1] = <<"domain", 0>>,
                                      ![Supervisor][2] = <<"scope", 0>>,
                                      ![Supervisor][3] = <<"log", 0>>]
          /\ Goes("devices") /\ next' = 0
       \/ Goes("reclaim") /\ UNCHANGED <<tables, next>>
    /\ UNCHANGED <<Fixed, objects, loader, frames, metadata, count, running>>

(* The device loop.  Its variable is the device, and the table the           *)
(* capability is installed in.                                               *)
DeviceSlot == FIRST_DEVICE + count
install_device ==
    /\ pc = "devices"
    /\ IF next = MAX_DEVICES \/ (next \in devices /\ DeviceSlot >= FIRST_MODULE)
       THEN Goes("modules") /\ next' = 1 /\ count' = 0 /\ UNCHANGED <<tables, metadata>>
       ELSE /\ IF next \in devices /\ Installable(next, DeviceSlot)
               THEN Installed(next, DeviceSlot, <<"device", next>>) /\ count' = count + 1
               ELSE UNCHANGED <<tables, metadata, count>>
            /\ next' = next + 1 /\ UNCHANGED pc
    /\ UNCHANGED <<Fixed, objects, loader, frames, running>>

(* image_object: a copy of the module in frames of its own, sealed once the  *)
(* copy is done.  The metadata stays charged when no run of frames is free.  *)
Sized(m) == m.pages # 0 /\ m.pages <= MAX_OBJECT_PAGES
Copied(m) == Sized(m) /\ Chargeable /\ m.pages <= frames

(* The slots taken once a module has been looked at: one rejected takes none. *)
\* Mutant: a rejected module leaves its slot empty.
TakenAnyway(installed) == count + 1
Taken(installed) == IF installed THEN count + 1 ELSE count

Slot == FIRST_MODULE + count

install_module ==
    /\ pc = "modules"
    /\ IF next > Len(Elves)
       THEN Goes("activate") /\ UNCHANGED <<next, count, tables, objects, frames, metadata>>
       ELSE LET m == Elves[next]
                fits == Installable(Supervisor, Slot) /\ metadata + 2 < Metadata
            IN  /\ next' = next + 1 /\ UNCHANGED pc
                /\ \/ /\ Copied(m) /\ fits
                      /\ objects' = objects \cup {next} /\ frames' = frames - m.pages
                      /\ tables' = [tables EXCEPT ![Supervisor][Slot] = <<"image", next>>]
                      /\ metadata' = metadata + 3
                      /\ count' = Taken(TRUE)
                   \/ /\ Copied(m) /\ ~fits
                      /\ objects' = objects \cup {next} /\ frames' = frames - m.pages
                      /\ metadata' = metadata + 1
                      /\ count' = Taken(FALSE)
                      /\ UNCHANGED tables
                   \/ /\ Sized(m) /\ Chargeable
                      /\ metadata' = metadata + 1
                      /\ count' = Taken(FALSE)
                      /\ UNCHANGED <<tables, objects, frames>>
                   \/ /\ ~Sized(m) \/ ~Chargeable
                      /\ count' = Taken(FALSE)
                      /\ UNCHANGED <<tables, objects, frames, metadata>>
    /\ UNCHANGED <<Fixed, loader, running>>

(* create_supervisor: the supervisor is activated, or the machine runs with  *)
(* none.                                                                     *)
activate ==
    /\ pc = "activate"
    /\ running' \in {running, {Supervisor}}
    /\ Goes("reclaim")
    /\ UNCHANGED <<Fixed, tables, objects, loader, frames, metadata, next, count>>

(* create_k1_domains: a domain per program of the package, some rejected. *)
create_k1_domain ==
    /\ pc = "k1"
    /\ IF next > Len(package) THEN Goes("reclaim") /\ UNCHANGED <<next, running>>
       ELSE /\ next' = next + 1 /\ UNCHANGED pc
            /\ \/ UNCHANGED running
               \/ package[next].kind = "user_elf" /\ running' = running \cup {next}
    /\ UNCHANGED <<Fixed, tables, objects, loader, frames, metadata, count>>

(* reclaim_boot_memory: the copies are all there is from here on. *)
reclaim_boot_memory ==
    /\ pc = "reclaim"
    /\ loader' = FALSE
    /\ Goes("up")
    /\ UNCHANGED <<Fixed, tables, objects, frames, metadata, next, count, running>>

Next ==
    \/ establish_root \/ establish_supervisor \/ install_device \/ install_module
    \/ activate \/ create_k1_domain \/ reclaim_boot_memory

Spec == Init /\ [][Next]_vars

-----------------------------------------------------------------------------

(* A supervisor finds its programs by slot, so the manifest has no holes:    *)
(* the module capabilities are at consecutive slots from FIRST_MODULE, in    *)
(* the order of the package, each over an object copied out of the loader's  *)
(* memory, whatever was rejected between them (establish_supervisor).        *)
Images == {s \in Slots : tables[Supervisor][s][1] = "image"}
ManifestWhole ==
    /\ Images = {s \in Slots : s >= FIRST_MODULE /\ s < FIRST_MODULE + Cardinality(Images)}
    /\ \A s \in Images :
          /\ tables[Supervisor][s][2] \in objects
          /\ \A t \in Images : s < t => tables[Supervisor][s][2] < tables[Supervisor][t][2]

(* "First assigned device, if the machine has one.  Devices follow in        *)
(* enumeration order": a running supervisor's table names every device that  *)
(* was found, the slots allowing, whichever device slot it is in             *)
(* (establish_supervisor, k2boot.rs).                                        *)
DevicesHanded ==
    Supervisor \in running /\ Cardinality(devices) <= FIRST_MODULE - FIRST_DEVICE =>
        \A d \in devices : \E s \in FIRST_DEVICE..FIRST_MODULE - 1 :
            tables[Supervisor][s] = <<"device", d>>
=============================================================================
