------------------------------- MODULE Devices -------------------------------
(***************************************************************************)
(* An assigned device (device.rs, api/devops.rs): its sessions, the windows *)
(* of registers a driver's domain maps, the interrupts routed to signals,   *)
(* the pages it may reach, and the reset that takes all of it back.  An     *)
(* operation is one step under the exclusive hold; reset drops the hold     *)
(* around the hardware, so it is four.  The hardware itself (the command    *)
(* register, the transport's status, the interrupt table, the interrupts on *)
(* their way) is kept beside what the kernel believes of it.                *)
(***************************************************************************)
EXTENDS Integers, FiniteSets

CONSTANTS Domains,       \* domains a driver may run in
          Callers,       \* threads that may be inside reset
          MapSlots,      \* slots of the table of register mappings
          Grants,        \* pages granted to the device, by address
          Entries,       \* entries of the interrupt table, and as many vectors
          IrqSlots,      \* slots of the table of interrupt bindings
          MaxSession,    \* bound on the resets that succeed
          MaxDomain,     \* bound on the lives of a domain slot
          Rearms,        \* whether the driver drives the device during a reset
          Late           \* whether a vector is reused under an interrupt in flight

VARIABLES device,        \* what the kernel believes: state, session, bus_master
          region,        \* mappings counted by the region
          device_maps, irqs, dma_grants,
          domain,        \* the life of each domain slot
          reset,         \* where each caller is
          hw,            \* the command register's bit and the transport's status
          table,         \* the interrupt table: a vector, or zero when masked
          flying,        \* interrupts on their way, with the session they are of
          claimed        \* the sessions the last interrupt delivered joined

vars == <<device, region, device_maps, irqs, dma_grants, domain, reset, hw, table, flying, claimed>>

States == {"Ready", "Running", "Stopping"}
Unused == [used |-> FALSE]
Vectors == 1 .. Cardinality(Entries)

\* The device as assign leaves it: not mastering the bus, every vector masked.
Init == /\ device = [state |-> "Ready", session |-> 1, bus_master |-> FALSE]
        /\ region = 0
        /\ device_maps = [i \in MapSlots |-> Unused]
        /\ irqs = [i \in IrqSlots |-> Unused]
        /\ dma_grants = {}
        /\ domain = [d \in Domains |-> [state |-> "Building", generation |-> 1]]
        /\ reset = [c \in Callers |-> "none"]
        /\ hw = [master |-> FALSE, status |-> FALSE]
        /\ table = [e \in Entries |-> 0]
        /\ flying = {}
        /\ claimed = <<1, 1>>

InWindow == \E c \in Callers : reset[c] \in {"off", "confirmed"}
Quiet == Rearms \/ ~InWindow

\* -------------------------------------------------------------------------
\* The driver's operations.  Each carries the session its caller was given;
\* one that names another session is refused, so only the present one acts.

map_region(d) ==
    /\ domain[d].state = "Building"
    /\ \E i \in MapSlots : /\ ~device_maps[i].used
                           /\ device_maps' = [device_maps EXCEPT ![i] =
                                 [used |-> TRUE, domain |-> d, generation |-> domain[d].generation]]
    /\ region' = region + 1
    /\ UNCHANGED <<device, irqs, dma_grants, domain, reset, hw, table, flying, claimed>>

\* The record goes, and the translation when the domain is still the one.
unmap_region(i) ==
    /\ device_maps[i].used
    /\ device_maps' = [device_maps EXCEPT ![i] = Unused]
    /\ region' = region - 1
    /\ UNCHANGED <<device, irqs, dma_grants, domain, reset, hw, table, flying, claimed>>

\* Mutant: the vectors in use are those of the other entries of the table.
FreeVectorsBelow == Vectors \ {irqs[i].vector - 1 : i \in {j \in IrqSlots : irqs[j].used}}

FreeVectors == Vectors \ {irqs[i].vector : i \in {j \in IrqSlots : irqs[j].used}}

\* The lowest free vector; the entry is written before the binding is recorded.
bind_irq(e) ==
    /\ \A i \in IrqSlots : irqs[i].used => irqs[i].entry # e
    /\ FreeVectors # {}
    /\ LET v == CHOOSE x \in FreeVectors : \A y \in FreeVectors : x <= y IN
       /\ Late \/ \A f \in flying : f.vector # v
       /\ \E i \in IrqSlots : /\ ~irqs[i].used
                              /\ irqs' = [irqs EXCEPT ![i] = [used |-> TRUE, entry |-> e, vector |-> v,
                                                              session |-> device.session]]
       /\ table' = [table EXCEPT ![e] = v]
    /\ UNCHANGED <<device, region, device_maps, dma_grants, domain, reset, hw, flying, claimed>>

set_master(on) ==
    /\ on => Quiet
    /\ hw' = [hw EXCEPT !.master = on]
    /\ device' = [device EXCEPT !.bus_master = on, !.state = IF on THEN "Running" ELSE "Ready"]
    /\ UNCHANGED <<region, device_maps, irqs, dma_grants, domain, reset, table, flying, claimed>>

dma_map(g) == /\ g \notin dma_grants
              /\ dma_grants' = dma_grants \cup {g}
              /\ UNCHANGED <<device, region, device_maps, irqs, domain, reset, hw, table, flying, claimed>>

\* Mutant: the state is asked, and a failed reset is not Running.
RevocableState == device.state # "Running"

Revocable == ~device.bus_master

dma_unmap(g) == /\ g \in dma_grants
                /\ Revocable
                /\ dma_grants' = dma_grants \ {g}
                /\ UNCHANGED <<device, region, device_maps, irqs, domain, reset, hw, table, flying, claimed>>

\* -------------------------------------------------------------------------
\* reset: admission, control, the transport, and what a confirmed stop frees.

resetBegins(c) ==
    /\ reset[c] = "none"
    /\ reset' = [reset EXCEPT ![c] = "stopping"]
    /\ device' = [device EXCEPT !.state = "Stopping"]
    /\ UNCHANGED <<region, device_maps, irqs, dma_grants, domain, hw, table, flying, claimed>>

resetControl(c) ==
    /\ reset[c] = "stopping"
    /\ reset' = [reset EXCEPT ![c] = "off"]
    /\ hw' = [hw EXCEPT !.master = FALSE]
    /\ UNCHANGED <<device, region, device_maps, irqs, dma_grants, domain, table, flying, claimed>>

\* reset_transport: the status reads zero, or never does and reset gives up.
resetTransport(c) ==
    /\ reset[c] = "off"
    /\ \/ /\ reset' = [reset EXCEPT ![c] = "confirmed"]
          /\ hw' = [hw EXCEPT !.status = FALSE]
       \/ /\ reset' = [reset EXCEPT ![c] = "none"]
          /\ UNCHANGED hw
    /\ UNCHANGED <<device, region, device_maps, irqs, dma_grants, domain, table, flying, claimed>>

\* Mutant: a binding is forgotten and its entry of the table is left armed.
MaskedNone == table

Masked == [e \in Entries |-> IF \E i \in IrqSlots : irqs[i].used /\ irqs[i].entry = e
                             THEN 0 ELSE table[e]]

resetReleases(c) ==
    /\ reset[c] = "confirmed"
    /\ device.session < MaxSession
    /\ reset' = [reset EXCEPT ![c] = "none"]
    /\ table' = Masked
    /\ irqs' = [i \in IrqSlots |-> Unused]
    /\ device_maps' = [i \in MapSlots |-> Unused]
    /\ region' = region - Cardinality({i \in MapSlots : device_maps[i].used})
    /\ dma_grants' = {}
    /\ device' = [state |-> "Ready", session |-> device.session + 1, bus_master |-> FALSE]
    /\ UNCHANGED <<domain, hw, flying, claimed>>

\* -------------------------------------------------------------------------
\* Domains live and die under the device: nothing of it is withdrawn.

Activate(d) == /\ domain[d].state = "Building"
               /\ domain' = [domain EXCEPT ![d].state = "Active"]
               /\ UNCHANGED <<device, region, device_maps, irqs, dma_grants, reset, hw, table, flying, claimed>>

Dies(d) == /\ domain[d].state \in {"Building", "Active"}
           /\ domain' = [domain EXCEPT ![d].state = "Dead"]
           /\ UNCHANGED <<device, region, device_maps, irqs, dma_grants, reset, hw, table, flying, claimed>>

Reused(d) == /\ domain[d].state = "Dead"
             /\ domain[d].generation < MaxDomain
             /\ domain' = [domain EXCEPT ![d] = [state |-> "Building", generation |-> @.generation + 1]]
             /\ UNCHANGED <<device, region, device_maps, irqs, dma_grants, reset, hw, table, flying, claimed>>

\* -------------------------------------------------------------------------
\* The machine: a driver that starts or stops the transport through its
\* window, an interrupt sent, and the handler that attributes it.

Drive(i) == /\ device_maps[i].used
            /\ LET d == device_maps[i].domain IN
               /\ domain[d].state = "Active"
               /\ domain[d].generation = device_maps[i].generation
            /\ ~hw.status => Quiet
            /\ hw' = [hw EXCEPT !.status = ~@]
            /\ UNCHANGED <<device, region, device_maps, irqs, dma_grants, domain, reset, table, flying, claimed>>

Interrupt(e) == /\ hw.status /\ table[e] # 0
                /\ flying' = flying \cup {[vector |-> table[e], session |-> device.session]}
                /\ UNCHANGED <<device, region, device_maps, irqs, dma_grants, domain, reset, hw, table, claimed>>

on_interrupt(f) ==
    /\ f \in flying
    /\ flying' = flying \ {f}
    /\ claimed' = IF \E i \in IrqSlots : /\ irqs[i].used /\ irqs[i].vector = f.vector
                                         /\ irqs[i].session = device.session
                  THEN <<f.session, device.session>> ELSE claimed
    /\ UNCHANGED <<device, region, device_maps, irqs, dma_grants, domain, reset, hw, table>>

Next == \/ \E d \in Domains : map_region(d) \/ Activate(d) \/ Dies(d) \/ Reused(d)
        \/ \E i \in MapSlots : unmap_region(i) \/ Drive(i)
        \/ \E e \in Entries : bind_irq(e) \/ Interrupt(e)
        \/ \E on \in BOOLEAN : set_master(on)
        \/ \E g \in Grants : dma_map(g) \/ dma_unmap(g)
        \/ \E c \in Callers : resetBegins(c) \/ resetControl(c) \/ resetTransport(c) \/ resetReleases(c)
        \/ \E f \in flying : on_interrupt(f)

Spec == Init /\ [][Next]_vars

\* A page leaves the device's reach only when the device cannot be using it:
\* no grant is revoked, by dma_unmap or by a reset, while the function masters
\* the bus with its transport running, whichever resets failed before.
StoppedFirst == dma_grants \ dma_grants' # {} => ~(hw.master /\ hw.status)

\* The interrupt table and the bindings agree: an entry is armed exactly when
\* a binding of the present session names it, with that binding's vector, and
\* no two bindings share a vector or an entry.
TableMatches ==
    /\ \A e \in Entries : table[e] # 0 <=>
          \E i \in IrqSlots : irqs[i].used /\ irqs[i].entry = e /\ irqs[i].vector = table[e]
    /\ \A i, j \in IrqSlots : i # j /\ irqs[i].used /\ irqs[j].used =>
          irqs[i].vector # irqs[j].vector /\ irqs[i].entry # irqs[j].entry
    /\ \A i \in IrqSlots : irqs[i].used => irqs[i].session = device.session

=============================================================================
