------------------------------ MODULE Discovery ------------------------------
(***************************************************************************)
(* The walk of the bus at boot (pci.rs) and the assignment of a function    *)
(* (device.rs): a function is probed with its decoding off, its capability  *)
(* list is walked, and it is assigned only if every structure it advertises *)
(* lies in its register's window on pages of its own.  What the function    *)
(* answers is read as it is needed, and is any value its registers can hold. *)
(* Offsets and lengths are in units of an entry of the interrupt table.     *)
(***************************************************************************)
EXTENDS Integers, Sequences

CONSTANTS Pointers,      \* places a capability may be at, 1 .. n
          CAP_WALK_LIMIT,
          Structures,    \* kinds of virtio structure a driver needs
          PAGE_SIZE,
          Bars,          \* length of each base address register, 0 if unused
          MaxVectors,    \* bound on the vectors advertised, and
          MaxOffset,     \* on the offsets and
          MaxLength,     \* the lengths
          MaxFunctions   \* functions that answer

VARIABLES stage,
          functions,     \* functions recorded by the walk of the bus
          command,       \* bits of the command register of the one being probed
          next,          \* the links of its capability list
          pointer, seen, \* the walk
          virtio, msix,  \* what the walk found
          regions        \* windows of the function assigned

vars == <<stage, functions, command, next, pointer, seen, virtio, msix, regions>>

None == [bar |-> -1]
Cap == [bar : DOMAIN Bars \cup {99}, offset : 0 .. MaxOffset, length : 0 .. MaxLength]
Msix == [vectors : 1 .. MaxVectors, bar : DOMAIN Bars, offset : 0 .. MaxOffset,
         pba_bar : DOMAIN Bars, pba_offset : 0 .. MaxOffset]

Init == /\ stage = "bus"
        /\ functions = 0
        /\ command = [memory |-> TRUE, master |-> TRUE]
        /\ next \in [Pointers -> {0} \cup Pointers]
        /\ pointer = 0 /\ seen = <<>>
        /\ virtio = [k \in Structures |-> None]
        /\ msix = None
        /\ regions = <<>>

\* enumerate: a slot answers or does not; what exceeds the table is dropped.
\* A bridge is recorded and not looked into.
enumerate == /\ stage = "bus" /\ functions < MaxFunctions
             /\ functions' = functions + 1
             /\ \/ UNCHANGED stage
                \/ stage' = "probe"
             /\ UNCHANGED <<command, next, pointer, seen, virtio, msix, regions>>

\* probe: decoding and mastering go off while the registers are sized, and
\* only decoding comes back.
probe == /\ stage = "probe"
         /\ command' = [memory |-> FALSE, master |-> FALSE]
         /\ stage' = "size"
         /\ UNCHANGED <<functions, next, pointer, seen, virtio, msix, regions>>

\* The registers are sized; a function without a list has nothing to walk.
size_bar == /\ stage = "size"
            /\ command' = [command EXCEPT !.memory = TRUE]
            /\ pointer' \in {0} \cup Pointers
            /\ stage' = "walk"
            /\ UNCHANGED <<functions, next, seen, virtio, msix, regions>>

\* Mutant: only a list that points at its own head is taken for a cycle.
WalksHead == /\ pointer # 0
             /\ Len(seen) < CAP_WALK_LIMIT
             /\ Len(seen) > 0 => pointer # seen[1]

Walks == /\ pointer # 0
         /\ Len(seen) < CAP_WALK_LIMIT
         /\ \A i \in 1 .. Len(seen) : seen[i] # pointer

\* One capability: a virtio structure, the interrupt capability, or another.
walk_capabilities ==
    /\ stage = "walk" /\ Walks
    /\ seen' = Append(seen, pointer)
    /\ pointer' = next[pointer]
    /\ \/ \E k \in Structures, c \in Cap : virtio' = [virtio EXCEPT ![k] = c] /\ UNCHANGED msix
       \/ \E m \in Msix : msix' = m /\ UNCHANGED virtio
       \/ UNCHANGED <<virtio, msix>>
    /\ UNCHANGED <<stage, functions, command, next, regions>>

RoundUp(n) == ((n + PAGE_SIZE - 1) \div PAGE_SIZE) * PAGE_SIZE
RoundDown(n) == (n \div PAGE_SIZE) * PAGE_SIZE

\* Whether a window touches a page that a run of bytes occupies.
Overlaps(bar, offset, length, tbar, toffset, tlength) ==
    /\ tbar = bar
    /\ offset < RoundUp(toffset + tlength)
    /\ RoundDown(toffset) < offset + length

table_len(m) == m.vectors
pba_len(m) == 1

\* Mutant: the pending bits are forgotten.
overlaps_table_only(c) ==
    /\ msix # None
    /\ Overlaps(c.bar, c.offset, c.length, msix.bar, msix.offset, table_len(msix))

overlaps_interrupt_table(c) ==
    /\ msix # None
    /\ \/ Overlaps(c.bar, c.offset, c.length, msix.bar, msix.offset, table_len(msix))
       \/ Overlaps(c.bar, c.offset, c.length, msix.pba_bar, msix.pba_offset, pba_len(msix))

\* What validate asks of one structure.
Valid(c) == /\ c # None
            /\ c.bar \in DOMAIN Bars
            /\ Bars[c.bar] > 0
            /\ c.length > 0 /\ c.offset + c.length <= Bars[c.bar]
            /\ c.offset % PAGE_SIZE = 0 /\ c.length % PAGE_SIZE = 0
            /\ ~overlaps_interrupt_table(c)

validate == \A k \in Structures : Valid(virtio[k])

\* The walk is over: assign, which maps the kernel's own windows, looks for
\* the modern transport's feature bit, and enables the interrupts with the
\* bus mastering off.
assign == /\ stage = "walk" /\ ~Walks
          /\ validate /\ msix # None
          /\ stage' = "assigned"
          /\ regions' = [k \in Structures |-> virtio[k]]
          /\ command' = [command EXCEPT !.master = FALSE]
          /\ UNCHANGED <<functions, next, pointer, seen, virtio, msix>>

\* It is refused: a structure, the interrupts, the windows or the transport.
refuse == /\ stage = "walk" /\ ~Walks
          /\ stage' = "refused"
          /\ UNCHANGED <<functions, command, next, pointer, seen, virtio, msix, regions>>

Next == enumerate \/ probe \/ size_bar \/ walk_capabilities \/ assign \/ refuse

Spec == Init /\ [][Next]_vars

PagesOf(offset, length) == {b \div PAGE_SIZE : b \in offset .. offset + length - 1}

\* A driver is never given a page that holds a byte of the interrupt table or
\* of its pending bits, and never one outside the register's window.
WindowsApart ==
    stage = "assigned" =>
      \A k \in Structures : LET r == regions[k] IN
        /\ r.offset + r.length <= Bars[r.bar]
        /\ r.bar = msix.bar => PagesOf(r.offset, r.length) \cap PagesOf(msix.offset, table_len(msix)) = {}
        /\ r.bar = msix.pba_bar => PagesOf(r.offset, r.length) \cap PagesOf(msix.pba_offset, pba_len(msix)) = {}

\* No link of a capability list makes the walk read an entry twice, and a
\* function is assigned with the bus mastering the firmware left it turned off.
WalkedOnce == /\ \A i, j \in 1 .. Len(seen) : i # j => seen[i] # seen[j]
              /\ stage \in {"size", "walk", "assigned"} => ~command.master
=============================================================================
