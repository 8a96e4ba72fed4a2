----------------------------- MODULE Virtqueue -----------------------------
(***************************************************************************)
(* A split virtqueue as a device reads it: the descriptor table is a       *)
(* function from indices to descriptors, and a request is the chain that   *)
(* starts at a head.  External: the device is not in this repository.      *)
(***************************************************************************)
EXTENDS Naturals, Sequences

(* A descriptor: the region it names, how much of it, whether the chain goes *)
(* on and where.                                                             *)
Desc(addr, len, more, next) == [addr |-> addr, len |-> len, more |-> more, next |-> next]

(* The descriptors the device follows from `head', three at most here. *)
Chain(desc, head) ==
    LET from[n \in 0..2, i \in DOMAIN desc] ==
          IF n = 0 \/ ~desc[i].more THEN <<desc[i]>>
          ELSE <<desc[i]>> \o from[n - 1, desc[i].next]
    IN  from[2, head]

(* What lies between the header and the status of a chain. *)
Data(desc, head) ==
    LET chain == Chain(desc, head) IN SubSeq(chain, 2, Len(chain) - 1)

(* The completions between the driver's index and the device's: sixteen-bit  *)
(* indices that wrap.                                                        *)
Distance(device, driver, wrap) == (device + wrap - driver) % wrap
=============================================================================
