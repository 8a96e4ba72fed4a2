------------------------------- MODULE MCEnds -------------------------------
(***************************************************************************)
(* What must come to an end: the wait of a shootdown, and the drain of a   *)
(* fenced perimeter.  A behaviour is one of one of the two, chosen at the  *)
(* start; the other's variables stay as they were, where none of its fair  *)
(* actions is enabled.                                                     *)
(***************************************************************************)
EXTENDS TlbShootdown

CONSTANTS Domains, Nobody, Records
VARIABLES part, s1, s2, s3, s4, s5, s6, s7, s8

\* The root and a child.
D == INSTANCE ScopeLifecycle WITH
    NSlots <- 2, MaxDepth <- 2, MaxGen <- 1, state <- s1, gen <- s2, parent <- s3,
    depth <- s4, named <- s5, domain <- s6, call <- s7, calls <- s8

scopes == <<s1, s2, s3, s4, s5, s6, s7, s8>>
all == <<part, vars, scopes>>

EndsInit == part \in {"shootdown", "drain"} /\ Init /\ D!Init

Shootdown == part = "shootdown" /\ Next /\ UNCHANGED <<part, scopes>>
Drain == part = "drain" /\ D!Next /\ UNCHANGED <<part, vars>>

EndsSpec == EndsInit /\ [][Shootdown \/ Drain]_all /\ Fairness /\ D!Fairness

\* Whoever keeps asking after a fenced perimeter whose domains have stopped, and
\* whose counters are at zero, is told in the end that it is quiescent
\* (advance_quiescence; the reaping of api/mod.rs before a closing operation).
DrainCompletes == D!DrainCompletes
=============================================================================
