------------------------------- MODULE MCBoot -------------------------------
(* Packages of up to three programs of up to three pages, with a supervisor *)
(* among them or without one.                                               *)
EXTENDS Boot

M(kind, pages) == [kind |-> kind, pages |-> pages]
Programs == {M("user_elf", n) : n \in 0..3}
SmallPackages ==
    {<<M("supervisor", 1), a, b, c>> : a \in Programs, b \in Programs, c \in Programs}
    \cup {<<a, M("other", 1), b>> : a \in Programs, b \in Programs}
=============================================================================
