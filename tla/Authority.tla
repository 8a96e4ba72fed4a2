----------------------------- MODULE Authority -----------------------------
(***************************************************************************)
(* Capability tables and the grant tree (kernel/src/obj.rs,                *)
(* kernel/src/api/capops.rs and the first half of kernel/src/api/mod.rs).  *)
(*                                                                         *)
(* Deriving, copying, moving and closing run under a shared hold of the    *)
(* machine: each capability table and each node of the tree has a lock of  *)
(* its own, and a step below is one hold of one of them.  Fences take the  *)
(* machine exclusively.  Every handle names the same object, the rights of *)
(* a grant are its identity `kin`: its own identifier after those it was   *)
(* derived from, which nothing but the properties reads.                   *)
(***************************************************************************)
EXTENDS Naturals, Sequences, FiniteSets, FiniteSetsExt, SequencesExt

CONSTANTS Threads,     \* threads that operate on capabilities
          Domains,     \* domains; each is its own scope
          DomainOf,    \* the domain of each thread
          Root,        \* the domain that holds the first capability
          MaxSlot,     \* a table has slots 1 .. MaxSlot
          MaxNode,     \* the tree has nodes 1 .. MaxNode
          MaxDepth,    \* MAX_DERIVE_DEPTH
          Spent,       \* slots whose generations are spent already
          MaxRetired,  \* bound: slots whose generations are spent, these included
          Ids,         \* identifiers of grants; their number bounds those in use
          MaxBarriers, \* bound: fences placed
          Untold,      \* may a domain use a handle before it is told of it
          Overtaken    \* may a node be reused before a collection under way
                       \* has looked at it

VARIABLES table,    \* the capability table of each domain
          node,     \* the grant tree
          th,       \* the operation each thread is in
          open,     \* domains whose scope is open
          barred    \* identifiers a barrier was placed on

vars == <<table, node, th, open, barred>>

Slots == 1 .. MaxSlot
Nodes == 1 .. MaxNode
NoGrant == 0

Entry == [live |-> FALSE, retired |-> FALSE, grant |-> NoGrant, kin |-> <<>>]
Grant == [used |-> FALSE, kin |-> <<>>, parent |-> NoGrant, depth |-> 0,
          fenced |-> FALSE, refs |-> 0, children |-> 0, sponsor |-> Root]
Idle == [pc |-> "user", grant |-> NoGrant, to |-> Root, slot |-> 0, kin |-> <<>>,
         made |-> FALSE, at |-> 0, steps |-> 0]

Init ==
    /\ \E i \in Ids :
          /\ table = [d \in Domains |-> [s \in Slots |->
                IF d = Root /\ s = 1
                THEN [Entry EXCEPT !.live = TRUE, !.grant = 1, !.kin = <<i>>]
                ELSE [Entry EXCEPT !.retired = <<d, s>> \in Spent]]]
          /\ node = [n \in Nodes |->
                IF n = 1 THEN [Grant EXCEPT !.used = TRUE, !.kin = <<i>>, !.refs = 1]
                ELSE Grant]
    /\ th = [t \in Threads |-> Idle]
    /\ open = Domains
    /\ barred = {}

Minus(n) == IF n = 0 THEN 0 ELSE n - 1

\* The machine lock is free to be taken exclusively.
Exclusive == \A t \in Threads : th[t].pc = "user"

----------------------------------------------------------------------------
(* Resolution. *)

\* The nodes from `g` to the root of its lineage, the derivation depth being
\* the bound of the walk.
Lineage(g) ==
    LET up[k \in 0 .. MaxDepth + 1] ==
          IF k = 0 THEN <<g>>
          ELSE IF Last(up[k - 1]) = NoGrant THEN up[k - 1]
          ELSE Append(up[k - 1], node[Last(up[k - 1])].parent)
    IN  up[MaxDepth + 1]

\* Mutant: the walk does not ask whether the sponsors' scopes are open.
walk_lineage_unscoped(g) ==
    LET way == Lineage(g)
    IN  /\ Last(way) = NoGrant
        /\ \A k \in 1 .. Len(way) - 1 : node[way[k]].used /\ ~node[way[k]].fenced

\* `walk_lineage`: no node of the lineage is free, fenced, or sponsored by a
\* closed scope.
walk_lineage(g) ==
    LET way == Lineage(g)
    IN  /\ Last(way) = NoGrant
        /\ \A k \in 1 .. Len(way) - 1 :
              node[way[k]].used /\ ~node[way[k]].fenced
                  /\ node[way[k]].sponsor \in open

Live(d, s) == table[d][s].live

\* The domain knows the handle in slot `s`: the call that installed it has
\* also counted it.
Told(d, s) ==
    Untold \/ \A t \in Threads : th[t].pc = "count" => <<th[t].to, th[t].at>> # <<d, s>>

\* `resolve` and `resolve_observer` of the handle in slot `s`.
Observes(d, s) == Live(d, s) /\ node[table[d][s].grant].used
Resolves(d, s) == Observes(d, s) /\ walk_lineage(table[d][s].grant)

----------------------------------------------------------------------------
(* The operations, up to the resolution of their handle. *)

At(pc, g) == [Idle EXCEPT !.pc = pc, !.grant = g]

\* `derive`: a child grant first, then a handle on it for the caller.
Derive(t, s) ==
    LET d == DomainOf[t]
    IN  /\ th[t].pc = "user" /\ Told(d, s) /\ Resolves(d, s)
        /\ th' = [th EXCEPT ![t] = [At("alloc", table[d][s].grant)
                                      EXCEPT !.to = d, !.kin = table[d][s].kin]]
        /\ UNCHANGED <<table, node, open, barred>>

\* `copy`, and a capability sent or returned with a message: a handle on the
\* same grant in the table of `to`, the source consumed when it is moved.
Give(t, s, to, moved) ==
    LET d == DomainOf[t]
    IN  /\ th[t].pc = "user" /\ Told(d, s) /\ Resolves(d, s)
        /\ to = d => ~moved
        /\ th' = [th EXCEPT ![t] = [At("install", table[d][s].grant)
                                      EXCEPT !.to = to, !.kin = table[d][s].kin,
                                             !.slot = IF moved THEN s ELSE 0]]
        /\ UNCHANGED <<table, node, open, barred>>

\* `close`: the entry leaves the table.
Released(d, s) ==
    [table EXCEPT ![d][s] = [@ EXCEPT !.live = FALSE, !.grant = NoGrant, !.kin = <<>>]]

Close(t, s) ==
    LET d == DomainOf[t]
    IN  /\ th[t].pc = "user" /\ Told(d, s) /\ Observes(d, s)
        /\ table' = Released(d, s)
        /\ th' = [th EXCEPT ![t] = At("drop", table[d][s].grant)]
        /\ UNCHANGED <<node, open, barred>>

----------------------------------------------------------------------------
(* Their steps. *)

Finish(t) == th' = [th EXCEPT ![t] = Idle]

\* A node `grant_alloc` finds free; it takes the first.
Free(n) ==
    /\ ~node[n].used
    /\ Overtaken \/ \A t \in Threads : th[t].pc \in {"collect", "unlink"} =>
                                          th[t].grant # n

\* Identifiers nothing speaks of any more are used again.
Spoken ==
    barred \cup UNION ({Range(node[n].kin) : n \in Nodes}
                       \cup {Range(th[t].kin) : t \in Threads}
                       \cup {Range(table[d][s].kin) : d \in Domains, s \in Slots})

TooDeep(g) == node[g].depth + 1 > MaxDepth

\* `grant_alloc` writes a node whole; the parent counts it in a later hold.
Alloc(t) ==
    LET g == th[t].grant
    IN  /\ th[t].pc = "alloc"
        /\ \/ /\ \/ TooDeep(g)
                 \/ \A n \in Nodes : node[n].used
              /\ Finish(t) /\ UNCHANGED node
           \/ /\ ~TooDeep(g)
              /\ \E n \in {m \in Nodes : Free(m)}, i \in Ids \ Spoken :
                    /\ \A m \in 1 .. n - 1 : ~Free(m)
                    /\ node' = [node EXCEPT ![n] =
                          [Grant EXCEPT !.used = TRUE, !.parent = g,
                                        !.kin = Append(th[t].kin, i),
                                        !.depth = node[g].depth + 1,
                                        !.sponsor = DomainOf[t]]]
                    /\ th' = [th EXCEPT ![t].pc = "link", ![t].grant = n,
                                        ![t].kin = Append(th[t].kin, i),
                                        ![t].made = TRUE]
        /\ UNCHANGED <<table, open, barred>>

\* Mutant: the parent does not count its child.
LinkNothing(t) ==
    /\ th[t].pc = "link"
    /\ th' = [th EXCEPT ![t].pc = "install"]
    /\ UNCHANGED <<table, node, open, barred>>

Link(t) ==
    /\ th[t].pc = "link"
    /\ node' = [node EXCEPT ![node[th[t].grant].parent].children = @ + 1]
    /\ th' = [th EXCEPT ![t].pc = "install"]
    /\ UNCHANGED <<table, open, barred>>

\* The slots `CapTable::install` looks for.
Vacant(d) == {s \in Slots : ~table[d][s].live /\ ~table[d][s].retired}

\* `install_at`: a handle in the slot, or, its generations being spent, the
\* slot withdrawn and the installation given up.
Installed(d, s, t) ==
    [table EXCEPT ![d][s] = [@ EXCEPT !.live = TRUE, !.grant = th[t].grant,
                                      !.kin = th[t].kin]]

MayRetire ==
    Cardinality({ds \in Domains \X Slots : table[ds[1]][ds[2]].retired}) < MaxRetired

\* The table's hold of `cap_install`.  A handle that cannot be installed
\* undoes the child `derive` made; a copy leaves nothing behind.
Install(t) ==
    LET d == th[t].to
        s == Min(Vacant(d))
    IN  /\ th[t].pc = "install"
        /\ \/ /\ Vacant(d) # {}
              /\ table' = Installed(d, s, t)
              /\ th' = [th EXCEPT ![t].pc = "count", ![t].at = s]
           \/ /\ \/ Vacant(d) = {} /\ UNCHANGED table
                 \/ /\ Vacant(d) # {} /\ MayRetire
                    /\ table' = [table EXCEPT ![d][s].retired = TRUE]
              /\ IF th[t].made THEN th' = [th EXCEPT ![t] = At("undo", th[t].grant)]
                 ELSE Finish(t)
        /\ UNCHANGED <<node, open, barred>>

\* The rollback of `derive`.
Undo(t) ==
    LET g == th[t].grant
    IN  /\ th[t].pc = "undo"
        /\ node' = [node EXCEPT ![node[g].parent].children = Minus(@),
                                ![g] = Grant]
        /\ Finish(t)
        /\ UNCHANGED <<table, open, barred>>

\* The node counts the new handle; a move then consumes its source.
Count(t) ==
    LET d == DomainOf[t]
        s == th[t].slot
    IN  /\ th[t].pc = "count"
        /\ node' = [node EXCEPT ![th[t].grant].refs = @ + 1]
        /\ IF s # 0
           THEN /\ table' = Released(d, s)
                /\ th' = [th EXCEPT ![t] = At("drop", table[d][s].grant)]
           ELSE Finish(t) /\ UNCHANGED table
        /\ UNCHANGED <<open, barred>>

\* `release_entry`: the node's count, then its collection.
Drop(t) ==
    /\ th[t].pc = "drop"
    /\ node' = [node EXCEPT ![th[t].grant].refs = Minus(@)]
    /\ th' = [th EXCEPT ![t].pc = "collect"]
    /\ UNCHANGED <<table, open, barred>>

\* Mutant: a node is freed under its descendants.
CollectableFenced(g) == node[g].used /\ node[g].refs = 0

\* Mutant: a node is freed while handles name it.
CollectableNamed(g) == node[g].used /\ node[g].children = 0

Collectable(g) == node[g].used /\ node[g].refs = 0 /\ node[g].children = 0

\* One turn of `collect_grant`: the node, then the parent that loses a child.
Collect(t) ==
    LET g == th[t].grant
    IN  /\ th[t].pc = "collect"
        /\ IF g # NoGrant /\ th[t].steps < MaxDepth /\ Collectable(g)
           THEN /\ node' = [node EXCEPT ![g] = Grant]
                /\ th' = [th EXCEPT ![t].grant = node[g].parent,
                                    ![t].pc = "unlink", ![t].steps = @ + 1]
           ELSE Finish(t) /\ UNCHANGED node
        /\ UNCHANGED <<table, open, barred>>

Unlink(t) ==
    LET g == th[t].grant
    IN  /\ th[t].pc = "unlink"
        /\ node' = IF g = NoGrant THEN node
                   ELSE [node EXCEPT ![g].children = Minus(@)]
        /\ th' = [th EXCEPT ![t].pc = "collect"]
        /\ UNCHANGED <<table, open, barred>>

----------------------------------------------------------------------------
(* Barriers. *)

\* One sweep of `fence_lineage`, in index order, over the fenced set.
Sweep(fenced) ==
    FoldLeft(LAMBDA acc, n : IF node[n].used /\ node[n].parent \in acc
                             THEN acc \cup {n} ELSE acc,
             fenced, [n \in Nodes |-> n])

\* Sweeps until the deepest descendant is reached.
fence_lineage(root) ==
    FoldLeft(LAMBDA acc, k : Sweep(acc),
             {n \in Nodes : node[n].fenced} \cup {root},
             [k \in 1 .. MaxDepth |-> k])

\* `capops::fence`.
Fence(t, s) ==
    LET d == DomainOf[t]
        g == table[d][s].grant
    IN  /\ Exclusive /\ Cardinality(barred) < MaxBarriers /\ Resolves(d, s)
        /\ node' = [n \in Nodes |->
                      [node[n] EXCEPT !.fenced = n \in fence_lineage(g)]]
        /\ barred' = barred \cup {Last(table[d][s].kin)}
        /\ UNCHANGED <<table, th, open>>

\* `scope::fence` of a domain's own scope: what it sponsored stops resolving.
FenceScope(d) ==
    /\ Exclusive /\ Cardinality(barred) < MaxBarriers /\ d \in open /\ d # Root
    /\ open' = open \ {d}
    /\ barred' = barred \cup {Last(node[n].kin) : n \in {m \in Nodes : /\ node[m].used
                                                              /\ node[m].sponsor = d}}
    /\ UNCHANGED <<table, node, th>>

----------------------------------------------------------------------------
Next ==
    \/ \E t \in Threads, s \in Slots :
          \/ Derive(t, s) \/ Close(t, s) \/ Fence(t, s)
          \/ \E d \in Domains, moved \in BOOLEAN : Give(t, s, d, moved)
    \/ \E t \in Threads : \/ Alloc(t) \/ Link(t) \/ Install(t) \/ Undo(t)
                          \/ Count(t) \/ Drop(t) \/ Collect(t) \/ Unlink(t)
    \/ \E d \in Domains : FenceScope(d)

Spec == Init /\ [][Next]_vars

----------------------------------------------------------------------------
(* Properties. *)

\* A handle keeps the grant it was given: its node stays in use and is never
\* rewritten for another grant, whatever is derived, moved, closed and
\* collected around it (`cap_install`, `release_entry`, `collect_grant`).
EntryBacked ==
    \A d \in Domains, s \in Slots :
        Live(d, s) => /\ node[table[d][s].grant].used
                      /\ node[table[d][s].grant].kin = table[d][s].kin

\* A node stays while a grant derived from it exists: no lineage runs through
\* a node that was freed or rewritten (`collect_grant`).
TombstoneKept ==
    \A n \in Nodes : node[n].used /\ node[n].parent # NoGrant =>
        /\ node[node[n].parent].used
        /\ node[node[n].parent].kin = Front(node[n].kin)

\* A barrier reaches every copy and every derivation, in whatever table it is
\* and whenever it was made: no handle resolves whose grant descends from one
\* a barrier was placed on (`fence_lineage`, `walk_lineage`).
BarrierReaches ==
    \A d \in Domains, s \in Slots :
        Live(d, s) /\ Range(table[d][s].kin) \cap barred # {} => ~Resolves(d, s)

\* The counts a collection decides by are true: when no operation is under
\* way, a node's references are the handles that name it and its children the
\* nodes derived from it (`cap_install`, `release_entry`, `derive`).
CountsTrue ==
    Exclusive =>
        \A n \in Nodes : node[n].used =>
            /\ node[n].refs = Cardinality({ds \in Domains \X Slots :
                   /\ Live(ds[1], ds[2]) /\ table[ds[1]][ds[2]].grant = n})
            /\ node[n].children = Cardinality({m \in Nodes :
                   node[m].used /\ node[m].parent = n})

============================================================================
