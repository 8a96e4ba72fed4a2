----------------------------- MODULE Workspaces -----------------------------
(***************************************************************************)
(* The loop of the managed state service (user/k4store/src/main.rs) and    *)
(* the object index of its engine (user/k4store/src/state.rs): objects are *)
(* staged, bound in workspaces, frozen into candidates and published, and  *)
(* a sweep takes back the staging of what nobody can still name.           *)
(*                                                                         *)
(* An action is one request.  An object is its content, as its digest says *)
(* it is: a blob, a tree of bindings, or a manifest of a tree and its      *)
(* policy, which every root here names, as `admit` asks.  The medium does  *)
(* not fail here (Store), so a publication that was admitted and finds its *)
(* objects commits.                                                        *)
(***************************************************************************)
EXTENDS Naturals, Sequences, FiniteSets, FiniteSetsExt, SequencesExt, Functions

CONSTANTS MaxPrincipals,  \* MAX_PRINCIPALS
          Blobs,          \* content a client may put
          Policies,       \* policies a client may put
          Names,          \* names a tree binds
          NoObject,       \* the zero digest
          MaxWorkspaces,  \* MAX_WORKSPACES
          MaxBindings,    \* MAX_BINDINGS
          MaxStaged,      \* MAX_STAGED
          MaxObjects,     \* MAX_OBJECTS
          MaxProtected,   \* MAX_PROTECTED
          Offered,        \* OFFERED
          MaxRetained,    \* MAX_RETAINED
          MaxGeneration,  \* bound: publications
          Foreign,        \* may a principal publish a root it did not freeze last
          Unpublished     \* may a root be retained before it was published

Sessions == 1 .. MaxPrincipals

VARIABLES staged,      \* objects of the index that only staging holds
          durable,     \* objects of the index that are on the medium
          lost,        \* staging slots in use for no staged object
          space,       \* the workspaces
          candidates,  \* the root each principal froze last
          offered,     \* the objects each principal put last
          published,   \* the published root
          generation, retained,
          pending,     \* a prepare that is durable and unresolved
          sound,       \* whose candidate was complete when it was frozen, and no
                       \* compaction dropped a part of it
          gone         \* blobs a compaction dropped and nobody staged again

vars == <<staged, durable, lost, space, candidates, offered, published,
          generation, retained, pending, sound, gone>>

Blob(b) == <<"blob", b>>
Tree(f) == <<"tree", f>>
Manifest(f, policy) == <<"manifest", f, policy>>
Receipt(g) == <<"receipt", g>>

Index == staged \cup durable
NoSpace == [live |-> FALSE, owner |-> 0, bindings |-> <<>>]

Init ==
    /\ staged = {} /\ durable = {} /\ lost = 0
    /\ space = [w \in 1 .. MaxWorkspaces |-> NoSpace]
    /\ candidates = [p \in Sessions |-> NoObject]
    /\ offered = [p \in Sessions |-> <<>>]
    /\ published = NoObject /\ generation = 0 /\ retained = {}
    /\ pending = FALSE
    /\ sound = {} /\ gone = {}

----------------------------------------------------------------------------
(* Staging. *)

Bound(f) == {Blob(b) : b \in Range(f)}

\* `closure`: the objects a digest reaches.
Closure(o) ==
    CASE o[1] = "manifest" ->
            {o, Tree(o[2]), Blob(o[3])} \cup Bound(o[2])
      [] o[1] = "tree" -> {o} \cup Bound(o[2])
      [] OTHER -> {o}

\* Mutant: what a principal froze is not kept for it.
ProtectedOffered == UNION {ToSet(offered[p]) : p \in Sessions}

\* `protect`: what a sweep in this request must keep, up to MAX_PROTECTED.
Protected ==
    LET Of(p) == <<candidates[p]>> \o offered[p]
        In(w) == IF space[w].live THEN SetToSeq(Bound(space[w].bindings)) ELSE <<>>
        all == FlattenSeq([p \in Sessions |-> Of(p)])
                   \o FlattenSeq([w \in 1 .. MaxWorkspaces |-> In(w)])
        kept == FoldLeft(LAMBDA acc, o : IF o = NoObject \/ Contains(acc, o) THEN acc
                                         ELSE Append(acc, o), <<>>, all)
    IN  ToSet(SubSeq(kept, 1, Min({Len(kept), MaxProtected})))

\* Mutant: a sweep keeps what the candidates name and not what was offered.
KeptFrozen(root, index) ==
    IF root[1] = "blob" THEN {}
    ELSE IF Closure(root) \subseteq index THEN Closure(root) ELSE {root} \cap index

\* What a sweep keeps for a root: all it reaches, if all of it is there.
Kept(root, index) ==
    IF Closure(root) \subseteq index THEN Closure(root) ELSE {root} \cap index

\* `reclaim_staged`.
Swept(st, pins) ==
    LET roots == ({published} \ {NoObject}) \cup retained \cup Protected
    IN  {o \in st : \/ o \in pins
                    \/ \E r \in roots : o \in Kept(r, st \cup durable)}

Full(st) == Cardinality(st) + lost >= MaxStaged
                \/ Cardinality(st \cup durable) >= MaxObjects

\* `stage`: the staged objects and the pins after it, and whether it succeeded.
\* A pin lasts as long as the request (`unpin`).
Stage(st, pins, o) ==
    LET swept == IF Full(st) THEN Swept(st, pins) ELSE st
    IN  IF o \in st \cup durable THEN [ok |-> TRUE, st |-> st, pins |-> pins]
        ELSE IF Full(swept) THEN [ok |-> FALSE, st |-> swept, pins |-> pins]
        ELSE [ok |-> TRUE, st |-> swept \cup {o}, pins |-> pins \cup {o}]

----------------------------------------------------------------------------
(* Requests. *)

\* `put_object` and `remember`.
PutObject(p, b) ==
    LET r == Stage(staged, {}, Blob(b))
    IN  /\ staged' = r.st
        /\ offered' = IF ~r.ok THEN offered
                      ELSE [offered EXCEPT ![p] =
                                IF Len(@) < Offered THEN Append(@, Blob(b))
                                ELSE Append(Tail(@), Blob(b))]
        /\ gone' = gone \ r.st
        /\ UNCHANGED <<durable, lost, space, candidates, published, generation,
                       retained, pending, sound>>

\* `fork`: a workspace over the published version.
Fork(p) ==
    /\ \E w \in 1 .. MaxWorkspaces : ~space[w].live
    /\ LET w == Min({v \in 1 .. MaxWorkspaces : ~space[v].live})
       IN  space' = [space EXCEPT ![w] =
               [live |-> TRUE, owner |-> p,
                bindings |-> IF published = NoObject THEN <<>> ELSE published[2]]]
    /\ UNCHANGED <<staged, durable, lost, candidates, offered, published,
                   generation, retained, pending, sound, gone>>

Owns(p, w) == space[w].live /\ space[w].owner = p

\* `write`: a name is bound to an object of the index.
Write(p, w, n, b) ==
    /\ Owns(p, w) /\ Blob(b) \in Index
    /\ n \in DOMAIN space[w].bindings \/ Cardinality(DOMAIN space[w].bindings) < MaxBindings
    /\ space' = [space EXCEPT ![w].bindings =
                    [m \in DOMAIN @ \cup {n} |-> IF m = n THEN b ELSE @[m]]]
    /\ UNCHANGED <<staged, durable, lost, candidates, offered, published,
                   generation, retained, pending, sound, gone>>

\* `freeze`: the tree and then the manifest are staged.
Freeze(p, w, policy) ==
    LET f == space[w].bindings
        t == Stage(staged, {}, Tree(f))
        root == Manifest(f, policy)
        m == IF t.ok THEN Stage(t.st, t.pins, root) ELSE t
    IN  /\ Owns(p, w)
        /\ staged' = m.st
        /\ candidates' = IF m.ok THEN [candidates EXCEPT ![p] = root] ELSE candidates
        /\ sound' = IF ~m.ok THEN sound
                    ELSE IF Closure(root) \subseteq m.st \cup durable
                    THEN sound \cup {p} ELSE sound \ {p}
        /\ gone' = gone \ m.st
        /\ UNCHANGED <<durable, lost, space, offered, published, generation, retained,
                       pending>>

Discard(p, w) ==
    /\ Owns(p, w)
    /\ space' = [space EXCEPT ![w] = NoSpace]
    /\ UNCHANGED <<staged, durable, lost, candidates, offered, published,
                   generation, retained, pending, sound, gone>>

\* Mutant: the objects are written and their staging is not given back.
WrittenKept(st, written) == [staged |-> st \ written, lost |-> lost + Cardinality(st \cap written)]

\* `write_object` gives the staging slot back.
Written(st, written) == [staged |-> st \ written, lost |-> lost]

\* `admit` and `publish`: the receipt is staged after the closure was found
\* complete and before it is walked again.
Publish(p, root) ==
    LET r == Stage(staged, {}, Receipt(generation + 1))
        index == r.st \cup durable
        all == Closure(root) \cup {Receipt(generation + 1)}
        w == Written(r.st, all)
    IN  /\ generation < MaxGeneration
        /\ Closure(root) \subseteq Index
        /\ Foreign \/ root = candidates[p]
        /\ gone' = gone \ r.st
        /\ IF ~r.ok
           THEN /\ staged' = r.st
                /\ UNCHANGED <<durable, lost, published, generation, pending>>
           ELSE IF Closure(root) \subseteq index
           THEN /\ staged' = w.staged /\ lost' = w.lost
                /\ durable' = durable \cup all
                /\ published' = root /\ generation' = generation + 1
                /\ pending' = FALSE
           ELSE /\ staged' = r.st /\ pending' = TRUE
                /\ UNCHANGED <<durable, lost, published, generation>>
        /\ UNCHANGED <<space, candidates, offered, retained, sound>>

Retain(root) ==
    /\ root \in Index \ retained /\ Cardinality(retained) < MaxRetained
    /\ Unpublished \/ root \in durable
    /\ retained' = retained \cup {root}
    /\ UNCHANGED <<staged, durable, lost, space, candidates, offered, published,
                   generation, pending, sound, gone>>

Release(root) ==
    /\ root \in retained
    /\ retained' = retained \ {root}
    /\ UNCHANGED <<staged, durable, lost, space, candidates, offered, published,
                   generation, pending, sound, gone>>

\* Mutant: a compaction copies the published version only.
CopiedPublished(index) == IF published = NoObject THEN {} ELSE Closure(published)

\* What a compaction copies: the published version and the retained roots.
Copied(index) ==
    UNION {Closure(r) : r \in {q \in ({published} \ {NoObject}) \cup retained :
                                  Closure(q) \subseteq index}}

\* `compact`: what is durable and was not copied leaves the index; what was
\* staged and is copied keeps the slot it was staged in.
Compact ==
    /\ ~pending
    /\ durable' = Copied(Index)
    /\ staged' = staged \ Copied(Index)
    /\ lost' = lost + Cardinality(staged \cap Copied(Index))
    /\ gone' = gone \cup {o \in durable \ Copied(Index) : o[1] = "blob"}
    /\ sound' = {p \in sound : Closure(candidates[p]) \subseteq staged \cup Copied(Index)}
    /\ UNCHANGED <<space, candidates, offered, published, generation, retained, pending>>

Manifests == {o \in Index : o[1] = "manifest"}

Next ==
    \/ \E p \in Sessions, b \in Blobs \cup Policies : PutObject(p, b)
    \/ \E p \in Sessions : Fork(p)
    \/ \E p \in Sessions, w \in 1 .. MaxWorkspaces :
          \/ \E n \in Names, b \in Blobs : Write(p, w, n, b)
          \/ \E policy \in Policies : Freeze(p, w, policy)
          \/ Discard(p, w)
    \/ \E p \in Sessions, root \in Manifests : Publish(p, root)
    \/ \E root \in Manifests \cup retained : Retain(root) \/ Release(root)
    \/ Compact

Spec == Init /\ [][Next]_vars

----------------------------------------------------------------------------
(* Properties. *)

\* A sweep of staging never takes what a client may still name: what it put
\* last, what its workspace binds and the whole of a candidate that was whole
\* when it was frozen stay in the index until a compaction drops them
\* (`protect`, `reclaim_staged`).
NameableStays ==
    /\ \A p \in Sessions : ToSet(offered[p]) \subseteq Index \cup gone
    /\ \A w \in 1 .. MaxWorkspaces : Bound(space[w].bindings) \subseteq Index \cup gone
    /\ \A p \in sound : Closure(candidates[p]) \subseteq Index

\* A retained root keeps everything it reaches through compactions, and the
\* published one does (`compact`).
RetainedWhole ==
    \A r \in ({published} \ {NoObject}) \cup retained : Closure(r) \subseteq Index

\* The staging slots in use are those of staged objects: none is lost to an
\* object that is durable or gone (`write_object`, `compact`).
StagingReturned == lost = 0

\* A publication of a candidate that was admitted commits: staging its receipt
\* does not take away what `admit` found (`publish`).
AdmittedCommits == ~pending
=============================================================================
