------------------------------- MODULE Works -------------------------------
(***************************************************************************)
(* The works of the port: user/k5work.  A work queries the published       *)
(* version, loads it into a private workspace, has a program change it, a  *)
(* tool judge it, and publishes the result on the condition that the       *)
(* version it loaded is still the published one.  Two works share one      *)
(* state service; the run may be cut at any point, after which the service *)
(* recovers and every work starts again, one leg later.                    *)
(*                                                                         *)
(* A tree is the mark of module.js and whether anything else was written;  *)
(* the digests of trees, policies, validations and requests are the values *)
(* themselves.  The service is single-threaded (user/k4store main.rs), so  *)
(* a request it serves is one step; a publication is asked in one step and *)
(* served in another, and a call may end unanswered at its deadline.       *)
(***************************************************************************)
EXTENDS Naturals, Sequences, FiniteSets

CONSTANTS
    Publisher, Rival,  \* the two principals that publish
    Zero,              \* the mark of the seed version
    Nothing,           \* no request, no candidate
    MaxLeg,            \* bound on the legs of a run, one more than its cuts
    Disciplined,       \* the programs of content.rs, or any program at all
    Answered           \* the RESULT calls of a work that starts again are answered

Works == {Publisher, Rival}

VARIABLES
    versions,  \* the published versions, oldest first
    results,   \* results[w]: the durable results of w's request identities
    leg,       \* the leg of the run
    asked,     \* asked[w]: the publication the service holds, or Nothing
    work       \* work[w]: the work's own state

vars == <<versions, results, leg, asked, work>>

SeedTree == [mark |-> Zero, more |-> FALSE]

(* The published generation, counted by the versions before it. *)
Generation == Len(versions)
Published == versions[Generation].tree

Fresh == [pc |-> "begin", sequence |-> 0, attempts |-> 0, generation |-> 0,
          base |-> SeedTree, tree |-> SeedTree, verdict |-> "not_proven",
          validated |-> Nothing, passed |-> {}, latched |-> FALSE,
          answer |-> "none"]

Init ==
    /\ versions = <<>>
    /\ results = [w \in Works |-> <<>>]
    /\ leg = 1
    /\ asked = [w \in Works |-> Nothing]
    /\ work = [w \in Works |-> Fresh]

At(w, pc) == work[w].pc = pc

Goes(w, pc) == work' = [work EXCEPT ![w].pc = pc]

Ends(w, how) == work' = [work EXCEPT ![w] = [Fresh EXCEPT !.pc = "ended", !.answer = how]]

(* resume_after: the identities a work finds spent, looked for one by one up *)
(* to SearchLimit; a RESULT call that is not answered ends the search.       *)
SearchLimit == 8

\* Mutant: an identity recovery aborted is taken for one that was never used.
resume_afterAborted(w) ==
    LET spent == {n \in 1..Len(results[w]) : \A k \in 1..n : results[w][k].outcome = "committed"}
    IN  {Cardinality(spent)}

resume_after(w) ==
    LET spent == IF Len(results[w]) < SearchLimit THEN Len(results[w]) ELSE SearchLimit
    IN  IF Answered THEN {spent} ELSE 0..spent

(* run_with_runtime up to its loop: the rival waits for a first version, the *)
(* publisher publishes one when there is none.                               *)
Begin(w) ==
    /\ At(w, "begin")
    /\ w = Rival => Generation >= 1
    /\ \E spent \in resume_after(w) :
          work' = [work EXCEPT ![w].sequence = IF leg > 1 THEN spent ELSE 0,
                               ![w].pc = IF Generation = 0 THEN "seed" ELSE "load"]
    /\ UNCHANGED <<versions, results, leg, asked>>

Request(w, sequence, generation, tree, base, judged) ==
    [sequence |-> sequence, generation |-> generation, tree |-> tree,
     base |-> base, judged |-> judged]

(* publish_seed: frozen over generation zero, under a verdict the work       *)
(* asserts itself.                                                           *)
publish_seed(w) ==
    /\ At(w, "seed")
    /\ IF Generation = 0
       THEN LET next == work[w].sequence + 1
            IN  /\ asked' = [asked EXCEPT ![w] = Request(w, next, 0, SeedTree, SeedTree, FALSE)]
                /\ work' = [work EXCEPT ![w].sequence = next, ![w].pc = "seeding"]
       ELSE Ends(w, "failed") /\ UNCHANGED asked
    /\ UNCHANGED <<versions, results, leg>>

seedAnswered(w) ==
    /\ At(w, "seeding")
    /\ work[w].answer # "none"
    /\ IF work[w].answer = "ok"
       THEN work' = [work EXCEPT ![w].pc = "load", ![w].answer = "none"]
       ELSE Ends(w, work[w].answer)
    /\ UNCHANGED <<versions, results, leg, asked>>

(* already_published: after a cut, the loaded version carries the work's mark. *)
already_published(w) == leg > 1 /\ Published.mark = w

(* One turn of the loop: query, load_version (nothing is published at    *)
(* generation zero), and the start of a program.                             *)
load_version(w) ==
    /\ At(w, "load")
    /\ IF Generation = 0 THEN Ends(w, "failed")
       ELSE IF already_published(w) THEN Ends(w, "recovered")
       ELSE work' = [work EXCEPT ![w].pc = "running", ![w].attempts = @ + 1,
                                 ![w].generation = Generation, ![w].base = Published,
                                 ![w].tree = Published, ![w].verdict = "not_proven",
                                 ![w].validated = Nothing, ![w].passed = {},
                                 ![w].latched = FALSE]
    /\ UNCHANGED <<versions, results, leg, asked>>

Serving(w) == At(w, "running") /\ ~work[w].latched

(* The verbs a program changes the workspace with. *)
substitute(w) ==
    /\ Serving(w) /\ work[w].tree.mark = Zero
    /\ work' = [work EXCEPT ![w].tree.mark = w]
    /\ UNCHANGED <<versions, results, leg, asked>>

put(w) ==
    /\ Serving(w)
    /\ work' = [work EXCEPT ![w].tree.more = TRUE]
    /\ UNCHANGED <<versions, results, leg, asked>>

(* The tool's verdict on a sealed candidate: the module's own tests hold     *)
(* once the mark is replaced.  A tool that could not run proves nothing.     *)
Verdicts(tree) == {IF tree.mark = Zero THEN "failed" ELSE "passed", "not_proven"}

(* The trees the tool has passed: what the properties remember of it. *)
Passed(w, verdict) == work[w].passed \cup {t \in {work[w].tree} : verdict = "passed"}

\* Mutant: the verdict of an earlier candidate is kept when a tool cannot run.
validateKept(w) ==
    /\ Serving(w)
    /\ \E verdict \in Verdicts(work[w].tree) :
          work' = [work EXCEPT ![w].verdict = IF verdict = "not_proven" THEN @ ELSE verdict,
                               ![w].validated = work[w].tree,
                               ![w].passed = Passed(w, verdict)]
    /\ UNCHANGED <<versions, results, leg, asked>>

validate(w) ==
    /\ Serving(w)
    /\ \E verdict \in Verdicts(work[w].tree) :
          work' = [work EXCEPT ![w].verdict = verdict, ![w].validated = work[w].tree,
                               ![w].passed = Passed(w, verdict)]
    /\ UNCHANGED <<versions, results, leg, asked>>

assert_failed(w) ==
    /\ Serving(w)
    /\ work' = [work EXCEPT ![w].latched = TRUE]
    /\ UNCHANGED <<versions, results, leg, asked>>

(* How a program may report that it ended.  The programs of content.rs       *)
(* replace the placeholder of the version they loaded, and return only once  *)
(* the tool has passed what they leave.                                      *)
Returns(w) ==
    /\ ~work[w].latched
    /\ Disciplined => /\ work[w].base.mark = Zero /\ work[w].tree.mark = w
                      /\ work[w].validated = work[w].tree

(* FINISH, or the deadline of the program; then the decision: both the       *)
(* program went through and the tool passed, or the work is abandoned.       *)
Decided(w, returned) ==
    IF returned /\ work[w].verdict = "passed" THEN Goes(w, "freeze") ELSE Ends(w, "abandoned")

finish(w) ==
    /\ At(w, "running")
    /\ \E returned \in BOOLEAN : (returned => Returns(w)) /\ Decided(w, returned)
    /\ UNCHANGED <<versions, results, leg, asked>>

(* Stale: the vertical again over what is published now, once. *)
Stale(w) ==
    IF work[w].attempts < 2
    THEN work' = [work EXCEPT ![w].pc = "load", ![w].answer = "none"]
    ELSE Ends(w, "stale")

(* freeze: staged, forked over the loaded version, bound, frozen.  The fork  *)
(* is refused once the version moved.                                        *)
freeze(w) ==
    /\ At(w, "freeze")
    /\ IF work[w].generation = Generation THEN Goes(w, "frozen") ELSE Stale(w)
    /\ UNCHANGED <<versions, results, leg, asked>>

(* The evidence frozen with the candidate claims a pass for the tree frozen; *)
(* `judged' is whether the tool saw that tree.                               *)
Judged(w) == work[w].tree \in work[w].passed

\* Mutant: the condition is the version published now, not the one loaded.
ConditionNow(w) == Generation
Condition(w) == work[w].generation

publish(w) ==
    /\ At(w, "frozen")
    /\ LET next == work[w].sequence + 1
       IN  /\ asked' = [asked EXCEPT ![w] = Request(w, next, Condition(w), work[w].tree,
                                                    work[w].base, Judged(w))]
           /\ work' = [work EXCEPT ![w].sequence = next, ![w].pc = "publishing"]
    /\ UNCHANGED <<versions, results, leg>>

answered(w) ==
    /\ At(w, "publishing")
    /\ work[w].answer # "none"
    /\ CASE work[w].answer = "ok"    -> Ends(w, "published")
         [] work[w].answer = "stale" -> Stale(w)
         [] OTHER                    -> Ends(w, work[w].answer)
    /\ UNCHANGED <<versions, results, leg, asked>>

(* A call that is not answered by its deadline.  A request the service had   *)
(* not received is withdrawn; one it had is still served.                    *)
Unanswered(w) ==
    /\ work[w].pc \in {"begin", "seed", "seeding", "load", "freeze", "frozen", "publishing"}
    /\ work[w].answer = "none"
    /\ Ends(w, "failed")
    /\ asked' \in {asked, [asked EXCEPT ![w] = Nothing]}
    /\ UNCHANGED <<versions, results, leg>>

(* What the service makes of a publication: an identity already spent is     *)
(* answered from its result, and anything else is admitted in order.         *)
Admitted(w) ==
    LET r == asked[w]
        spent == Len(results[w])
    IN  IF r.sequence <= spent
        THEN IF results[w][r.sequence].request = r THEN "ok" ELSE "conflict"
        ELSE IF r.sequence # spent + 1 THEN "gap"
        ELSE IF r.generation # Generation THEN "stale" ELSE "admitted"

Result(w, outcome) == Append(results[w], [outcome |-> outcome, request |-> asked[w]])

(* The reply reaches a work that still waits for it. *)
Told(w, answer) ==
    work' = IF work[w].pc \in {"seeding", "publishing"}
            THEN [work EXCEPT ![w].answer = answer] ELSE work

serve(w) ==
    /\ asked[w] # Nothing
    /\ LET found == Admitted(w)
       IN  IF found = "admitted"
           THEN /\ versions' = Append(versions, [by |-> w, tree |-> asked[w].tree,
                                                 base |-> asked[w].base,
                                                 judged |-> asked[w].judged])
                /\ results' = [results EXCEPT ![w] = Result(w, "committed")]
                /\ Told(w, "ok")
           ELSE Told(w, found) /\ UNCHANGED <<versions, results>>
    /\ asked' = [asked EXCEPT ![w] = Nothing]
    /\ UNCHANGED leg

(* A cut: everything volatile is gone.  A publication whose prepare was      *)
(* durable is aborted by the recovery that follows.                          *)
Cut ==
    /\ leg < MaxLeg
    /\ leg' = leg + 1
    /\ \/ UNCHANGED results
       \/ \E w \in Works : /\ asked[w] # Nothing /\ Admitted(w) = "admitted"
                           /\ results' = [results EXCEPT ![w] = Result(w, "aborted")]
    /\ asked' = [w \in Works |-> Nothing]
    /\ work' = [w \in Works |-> Fresh]
    /\ UNCHANGED versions

Next ==
    \/ \E w \in Works :
          \/ Begin(w) \/ publish_seed(w) \/ seedAnswered(w) \/ load_version(w)
          \/ substitute(w) \/ put(w) \/ validate(w) \/ assert_failed(w) \/ finish(w)
          \/ freeze(w) \/ publish(w) \/ answered(w) \/ Unanswered(w) \/ serve(w)
    \/ Cut

Spec == Init /\ [][Next]_vars

-----------------------------------------------------------------------------

(* No update is lost: each version after the first was made over the content *)
(* of the version it replaced, whatever the other work, a late reply or a    *)
(* cut did between the load (k5work main.rs load_version) and the commit.    *)
OverTheLast ==
    \A g \in 2..Len(versions) : versions[g].base = versions[g - 1].tree

(* A request identity is never spent twice: no work is told that its         *)
(* sequence was used for other inputs, or leaves a gap, however its earlier  *)
(* legs ended (resume_after, k5work main.rs; admit, k4store state.rs).       *)
IdentitiesFresh == \A w \in Works : work[w].answer \notin {"conflict", "gap"}

(* Every version after the seed is one the tool passed, byte for byte: "a    *)
(* program that changed the workspace after validating it gets a tree the    *)
(* evidence does not name, and the publication is refused" (k5work main.rs,  *)
(* candidate_digest).                                                        *)
PublishedValidated == \A g \in 2..Len(versions) : versions[g].judged
=============================================================================
