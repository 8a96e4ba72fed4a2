----------------------------- MODULE Supervisor -----------------------------
(***************************************************************************)
(* The supervisor of the port and the launcher it serves: user/k5super.    *)
(* One thread builds the services, the engine and the works, then serves   *)
(* launch requests, watches for a cut and for the works to end, and closes *)
(* the asking work's scope in the CANCEL scenario.                         *)
(*                                                                         *)
(* What bounds a run is the supervisor's capability table: every object it *)
(* makes, every facet it binds and every handle it is lent takes a slot    *)
(* until it is closed.  A build is therefore the sequence of handles it    *)
(* opens and closes, in the order of the source; mappings, installations,  *)
(* limits and notes take no slot and are left out.  A handle is a pair of  *)
(* its name in the source and the work it is for, 0 for the run.           *)
(***************************************************************************)
EXTENDS Naturals, Sequences, FiniteSets

CONSTANTS
    MaxCaps,     \* capability slots of the supervisor's domain
    Shapes,      \* the stages: "surface", "work", "engine"
    Scenarios,   \* what the medium asks for: "baseline", "rivals", "cancel"
    MaxAsked,    \* bound on the launch requests one work sends
    Refuses      \* a step of a launch may be refused for another reason

VARIABLES
    shape, scenario,  \* what the run was told to be
    table,            \* the handles in the supervisor's table
    todo,             \* the handles still to open and close, in order
    after,            \* where the supervisor goes once that is done
    undo,             \* what a launch does instead once a step is refused
    turn,             \* the place in the loop of surface::run
    crash,            \* the CRASH bit, raised by the state service
    up,               \* the works whose runtime the launcher holds
    request,          \* request[w]: what work w waits for from the launcher
    asked,            \* asked[w]: how many requests work w has sent
    dead,             \* the works whose domains have stopped
    finished,         \* the works the supervisor has seen stop
    closing           \* the asking work: "none", "asking", "watched", "fenced", "retired"

vars == <<shape, scenario, table, todo, after, undo, turn, crash, up, request, asked,
          dead, finished, closing>>

O(name, w) == <<"open", <<name, w>>>>
C(name, w) == <<"close", <<name, w>>>>
Opens(names) == [i \in 1..Len(names) |-> O(names[i], 0)]
Closes(names) == [i \in 1..Len(names) |-> C(names[i], 0)]

uses_runtime == shape # "surface"
uses_engine == shape = "engine"
Only(condition, ops) == IF condition THEN ops ELSE <<>>

(* The works of a scenario, in plan order: role and principal. *)
plans ==
    CASE scenario = "rivals" -> <<"PUBLISHER", "RIVAL">>
      [] scenario = "cancel" -> <<"ASKER", "PUBLISHER">>
      [] OTHER               -> <<"PUBLISHER">>
Works == 1..Len(plans)
Asker(w) == plans[w] = "ASKER"
principal(role) == IF role = "ASKER" THEN "READER" ELSE role

(* The boot manifest: its own domain, the system scope, the log, one device  *)
(* and the sealed modules of the package.                                    *)
Modules ==
    {"k5disk", "k5store", "k5work", "k5plan"}
    \cup (IF uses_runtime THEN {"nhacer", "ncheck"} ELSE {})
    \cup (IF uses_engine THEN {"nengine", "k5model"} ELSE {})
Manifest == {<<n, 0>> : n \in {"own_domain", "system", "log", "device"} \cup Modules}

(* run of main.rs: the plan is read and let go, supervision comes first. *)
Main == <<C("k5plan", 0), O("supervision", 0)>>

(* surface::run up to the driver, and the driver. *)
Parts == Opens(<<"disk_scope", "store_scope", "iobuf", "crash", "store_endpoint",
                 "broker_endpoint">>)
build_driver ==
    Opens(<<"domain", "irq", "ring", "disk_endpoint">>) \o Closes(<<"ring", "domain", "irq">>)

(* The directive is read through a facet of the driver, let go at once. *)
Directive == <<C("k5disk", 0), O("super_disk", 0), C("super_disk", 0),
               O("disk_facet", 0), O("broker_facet", 0)>>

(* One facet per principal, those no work is built as closed at once. *)
Facets ==
    LET bind(p) == <<O(p, 0)>> \o Only(\A w \in Works : principal(plans[w]) # p, <<C(p, 0)>>)
    IN  bind("PUBLISHER") \o bind("RIVAL") \o bind("READER")

build_store == Opens(<<"store_domain", "page">>) \o Closes(<<"page">>)

LetGo == Closes(<<"k5store", "store_scope", "store_endpoint", "store_domain", "disk_scope",
                  "disk_facet", "broker_facet", "broker_endpoint", "disk_endpoint", "iobuf",
                  "device", "own_domain">>)

(* launch::build_with: what a native domain's construction opens and closes. *)
(* The domain and its two signals are left for the caller; a thread beside   *)
(* the first brings a stack of its own.                                      *)
Native(w) == <<O("native", w), O("stack", w), C("stack", w), O("bootcfg", w), C("bootcfg", w)>>
ThreadStack(w) == <<O("tstack", w), C("tstack", w)>>
build_with(w, threads) ==
    Native(w) \o <<O("work_signal", w), O("done_signal", w)>> \o Only(threads > 0, ThreadStack(w))

(* engine::build, and what the run lets go once the engine is ready. *)
EngineParts == Opens(<<"engine_scope", "engine_endpoint", "ready">>)
EngineReady ==
    Closes(<<"work_signal", "done_signal", "ready", "native">>)
    \o <<O("engine_view", 0), C("engine_scope", 0)>>
build_engine ==
    EngineParts \o build_with(0, 1) \o EngineReady \o Closes(<<"nengine", "k5model">>)

(* The launcher's own parts, and the slot of each work that launches. *)
LauncherParts ==
    Opens(<<"launch_endpoint", "launch_supervision", "report">>)
    \o Only(~Asker(1), <<O("channel", 1), O("host", 1), O("host_facet", 1)>>)
    \o Only(2 \in Works, <<O("channel", 2), O("host", 2), O("host_facet", 2)>>)

(* work::build, and the prompt object of a work that asks the engine. *)
Prompt(w) == <<O("prompt", w), C("prompt", w)>>
build_work(w) ==
    <<O("work", w), O("workcfg", w), C("workcfg", w), O("stage", w)>>
    \o Only(uses_engine, Prompt(w))

(* What the run lets go of a work once it is built: the scope itself is kept *)
(* only for the work the scenario closes, the done signal only where a bit   *)
(* on it decides something.                                                  *)
\* Mutant: the facets and the staging buffer are kept until the run ends.
BuiltKept(w) ==
    <<O("scope_view", w)>>
    \o Only(~Asker(w), <<C("work_scope", w)>>)
    \o Only(uses_runtime /\ ~Asker(w), <<C("host", w)>>)
    \o Only(scenario # "cancel", <<C("done", w)>>)
Built(w) ==
    <<O("scope_view", w)>>
    \o Only(~Asker(w), <<C("work_scope", w)>>)
    \o <<C("stage", w)>>
    \o Only(uses_runtime /\ ~Asker(w), <<C("launcher_facet", w)>>)
    \o Only(uses_engine, <<C("engine_facet", w)>>)
    \o Only(uses_runtime /\ ~Asker(w), <<C("host", w)>>)
    \o Only(scenario # "cancel", <<C("done", w)>>)

WorkOf(w) ==
    <<O("work_scope", w), O("done", w)>>
    \o Only(uses_runtime, <<O("launcher_facet", w)>>)
    \o Only(uses_runtime /\ Asker(w), <<C("launcher_facet", w)>>)
    \o Only(uses_engine, <<O("engine_facet", w)>>)
    \o build_work(w)
    \o Built(w)

LastClosed ==
    Only(uses_engine, <<C("engine_endpoint", 0)>>)
    \o Only(\E w \in Works : plans[w] = "PUBLISHER", <<C("PUBLISHER", 0)>>)
    \o Only(\E w \in Works : plans[w] = "RIVAL", <<C("RIVAL", 0)>>)
    \o Only(\E w \in Works : Asker(w), <<C("READER", 0)>>)
    \o <<C("k5work", 0)>>

Services == Main \o Parts \o build_driver \o Directive \o Facets \o build_store \o LetGo
Rest ==
    Only(uses_engine, build_engine) \o Only(uses_runtime, LauncherParts)
    \o WorkOf(1) \o Only(2 \in Works, WorkOf(2)) \o LastClosed

Init ==
    /\ shape \in Shapes
    /\ scenario \in Scenarios
    /\ scenario = "cancel" => uses_engine
    /\ table = Manifest
    /\ todo = Services /\ after = "ready" /\ undo = <<>>
    /\ turn = "build"
    /\ crash = FALSE
    /\ up = {}
    /\ request = [w \in Works |-> "none"] /\ asked = [w \in Works |-> 0]
    /\ dead = {} /\ finished = {}
    /\ closing = "none"

Looping == {"serve", "crash", "works", "fence", "drain", "last"}
Goes(next) == turn' = next
World == <<crash, up, request, asked, dead, finished, closing>>
Fixed == <<shape, scenario>>

(* One handle opened or closed.  Opening one fails when the table is full,   *)
(* or when the kernel refuses the step for another reason: a build of the    *)
(* run then ends it, a launch answers UNAVAILABLE.                           *)
Opening == todo # <<>> /\ Head(todo)[1] = "open"
Full == Cardinality(table) = MaxCaps

Done(rest) == todo' = rest /\ turn' = IF rest = <<>> THEN after ELSE turn

Open ==
    /\ Opening /\ ~Full
    /\ table' = table \cup {Head(todo)[2]}
    /\ Done(Tail(todo))
    /\ UNCHANGED <<Fixed, after, undo, World>>

Close ==
    /\ todo # <<>> /\ Head(todo)[1] = "close"
    /\ table' = table \ {Head(todo)[2]}
    /\ Done(Tail(todo))
    /\ UNCHANGED <<Fixed, after, undo, World>>

Refused ==
    /\ Opening
    /\ Full \/ Refuses \/ undo = <<>>
    /\ IF undo = <<>> THEN todo' = <<>> /\ Goes("failed")
                      ELSE todo' = undo /\ UNCHANGED turn
    /\ undo' = <<>>
    /\ UNCHANGED <<Fixed, table, after, World>>

(* The launcher's slot of a work is filled once its runtime is built, and    *)
(* emptied once it is stopped.                                               *)
Slot ==
    /\ todo # <<>> /\ Head(todo)[1] \in {"up", "down"}
    /\ up' = IF Head(todo)[1] = "up" THEN up \cup {Head(todo)[2]} ELSE up \ {Head(todo)[2]}
    /\ Done(Tail(todo))
    /\ UNCHANGED <<Fixed, table, after, undo, crash, request, asked, dead, finished, closing>>

(* The wait for the store to be ready, the cut seen before it included. *)
Ready ==
    /\ turn = "ready" /\ todo = <<>>
    /\ \/ crash /\ Goes("cut") /\ UNCHANGED <<todo, after>>
       \/ ~crash /\ Goes("build") /\ todo' = Rest /\ after' = "serve"
       \/ ~crash /\ Goes("failed") /\ UNCHANGED <<todo, after>>
    /\ UNCHANGED <<Fixed, table, undo, World>>

-----------------------------------------------------------------------------

(* run_tool: refused without its image or a sealed candidate; otherwise a    *)
(* scope, a build, the wait, and the whole of it let go again.               *)
RefusedTool == <<C("candidate", 0), C("invocation", 0)>>
\* Mutant: the signal the tool's workers would have waited on is kept.
run_toolKept ==
    <<O("tool_scope", 0)>> \o build_with(0, 0)
    \o <<C("candidate", 0), C("done_signal", 0), C("native", 0),
         C("tool_scope", 0), C("invocation", 0)>>
run_tool ==
    <<O("tool_scope", 0)>> \o build_with(0, 0)
    \o <<C("work_signal", 0), C("candidate", 0), C("done_signal", 0), C("native", 0),
         C("tool_scope", 0), C("invocation", 0)>>

start_runtime(w) ==
    IF w \in up THEN <<C("invocation", 0)>>
    ELSE <<O("runtime_scope", w)>> \o build_with(w, 0)
         \o << <<"up", w>>, C("work_signal", w), C("invocation", 0)>>

stop_runtime(w) ==
    IF w \notin up THEN <<C("invocation", 0)>>
    ELSE <<C("native", w), C("done_signal", w), C("runtime_scope", w), <<"down", w>>,
           C("invocation", 0)>>

(* A request is received with the invocation it makes and, for a tool, the   *)
(* candidate lent with it.                                                   *)
Lent(op) == IF op = "tool" THEN {<<"candidate", 0>>} ELSE {}
Received(op) == {<<"invocation", 0>>} \cup Lent(op)
Receivable(w) == request[w] # "none" /\ Cardinality(table \cup Received(request[w])) <= MaxCaps

serve(w) ==
    /\ turn \in {"serve", "drain"} /\ todo = <<>>
    /\ Receivable(w)
    /\ table' = table \cup Received(request[w])
    /\ after' = turn
    /\ CASE request[w] = "tool"  -> /\ todo' \in {run_tool, RefusedTool}
                                    /\ undo' = RefusedTool
         [] request[w] = "start" -> todo' = start_runtime(w) /\ undo' = <<C("invocation", 0)>>
         [] request[w] = "stop"  -> todo' = stop_runtime(w) /\ undo' = <<>>
    /\ request' = [request EXCEPT ![w] = "none"]
    /\ UNCHANGED <<Fixed, turn, crash, up, asked, dead, finished, closing>>

(* No request within the poll: the loop goes on to the signals. *)
NoRequest ==
    /\ turn = "serve" /\ todo = <<>>
    /\ \A w \in Works : ~Receivable(w)
    /\ Goes("crash")
    /\ UNCHANGED <<Fixed, table, todo, after, undo, World>>

RunDeadline ==
    /\ turn = "serve" /\ todo = <<>>
    /\ Goes("last")
    /\ UNCHANGED <<Fixed, table, todo, after, undo, World>>

LookCrash ==
    /\ turn = "crash"
    /\ Goes(IF crash THEN "cut" ELSE "works")
    /\ UNCHANGED <<Fixed, table, todo, after, undo, World>>

(* The works that have stopped, and whether the asking work is asking.  It   *)
(* is closed once the engine has charged it enough, or after a fallback.     *)
AllFinished(seen) == seen = Works
LookWorks ==
    /\ turn = "works"
    /\ finished' = finished \cup dead
    /\ closing' = IF closing = "asking" /\ ~(\E w \in finished : Asker(w)) THEN "watched"
                  ELSE closing
    /\ \/ closing' = "watched" /\ Goes("fence")
       \/ Goes(IF AllFinished(finished') THEN "last" ELSE "serve")
    /\ UNCHANGED <<Fixed, table, todo, after, undo, crash, up, request, asked, dead>>

(* Closing: the fence, then the retirement retried until the scope has       *)
(* drained, with launch requests served between tries; the handles go and    *)
(* the held work is given its turn.                                          *)
Fence ==
    /\ turn = "fence"
    /\ closing' = "fenced"
    /\ Goes("drain")
    /\ UNCHANGED <<Fixed, table, todo, after, undo, crash, up, request, asked, dead, finished>>

TryRetire(w) ==
    /\ turn = "drain" /\ todo = <<>> /\ Asker(w)
    /\ \A v \in Works : ~Receivable(v)
    /\ \/ /\ closing' = "retired" /\ finished' = finished \cup {w}
          /\ todo' = <<C("work_scope", w), C("done", w)>>
          /\ after' = IF AllFinished(finished) THEN "last" ELSE "serve"
          /\ UNCHANGED turn
       \/ Goes("failed") /\ UNCHANGED <<closing, finished, todo, after>>
    /\ UNCHANGED <<Fixed, table, undo, crash, up, request, asked, dead>>

(* The cut looked for once more, and the end. *)
LastLook ==
    /\ turn = "last"
    /\ Goes(IF crash THEN "cut" ELSE IF finished = Works THEN "finished" ELSE "unfinished")
    /\ UNCHANGED <<Fixed, table, todo, after, undo, World>>

-----------------------------------------------------------------------------

(* What happens around the supervisor: a work asks the launcher, one call at *)
(* a time; a work stops, which withdraws what it asked; the asking work says *)
(* it is asking; the service cuts the run.                                   *)
Around == <<Fixed, table, todo, after, undo, turn, up, finished>>
Held(w) == scenario = "cancel" /\ ~Asker(w) /\ closing # "retired"

Ask(w) ==
    /\ turn \in Looping /\ uses_runtime /\ ~Asker(w) /\ ~Held(w)
    /\ w \notin dead /\ request[w] = "none" /\ asked[w] < MaxAsked
    /\ \E op \in {"start", "tool", "stop"} : request' = [request EXCEPT ![w] = op]
    /\ asked' = [asked EXCEPT ![w] = @ + 1]
    /\ UNCHANGED <<Around, crash, dead, closing>>

Dies(w) ==
    /\ turn \in Looping /\ w \notin dead
    /\ dead' = dead \cup {w}
    /\ request' = [request EXCEPT ![w] = "none"]
    /\ UNCHANGED <<Around, crash, asked, closing>>

Asks(w) ==
    /\ turn \in Looping /\ Asker(w) /\ w \notin dead /\ closing = "none"
    /\ closing' = "asking"
    /\ UNCHANGED <<Around, crash, request, asked, dead>>

Cuts ==
    /\ turn \in Looping \cup {"ready"} /\ ~crash
    /\ crash' = TRUE
    /\ UNCHANGED <<Around, request, asked, dead, closing>>

Next ==
    \/ Open \/ Close \/ Refused \/ Slot \/ Ready
    \/ NoRequest \/ RunDeadline \/ LookCrash \/ LookWorks \/ Fence \/ LastLook
    \/ \E w \in Works : serve(w) \/ TryRetire(w) \/ Ask(w) \/ Dies(w) \/ Asks(w)
    \/ Cuts

Spec == Init /\ [][Next]_vars

-----------------------------------------------------------------------------

(* The thirty-two slots of the supervisor's table are enough for every stage *)
(* and scenario, at every point: two runtimes up and a tool being built over *)
(* a lent candidate included (k5super surface.rs and launcher.rs close each  *)
(* handle at its last use for this).                                         *)
TableFits == Opening => ~Full

(* Between requests the table holds what the run still names and nothing     *)
(* else: no request, served or refused, leaves a handle behind (serve,       *)
(* run_tool, start_runtime and stop_runtime of launcher.rs).                 *)
Named ==
    {<<n, 0>> : n \in {"system", "log", "supervision", "crash"}}
    \cup {<<n, 0>> : n \in IF uses_runtime
                           THEN {"nhacer", "ncheck", "launch_endpoint", "launch_supervision",
                                 "report"}
                           ELSE {}}
    \cup {<<"engine_view", 0>> : e \in IF uses_engine THEN {0} ELSE {}}
    \cup {<<n, w>> : n \in {"work", "scope_view"}, w \in Works}
    \cup {<<n, w>> : n \in {"channel", "host_facet"},
                     w \in {v \in Works : uses_runtime /\ ~Asker(v)}}
    \cup {<<"done", w>> : w \in {v \in Works : /\ scenario = "cancel"
                                               /\ Asker(v) => closing # "retired"}}
    \cup {<<"work_scope", w>> : w \in {v \in Works : Asker(v) /\ closing # "retired"}}
    \cup {<<n, w>> : n \in {"native", "done_signal", "runtime_scope"}, w \in up}
TableSettled == turn \in Looping /\ todo = <<>> => table = Named

(* A run the state service cut never ends as though its works had carried it *)
(* through, or had not: the cut is what is reported, even when it came after *)
(* the loop last looked for it (surface::run looks once more at the end).    *)
CutReported == turn \in {"finished", "unfinished"} => ~crash
=============================================================================
