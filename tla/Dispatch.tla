------------------------------ MODULE Dispatch ------------------------------
(***************************************************************************)
(* Threads, run queues and the processors that share them: a thread waits  *)
(* and its wait is claimed, it is queued, picked, switched to and switched *)
(* from; its domain is activated, terminated and reaped; a processor with  *)
(* nothing to run polls, takes work from the others and halts.             *)
(*                                                                         *)
(* A step is what one processor does between two points where another can  *)
(* look.  Everything the code does under one run-queue lock is one step    *)
(* except a scheduling decision, whose choice and claim are two (Pick,     *)
(* Claim): the thread's state is a plain atomic that stop_thread writes    *)
(* under another lock.  Everything done under the machine lock is one step *)
(* except a termination (Terminate, Sweep, KickDomain) and a wake issued   *)
(* while it is held.                                                       *)
(*                                                                         *)
(* A domain is the one thread it is made of.  Budgets and parallelism      *)
(* slots are an input: a reservation may be refused to any thread.  So is  *)
(* time: a deadline, a slice, a grace may be over or not.  The round-robin *)
(* cursor is abstracted to a free choice among the eligible threads.       *)
(***************************************************************************)
EXTENDS Naturals, Sequences, FiniteSets, FiniteSetsExt, Functions

CONSTANTS
  Cpus,      \* online processors: a set of numbers, as percpu::index
  Threads,   \* user slots of the thread table
  Idle,      \* stands for the idle thread of each processor
  None,      \* NO_THREAD, and on_cpu = 0
  Booted,    \* the threads of the domains the boot processor activated
  Reuse,     \* whether a slot that was reaped is given to a new domain
  Crossing,  \* whether a fence may meet a wait that was claimed already
  Refusing   \* processors where a reservation may be refused

ASSUME DispatchAssumption ==
  /\ Cpus \subseteq Nat /\ IsFiniteSet(Cpus) /\ Cpus # {}
  /\ Idle \notin Threads \cup Cpus /\ None \notin Threads \cup Cpus
  /\ Idle # None /\ Booted \subseteq Threads /\ Refusing \subseteq Cpus
  /\ {Reuse, Crossing} \subseteq BOOLEAN

VARIABLES
  thread,    \* the thread table, each slot with the domain it belongs to
  cpu,       \* the per-processor scheduler state, and what each does next
  machine    \* the processor holding MACHINE across steps, or None

vars == <<thread, cpu, machine>>

\* A thread of a domain in state d that is in no state of its own yet: the state
\* of machine.domains[..], its own, on_cpu, whether it was told to stop, whether
\* its WaitRecord has a wait, and where it goes on when it is switched to.
ThreadCell(d) == [dom |-> d, state |-> "Empty", on |-> None, stop |-> FALSE,
                  wait |-> FALSE, resume |-> "user"]

\* A processor with ready threads q: RunQueue and CpuState, IDLE_MASK and
\* HALTED_MASK (idle), the reschedule interrupt pending for it (ipi), then what
\* its code is doing: the step, the thread, the hint and the processor of a wake
\* it issues, where that wake returns to and where its idle thread goes on.
CpuState(q) == [queue |-> q, hint |-> None, current |-> Idle, previous |-> None,
                resched |-> FALSE, throttled |-> FALSE, idle |-> "running",
                ipi |-> FALSE, deferred |-> <<>>, pc |-> "turn", arg |-> None,
                sync |-> FALSE, aim |-> None, ret |-> "flush", rest |-> "turn"]

Init ==
  /\ thread = [t \in Threads |->
                 IF t \in Booted
                 THEN [ThreadCell("Runnable") EXCEPT !.state = "Ready"]
                 ELSE ThreadCell("Empty")]
  /\ cpu = [c \in Cpus |-> CpuState(IF c = Min(Cpus) THEN Booted ELSE {})]
  /\ machine = None

At(c, p) == cpu[c].pc = p

\* Only a decision holds a run queue between two of its steps.
RqFree(c) == ~At(c, "claim")

\* A thread of a domain whose capabilities are still there makes a request.
Calls(c) ==
  /\ At(c, "user") /\ machine = None
  /\ thread[cpu[c].current].dom = "Runnable"

\* A slot that was reset is no user thread's.
IsUser(t) == t \in Threads /\ thread[t].dom \notin {"Empty", "Dead"}

\* Mutant: a thread is taken although a processor is still leaving it.
ParkedAnywhere(t) == thread[t].state = "Ready"
Parked(t) == thread[t].state = "Ready" /\ thread[t].on = None

Eligible(t) == IsUser(t) /\ Parked(t)

CurrentRuns(c) ==
  IsUser(cpu[c].current) /\ thread[cpu[c].current].state = "Running"

standing_on(t) == \E c \in Cpus : t \in {cpu[c].current, cpu[c].previous}

has_local_work(c) == cpu[c].resched \/ cpu[c].queue # {}

IdleMask == {c \in Cpus : cpu[c].idle # "running"}

(***************************** waits and claims ****************************)

\* An operation of the running thread: it may end the wait of thread u (a
\* reply, an admission, a signal), deferring the wake until the lock is
\* dropped, and it may register a wait of its own.
Operate(c, blocks, u, sync) ==
  LET t == cpu[c].current IN
  /\ Calls(c)
  /\ blocks \/ u # None
  /\ u # None => thread[u].state = "Blocked" /\ thread[u].wait
  /\ thread' = [k \in Threads |->
       CASE k = u -> [thread[k] EXCEPT !.wait = FALSE]
         [] k = t /\ blocks /\ k # u -> [thread[k] EXCEPT !.wait = TRUE,
                                           !.state = "Blocked", !.resume = "exit"]
         [] OTHER -> thread[k]]
  /\ cpu' = [cpu EXCEPT ![c].pc = "flush",
               ![c].deferred = IF u = None THEN @ ELSE Append(@, <<u, sync>>)]
  /\ UNCHANGED machine

\* cancel_waits, for a fence: the predicate it claims with is |_| true, so a
\* blocked thread whose wait was claimed already is claimed again.  The wake
\* is issued at once, with the machine held.
CancelWait(c, u) ==
  /\ Calls(c)
  /\ thread[u].state = "Blocked" /\ (thread[u].wait \/ Crossing)
  /\ thread' = [thread EXCEPT ![u].wait = FALSE]
  /\ cpu' = [cpu EXCEPT ![c].pc = "wake", ![c].arg = u, ![c].sync = FALSE,
                        ![c].ret = "flush"]
  /\ machine' = c

\* flush_wakes; then a thread that registered a wait gives the processor up,
\* one that did not returns, and the idle loop goes on to reclaim.
FlushWakes(c) ==
  /\ At(c, "flush") \/ At(c, "turn")
  /\ cpu' =
       IF cpu[c].deferred # <<>>
       THEN [cpu EXCEPT ![c].pc = "wake", ![c].arg = Head(cpu[c].deferred)[1],
                        ![c].sync = Head(cpu[c].deferred)[2],
                        ![c].ret = "flush", ![c].deferred = Tail(@)]
       ELSE [cpu EXCEPT ![c].rest = "turn",
               ![c].pc = IF cpu[c].current = Idle THEN "reap"
                         ELSE IF thread[cpu[c].current].resume = "exit" THEN "plan"
                         ELSE "exit"]
  /\ UNCHANGED <<thread, machine>>

(********************************** wakes **********************************)

\* idle_cpu_for: idle processors with nothing queued, other than c.
IdleFor(c) == {k \in IdleMask \ {c} : cpu[k].queue = {}}

Load(k) == Cardinality(cpu[k].queue) + (IF cpu[k].current = Idle THEN 0 ELSE 1)

\* select_cpu and the synchronous rule.  Where the thread last ran is an
\* input, so any processor the rules may prefer for it is a target.
Targets(c, sync) ==
  LET shortest == {k \in Cpus : \A j \in Cpus : Load(k) <= Load(j)}
      here == IF cpu[c].queue = {} THEN {c} ELSE {}
  IN CASE sync -> IF here = {} /\ IdleFor(c) # {} THEN IdleFor(c) ELSE {c}
       [] ~sync /\ IdleFor(c) # {} -> here \cup IdleFor(c)
       [] OTHER -> here \cup shortest

\* A wake issued with the machine held is the last thing done under it.
WakeReturned(c) ==
  [cpu[c] EXCEPT !.pc = cpu[c].ret, !.ret = "flush", !.arg = None,
                 !.aim = None, !.sync = FALSE]
Unlocked(c) == IF machine = c THEN None ELSE machine

\* wake: waits until no processor stands on the thread, then makes it ready
\* and queues it, under the thread's lock and the target's queue lock.
Wake(c) ==
  LET t == cpu[c].arg IN
  /\ At(c, "wake")
  /\ thread[t].on = None
  /\ \/ /\ thread[t].state \notin {"Blocked", "Held"}
        /\ cpu' = [cpu EXCEPT ![c] = WakeReturned(c)]
        /\ machine' = Unlocked(c)
        /\ UNCHANGED thread
     \/ /\ thread[t].state \in {"Blocked", "Held"}
        /\ thread' = [thread EXCEPT ![t].state = "Ready"]
        /\ \E k \in Targets(c, cpu[c].sync) :
             /\ RqFree(k)
             /\ IF k = c
                THEN /\ cpu' = [cpu EXCEPT ![c] =
                          [WakeReturned(c) EXCEPT !.queue = @ \cup {t},
                             !.hint = IF cpu[c].sync THEN t ELSE @,
                             !.resched = @ \/ ~cpu[c].sync]]
                     /\ machine' = Unlocked(c)
                ELSE /\ cpu' = [cpu EXCEPT ![k].queue = @ \cup {t},
                          ![c].pc = "look", ![c].aim = k, ![c].arg = None]
                     /\ UNCHANGED machine

\* Mutant: only a processor that runs something is told.
LookRunning(c) ==
  LET k == cpu[c].aim IN
  /\ At(c, "look")
  /\ cpu' = [cpu EXCEPT ![c] = WakeReturned(c),
               ![k].ipi = @ \/ cpu[k].idle = "running",
               ![k].resched = @ \/ cpu[k].idle = "running"]
  /\ machine' = Unlocked(c)
  /\ UNCHANGED thread
\* The second half of a wake, after the fence: what the target is doing says
\* whether it has to be told.
Look(c) ==
  LET k == cpu[c].aim IN
  /\ At(c, "look")
  /\ cpu' = [cpu EXCEPT ![c] = WakeReturned(c),
               ![k].ipi = @ \/ cpu[k].idle # "polling",
               ![k].resched = @ \/ cpu[k].idle = "running"]
  /\ machine' = Unlocked(c)
  /\ UNCHANGED thread

(******************************* one decision ******************************)

\* Where context x of processor c goes on.
Continue(c, x) == IF x = Idle THEN cpu[c].rest ELSE thread[x].resume

\* plan, up to the choice: any eligible thread of the queue, the running one,
\* or, when every candidate is refused or there is none, the idle thread.
Pick(c) ==
  LET me == cpu[c].current
      able == {t \in cpu[c].queue : Eligible(t)}
                \cup (IF CurrentRuns(c) THEN {me} ELSE {})
  IN
  /\ At(c, "plan")
  /\ \E next \in able \cup (IF able = {} \/ c \in Refusing THEN {Idle} ELSE {}) :
       cpu' = [cpu EXCEPT ![c].resched = FALSE, ![c].hint = None,
                 ![c].throttled = (next = Idle /\ able # {}),
                 ![c].queue = @ \ {next},
                 ![c].pc = IF next # me THEN "claim"
                           ELSE IF me # Idle THEN "leave"
                           ELSE IF cpu[c].rest = "turn" THEN "idle"
                           ELSE cpu[c].rest,
                 ![c].arg = IF next # me THEN next ELSE None]
  /\ UNCHANGED <<thread, machine>>

\* plan, from the choice to the drop of the run queue: a running thread that
\* is switched away from is queued, and the chosen one is marked running,
\* whatever its state has become since it was found eligible.
Claim(c) ==
  LET me == cpu[c].current
      next == cpu[c].arg
  IN
  /\ At(c, "claim")
  /\ cpu' = [cpu EXCEPT ![c].queue = IF CurrentRuns(c) THEN @ \cup {me} ELSE @,
               ![c].previous = me, ![c].current = next,
               ![c].pc = "switch", ![c].arg = None]
  /\ thread' = IF next = Idle THEN thread
               ELSE [thread EXCEPT ![next].on = c, ![next].state = "Running"]
  /\ UNCHANGED machine

\* The incoming context goes on where it stopped; a thread that returns from a
\* wait or starts has no other point to return to from then on.
Resumed(c) ==
  /\ cpu' = [cpu EXCEPT ![c].pc = Continue(c, cpu[c].current),
                        ![c].previous = None, ![c].arg = None]
  /\ thread' = [t \in Threads |->
       [thread[t] EXCEPT
          !.resume = IF t = cpu[c].current THEN "leave" ELSE @,
          !.on = IF t = cpu[c].arg THEN None ELSE @]]

\* The switch and the first half of finish_switch: the outgoing thread is no
\* longer named, and its state is read.
FinishSwitch(c) ==
  LET out == cpu[c].previous IN
  /\ At(c, "switch")
  /\ IF out = Idle
     THEN Resumed(c)
     ELSE /\ cpu' = [cpu EXCEPT ![c].previous = None, ![c].arg = out,
                       ![c].pc = IF thread[out].state = "Running"
                                 THEN "publish" ELSE "release"]
          /\ UNCHANGED thread
  /\ UNCHANGED machine

Publish(c) ==
  /\ At(c, "publish")
  /\ thread' = [thread EXCEPT ![cpu[c].arg].state = "Ready"]
  /\ cpu' = [cpu EXCEPT ![c].pc = "release"]
  /\ UNCHANGED machine

Release(c) ==
  /\ At(c, "release")
  /\ Resumed(c)
  /\ UNCHANGED machine

(********************** the way out, ticks, interrupts *********************)

\* on_kernel_exit and the end of on_tick: a decision if one was asked for or
\* the reservation ran out; otherwise the thread returns, and what it woke
\* synchronously and did not pick up is handed on if it has aged.
Returning(c) == At(c, "exit") \/ At(c, "ticked")

ExitToPlan(c) ==
  /\ Returning(c)
  /\ cpu' = [cpu EXCEPT ![c].pc = "plan"]
  /\ UNCHANGED <<thread, machine>>

ExitToThread(c) ==
  /\ Returning(c) /\ ~cpu[c].resched
  /\ cpu' = [cpu EXCEPT ![c].pc = "leave"]
  /\ UNCHANGED <<thread, machine>>

\* delegate_aged_sync, up to the drop of its own run queue.  With no idle
\* processor the hint takes this one: at once on the way out, at the next
\* entry after a tick.
DelegateAgedSync(c) ==
  LET t == cpu[c].hint IN
  /\ Returning(c) /\ ~cpu[c].resched /\ t # None
  /\ cpu' = CASE IdleMask = {} ->
                   [cpu EXCEPT ![c].resched = TRUE,
                      ![c].pc = IF At(c, "exit") THEN "plan" ELSE "leave"]
              [] IdleMask # {} /\ c = Min(IdleMask) ->
                   [cpu EXCEPT ![c].pc = "leave"]
              [] OTHER ->
                   [cpu EXCEPT ![c].hint = None, ![c].queue = @ \ {t},
                      ![c].pc = IF t \in cpu[c].queue THEN "moving" ELSE "leave",
                      ![c].arg = IF t \in cpu[c].queue THEN t ELSE None,
                      ![c].aim = IF t \in cpu[c].queue
                                 THEN Min(IdleMask) ELSE None]
  /\ UNCHANGED <<thread, machine>>

\* The thread in hand is queued on the processor found idle.
Delegated(c) ==
  LET k == cpu[c].aim IN
  /\ At(c, "moving") /\ RqFree(k)
  /\ cpu' = [cpu EXCEPT ![k].queue = @ \cup {cpu[c].arg},
                        ![c].arg = None, ![c].pc = "moved"]
  /\ UNCHANGED <<thread, machine>>

DelegateKick(c) ==
  LET k == cpu[c].aim IN
  /\ At(c, "moved")
  /\ cpu' = [cpu EXCEPT ![k].ipi = @ \/ cpu[k].idle = "halted",
                        ![c].aim = None, ![c].pc = "leave"]
  /\ UNCHANGED <<thread, machine>>

\* leave_if_dead, and switch_away_from_dead when the thread was stopped.
LeaveIfDead(c) ==
  LET t == cpu[c].current IN
  /\ At(c, "leave")
  /\ IF thread[t].stop
     THEN /\ thread' = [thread EXCEPT ![t].state = "Dead"]
          /\ cpu' = [cpu EXCEPT ![c].pc = "plan"]
     ELSE /\ cpu' = [cpu EXCEPT ![c].pc = "user"]
          /\ UNCHANGED thread
  /\ UNCHANGED machine

\* Where interrupts are enabled: user code, the poll and the halt.
Interruptible(c) == cpu[c].pc \in {"user", "poll", "asleep"}

\* The timer: on_tick, which first does what tick_bookkeeping finds due.
Tick(c) ==
  /\ Interruptible(c)
  /\ cpu' = [cpu EXCEPT ![c].pc = "expire",
               ![c].rest = CASE At(c, "asleep") -> "tail"
                             [] At(c, "poll") -> "poll"
                             [] OTHER -> @]
  /\ UNCHANGED <<thread, machine>>

\* expire_waits: a wait whose deadline has passed is claimed, and the thread
\* woken at once.
ExpireWait(c, t) ==
  /\ At(c, "expire")
  /\ thread[t].state = "Blocked" /\ thread[t].wait
  /\ thread' = [thread EXCEPT ![t].wait = FALSE]
  /\ cpu' = [cpu EXCEPT ![c].pc = "wake", ![c].arg = t, ![c].sync = FALSE,
                        ![c].ret = "expire"]
  /\ UNCHANGED machine

\* The rest of a tick, or of the idle turn that did the bookkeeping.
Expired(c) ==
  /\ At(c, "expire")
  /\ cpu' = [cpu EXCEPT ![c].pc =
               IF cpu[c].current # Idle THEN "ticked"
               ELSE IF cpu[c].rest = "turn" \/ cpu[c].resched THEN "plan"
               ELSE cpu[c].rest]
  /\ UNCHANGED <<thread, machine>>

\* on_reschedule, from user code or the idle loop.
OnReschedule(c) ==
  /\ Interruptible(c) /\ cpu[c].ipi
  /\ LET back == CASE At(c, "user") -> "leave"
                   [] At(c, "poll") -> "poll"
                   [] At(c, "asleep") -> "tail"
     IN cpu' = [cpu EXCEPT ![c].ipi = FALSE,
                  ![c].rest = IF At(c, "user") THEN @ ELSE back,
                  ![c].pc = IF cpu[c].resched THEN "plan" ELSE back]
  /\ UNCHANGED <<thread, machine>>

(***************************** life of a domain ****************************)

\* create_in: the slot is reset and its thread is held until activation.
Create(c, t) ==
  /\ Calls(c)
  /\ thread[t].state = "Empty"
  /\ thread[t].dom \in IF Reuse THEN {"Empty", "Dead"} ELSE {"Empty"}
  /\ thread' = [thread EXCEPT ![t] = [ThreadCell("Building") EXCEPT !.state = "Held"]]
  /\ cpu' = [cpu EXCEPT ![c].pc = "exit"]
  /\ UNCHANGED machine

\* activate_in and start_thread, whose wake is issued with the machine held.
Activate(c, t) ==
  /\ Calls(c)
  /\ thread[t].dom = "Building"
  /\ thread' = [thread EXCEPT ![t].dom = "Runnable"]
  /\ IF thread[t].state = "Held"
     THEN /\ cpu' = [cpu EXCEPT ![c].pc = "wake", ![c].arg = t,
                                ![c].sync = FALSE, ![c].ret = "flush"]
          /\ machine' = c
     ELSE /\ cpu' = [cpu EXCEPT ![c].pc = "exit"]
          /\ UNCHANGED machine

\* terminate_in up to the sweeps of stop_thread: the domain stops, and under
\* the thread's lock the wait is cleared and the thread marked dead.
Terminate(c, t) ==
  /\ At(c, "user") /\ machine = None
  /\ thread[t].dom \in {"Building", "Runnable"}
  /\ t = cpu[c].current \/ thread[cpu[c].current].dom = "Runnable"
  /\ thread' = [thread EXCEPT ![t].dom = "Stopping", ![t].stop = TRUE,
                              ![t].wait = FALSE, ![t].state = "Dead"]
  /\ cpu' = [cpu EXCEPT ![c].pc = "sweep", ![c].arg = t,
                        ![c].aim = Min(Cpus)]
  /\ machine' = c

\* stop_thread takes the thread out of one run queue after the other.
Sweep(c) ==
  LET t == cpu[c].arg
      k == cpu[c].aim
      later == {j \in Cpus : j > k}
      aimed == [cpu EXCEPT ![c].aim = IF later = {} THEN None ELSE Min(later),
                           ![c].pc = IF later = {} THEN "kick" ELSE @]
  IN
  /\ At(c, "sweep") /\ RqFree(k)
  /\ cpu' = [aimed EXCEPT ![k].queue = @ \ {t},
               ![k].hint = IF t \in cpu[k].queue /\ @ = t THEN None ELSE @]
  /\ UNCHANGED <<thread, machine>>

\* Mutant: the processors running the domain are not interrupted.
KickDomainSilent(c) ==
  /\ At(c, "kick")
  /\ cpu' = [cpu EXCEPT ![c].arg = None,
       ![c].pc = IF cpu[c].arg = cpu[c].current THEN "plan" ELSE "reap"]
  /\ machine' = None
  /\ UNCHANGED thread
\* The rest of terminate_in.  The caller of an exit or a fault leaves its own
\* thread; DOMAIN_TERMINATE goes on to reclaim.
KickDomain(c) ==
  LET t == cpu[c].arg
      own == t = cpu[c].current
  IN
  /\ At(c, "kick")
  /\ cpu' = [k \in Cpus |->
       CASE k = c -> [cpu[k] EXCEPT !.pc = IF own THEN "plan" ELSE "reap",
                                    !.arg = None]
         [] k # c /\ cpu[k].current = t -> [cpu[k] EXCEPT !.resched = TRUE,
                                                          !.ipi = TRUE]
         [] OTHER -> cpu[k]]
  /\ machine' = None
  /\ UNCHANGED thread

\* A thread of a stopped domain that exits or faults leaves (terminate_in
\* refuses, or the fault finds the stop mark).
LeaveStopped(c) ==
  LET t == cpu[c].current IN
  /\ At(c, "user") /\ machine = None
  /\ thread[t].dom \notin {"Building", "Runnable"}
  /\ thread' = [thread EXCEPT ![t].state = "Dead"]
  /\ cpu' = [cpu EXCEPT ![c].pc = "plan"]
  /\ UNCHANGED machine

reapable(t) == thread[t].dom = "Stopping" /\ ~standing_on(t)

\* reap_dead, one domain: its thread's slot is reset.
Reap(c, t) ==
  /\ At(c, "reap") /\ machine = None
  /\ reapable(t)
  /\ thread' = [thread EXCEPT ![t] = ThreadCell("Dead")]
  /\ UNCHANGED <<cpu, machine>>

Reaped(c) ==
  /\ At(c, "reap") /\ machine = None
  /\ \A t \in Threads : ~reapable(t)
  /\ cpu' = [cpu EXCEPT ![c].pc = IF cpu[c].current = Idle
                                  THEN "expire" ELSE "exit"]
  /\ UNCHANGED <<thread, machine>>

(******************************* the idle loop *****************************)

\* poll_before_halt: a throttled processor does not poll.
Poll(c) ==
  /\ At(c, "idle")
  /\ cpu' = IF cpu[c].throttled
            THEN [cpu EXCEPT ![c].pc = "halt"]
            ELSE [cpu EXCEPT ![c].pc = "poll", ![c].idle = "polling"]
  /\ UNCHANGED <<thread, machine>>

\* stealable: a busy processor with a thread queued behind the hand-off.
Stealable(c) ==
  \E k \in Cpus \ {c} :
    \/ cpu[k].hint # None
    \/ cpu[k].idle = "running"
         /\ Cardinality(cpu[k].queue) > (IF cpu[k].hint = None THEN 0 ELSE 1)

\* The poll ends, with work found or with its time over.
Polled(c) ==
  /\ At(c, "poll")
  /\ cpu' = [cpu EXCEPT ![c].idle = "running",
               ![c].pc = IF has_local_work(c) THEN "turn" ELSE "polled"]
  /\ has_local_work(c) \/ Stealable(c)
  /\ UNCHANGED <<thread, machine>>

PolledOut(c) ==
  /\ At(c, "poll")
  /\ cpu' = [cpu EXCEPT ![c].idle = "running", ![c].pc = "halt"]
  /\ UNCHANGED <<thread, machine>>

\* Mutant: the stolen thread stays in the queue it was stolen from.
StealAgedSyncShared(c, k) ==
  LET t == cpu[k].hint IN
  /\ At(c, "polled") /\ k # c /\ RqFree(k)
  /\ t # None /\ t \in cpu[k].queue /\ Eligible(t)
  /\ cpu' = [cpu EXCEPT ![k].hint = None, ![c].arg = t, ![c].pc = "stolen"]
  /\ UNCHANGED <<thread, machine>>
\* steal_aged_sync, up to the drop of the other's run queue.
StealAgedSync(c, k) ==
  LET t == cpu[k].hint IN
  /\ At(c, "polled") /\ k # c /\ RqFree(k)
  /\ t # None /\ t \in cpu[k].queue /\ Eligible(t)
  /\ cpu' = [cpu EXCEPT ![k].queue = @ \ {t}, ![k].hint = None,
                        ![c].arg = t, ![c].pc = "stolen"]
  /\ UNCHANGED <<thread, machine>>

Stolen(c) ==
  /\ At(c, "stolen")
  /\ cpu' = [cpu EXCEPT ![c].queue = @ \cup {cpu[c].arg}, ![c].arg = None,
                        ![c].pc = "turn"]
  /\ UNCHANGED <<thread, machine>>

\* steal_work: under both run queues.
StealWork(c, k, t) ==
  /\ At(c, "polled") /\ k \notin IdleMask \cup {c} /\ RqFree(k)
  /\ t \in cpu[k].queue \ {cpu[k].hint} /\ Parked(t)
  /\ cpu' = [cpu EXCEPT ![k].queue = @ \ {t}, ![c].queue = @ \cup {t},
                        ![c].pc = "turn"]
  /\ UNCHANGED <<thread, machine>>

StealNothing(c) ==
  /\ At(c, "polled")
  /\ cpu' = [cpu EXCEPT ![c].pc = "turn"]
  /\ UNCHANGED <<thread, machine>>

\* halt: the mark, the look after the fence, the halt, the end of it.
Halt(c) ==
  /\ At(c, "halt")
  /\ cpu' = [cpu EXCEPT ![c].idle = "halted", ![c].pc = "check"]
  /\ UNCHANGED <<thread, machine>>

HaltCheck(c) ==
  /\ At(c, "check")
  /\ cpu' = [cpu EXCEPT ![c].pc = IF cpu[c].throttled \/ ~has_local_work(c)
                                  THEN "asleep" ELSE "tail"]
  /\ UNCHANGED <<thread, machine>>

HaltTail(c) ==
  /\ At(c, "tail")
  /\ cpu' = [cpu EXCEPT ![c].idle = "running", ![c].pc = "turn"]
  /\ UNCHANGED <<thread, machine>>

(***************************************************************************)

\* What a processor does on its own once it is in the kernel.
Kernel(c) ==
  \/ FlushWakes(c) \/ Wake(c) \/ Look(c)
  \/ Pick(c) \/ Claim(c) \/ FinishSwitch(c) \/ Publish(c) \/ Release(c)
  \/ ExitToPlan(c) \/ ExitToThread(c)
  \/ DelegateAgedSync(c) \/ Delegated(c) \/ DelegateKick(c) \/ LeaveIfDead(c)
  \/ \E t \in Threads : ExpireWait(c, t)
  \/ Expired(c)
  \/ Sweep(c) \/ KickDomain(c) \/ Reaped(c)
  \/ \E t \in Threads : Reap(c, t)
  \/ Poll(c) \/ Polled(c) \/ PolledOut(c)
  \/ \E k \in Cpus : StealAgedSync(c, k)
  \/ Stolen(c)
  \/ \E k \in Cpus, t \in Threads : StealWork(c, k, t)
  \/ StealNothing(c)
  \/ Halt(c) \/ HaltCheck(c) \/ HaltTail(c)

\* What the running program asks for.
User(c) ==
  /\ At(c, "user") /\ machine = None
  /\ \/ \E blocks, sync \in BOOLEAN, u \in Threads \cup {None} :
            Operate(c, blocks, u, sync)
     \/ \E t \in Threads : CancelWait(c, t) \/ Create(c, t) \/ Activate(c, t)
                             \/ Terminate(c, t)
     \/ LeaveStopped(c)

Next == \E c \in Cpus : Kernel(c) \/ User(c) \/ Tick(c) \/ OnReschedule(c)

Spec == Init /\ [][Next]_vars

(******************************** properties *******************************)

\* c runs t, is leaving it, or has yet to publish that it left.
Holds(c, t) ==
  \/ t \in {cpu[c].current, cpu[c].previous}
  \/ cpu[c].pc \in {"publish", "release"} /\ cpu[c].arg = t

\* eligible and plan: no two processors run a thread, or run and leave it, at the
\* same time, whatever wakes, steals, hand-offs, preemptions and stops cross.
OneRunner ==
  \A t \in Threads : \A c, d \in Cpus : Holds(c, t) /\ Holds(d, t) => c = d

\* The processors that have t queued, or in hand between two queues.
Hands(t) ==
  {c \in Cpus : t \in cpu[c].queue}
    \cup {c \in Cpus : cpu[c].pc \in {"moving", "stolen", "claim"}
                         /\ cpu[c].arg = t}

\* wake, plan, delegate_aged_sync, steal_work, steal_aged_sync: a ready thread of
\* a runnable domain is in exactly one run queue, or on its way into one: it is
\* neither lost nor queued twice.
QueuedOnce ==
  \A t \in Threads :
    /\ \A c, d \in Hands(t) : c = d
    /\ thread[t].state = "Ready" /\ thread[t].dom = "Runnable" => Hands(t) # {}

\* wake and halt: a processor halts with a thread in its queue only when it is
\* throttled, or when the interrupt that ends the halt is on its way.
NoSleep ==
  \A c \in Cpus : At(c, "asleep") /\ cpu[c].queue # {} =>
    \/ cpu[c].throttled \/ cpu[c].ipi
    \/ \E d \in Cpus : cpu[d].pc \in {"look", "moved"} /\ cpu[d].aim = c

\* stop_thread, kick_domain, leave_if_dead: a thread that was stopped executes
\* user code only until the interrupt its termination sends arrives, also one
\* that was being dispatched, for the first time, while it was stopped.
StopReaches ==
  \A c \in Cpus : At(c, "user") /\ thread[cpu[c].current].stop =>
    \/ cpu[c].ipi
    \/ \E d \in Cpus \ {c} : cpu[d].pc \in {"sweep", "kick"}
                             /\ cpu[d].arg = cpu[c].current

(**************************** inductive invariant **************************)

DomainStates == {"Empty", "Building", "Runnable", "Stopping", "Dead"}
ThreadStates == {"Empty", "Held", "Ready", "Running", "Blocked", "Dead"}

\* What a processor does with its thread, and without one.
Threaded == {"user", "leave", "exit", "ticked", "sweep", "kick", "moving", "moved"}
Threadless == {"turn", "idle", "poll", "polled", "stolen", "halt", "check", "asleep",
               "tail"}
Pcs == Threaded \cup Threadless
         \cup {"flush", "wake", "look", "plan", "claim", "switch", "publish",
               "release", "expire", "reap"}

ThreadType == [dom : DomainStates, state : ThreadStates, on : Cpus \cup {None},
               stop : BOOLEAN, wait : BOOLEAN, resume : {"user", "exit", "leave"}]

CpuType == [queue : SUBSET Threads, hint : Threads \cup {None},
            current : Threads \cup {Idle}, previous : Threads \cup {Idle, None},
            resched : BOOLEAN, throttled : BOOLEAN,
            idle : {"running", "polling", "halted"}, ipi : BOOLEAN,
            deferred : Seq(Threads \X BOOLEAN), pc : Pcs,
            arg : Threads \cup {Idle, None}, sync : BOOLEAN, aim : Cpus \cup {None},
            ret : {"flush", "expire"}, rest : {"turn", "poll", "tail"}]

\* Every field of the two tables holds a value of its type.
TypeOK ==
  /\ thread \in [Threads -> ThreadType]
  /\ cpu \in [Cpus -> CpuType]
  /\ machine \in Cpus \cup {None}

\* What the registers of processor c hold at each of its steps.
Registers(c) ==
  /\ cpu[c].pc \in Threaded => cpu[c].current \in Threads
  /\ cpu[c].pc \in Threadless => cpu[c].current = Idle
  /\ cpu[c].pc \in {"wake", "moving", "stolen", "sweep", "kick", "publish", "release"}
       => cpu[c].arg \in Threads
  /\ cpu[c].pc = "claim" => cpu[c].arg # None
  /\ cpu[c].pc \in {"claim", "publish", "release"} => cpu[c].arg # cpu[c].current
  /\ cpu[c].pc \in {"look", "moving", "moved", "sweep"} => cpu[c].aim \in Cpus
  /\ IF cpu[c].pc = "switch"
     THEN cpu[c].arg = None /\ cpu[c].previous \notin {None, cpu[c].current}
     ELSE cpu[c].previous = None
  /\ cpu[c].pc \in {"check", "asleep"} => cpu[c].idle = "halted"

Shape == \A c \in Cpus : Registers(c)

\* A slot nobody was given is nowhere; a thread that waits belongs to a domain
\* that is not stopping; only a domain that is stopping was told to stop.
Belongs(t) ==
  /\ thread[t].state \in {"Blocked", "Held"} =>
       thread[t].dom \in {"Building", "Runnable"}
  /\ thread[t].stop => thread[t].dom = "Stopping"
  /\ thread[t].dom = "Empty" => thread[t].state = "Empty" /\ Hands(t) = {}

\* One thread at a time is being stopped, by the holder of the machine.
Terminates(c) ==
  cpu[c].pc \in {"sweep", "kick"} => machine = c /\ thread[cpu[c].arg].stop

Life == (\A t \in Threads : Belongs(t)) /\ (\A c \in Cpus : Terminates(c))

\* c is about to make t its thread.
Claims(c, t) == cpu[c].pc = "claim" /\ cpu[c].arg = t

Takes(c, t) == Holds(c, t) \/ Claims(c, t)

\* A thread is held or claimed by one processor, whose mark it carries from the
\* claim to the release unless its slot was reset meanwhile.
Marked(t) ==
  /\ \A c, d \in Cpus : Takes(c, t) /\ Takes(d, t) => c = d
  /\ \A c \in Cpus : Holds(c, t) => thread[t].on = c \/ thread[t].dom = "Dead"
  /\ thread[t].dom = "Empty" => \A c \in Cpus : ~Holds(c, t)

Held == \A t \in Threads : Marked(t)

\* c has t in hand, in no queue.
InHand(c, t) == cpu[c].pc \in {"moving", "stolen", "claim"} /\ cpu[c].arg = t

\* c is leaving t, which could go on running.
Preempts(c, t) ==
  \/ cpu[c].previous = t /\ thread[t].state = "Running"
  \/ cpu[c].pc = "publish" /\ cpu[c].arg = t

\* A thread is in one queue or one hand, in none while it runs or waits, and in
\* the queue of the processor that is leaving it when it could go on running.
Place(t) ==
  /\ \A c, d \in Hands(t) : c = d
  /\ \A c \in Cpus : InHand(c, t) => t \notin cpu[c].queue
  /\ thread[t].state \in {"Blocked", "Held"} => Hands(t) = {}
  /\ \A c \in Cpus : cpu[c].current = t => Hands(t) = {}
  /\ thread[t].dom \in {"Building", "Runnable"} =>
       /\ thread[t].state = "Ready" => Hands(t) # {}
       /\ \A c \in Cpus : Preempts(c, t) => t \in cpu[c].queue

Placed == \A t \in Threads : Place(t)

\* A thread that was told to stop before it ever ran.
Unstarted(t) == thread[t].stop /\ thread[t].resume = "user"

\* d is stopping t and has still to send its interrupts.
Stopping(d, t) == cpu[d].pc \in {"sweep", "kick"} /\ cpu[d].arg = t

\* Where an unstarted thread is being dispatched all the same, its termination
\* still has that processor ahead of it; and a thread that is on a processor
\* longer than its dispatch has run.
Reaches(c, t) ==
  /\ Claims(c, t) /\ Unstarted(t) =>
       \E d \in Cpus \ {c} : cpu[d].pc = "sweep" /\ cpu[d].arg = t /\ cpu[d].aim <= c
  /\ cpu[c].current = t /\ Unstarted(t) =>
       cpu[c].ipi \/ \E d \in Cpus \ {c} : Stopping(d, t)
  /\ \/ cpu[c].current = t /\ cpu[c].pc \notin {"switch", "publish", "release"}
     \/ Holds(c, t) /\ cpu[c].current # t
     => thread[t].resume # "user" \/ thread[t].dom = "Dead"

Stops ==
  /\ \A t \in Threads : Unstarted(t) => thread[t].state # "Ready"
  /\ \A c \in Cpus : \A t \in Threads : Reaches(c, t)
  /\ StopReaches

IInv == TypeOK /\ Shape /\ Life /\ Held /\ Placed /\ Stops

=============================================================================
