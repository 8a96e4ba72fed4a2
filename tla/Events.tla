-------------------------------- MODULE Events --------------------------------
(***************************************************************************)
(* Signals and timers (events.rs, api/evtops.rs).  Every operation is a     *)
(* step under the exclusive hold of the machine, except that a wait drops   *)
(* it to sleep and takes it again to leave the count of waiters.  The tick  *)
(* compares the earliest deadline without the hold.                         *)
(***************************************************************************)
EXTENDS Integers, FiniteSets

CONSTANTS Threads,
          Bits,
          Signals, Timers,  \* slots of the two tables
          MaxTime,          \* bound on the clock
          MaxGeneration,    \* bound on the occupants of a signal's slot
          MaxWaiters,       \* bound on the count of waiters, the dead included
          Recycled          \* whether a slot is reused under an old waiter

VARIABLES signals, timers,
          thread,           \* where each thread is in wait, and on what
          now, NEXT_TIMER,
          due               \* the tick saw a deadline and has not taken the hold

events_vars == <<signals, timers, thread, now, NEXT_TIMER, due>>

Never == MaxTime + 1
Out == [at |-> "out"]
FreeTimer == [used |-> FALSE, armed |-> FALSE]

EventsInit == /\ signals = [s \in Signals |-> [used |-> FALSE, generation |-> 0, bits |-> {}, waiters |-> 0]]
              /\ timers = [t \in Timers |-> FreeTimer]
              /\ thread = [t \in Threads |-> Out]
              /\ now = 0 /\ NEXT_TIMER = Never /\ due = FALSE

\* Threads that slept on an earlier occupant and have not left its count.
Behind(s) == {t \in Threads : /\ thread[t].at \in {"asleep", "woken", "refused"}
                              /\ thread[t].signal = s}

create_signal(s) ==
    /\ ~signals[s].used /\ signals[s].generation < MaxGeneration
    /\ Recycled \/ Behind(s) = {}
    /\ signals' = [signals EXCEPT ![s] = [used |-> TRUE, generation |-> @.generation + 1,
                                          bits |-> {}, waiters |-> 0]]
    /\ UNCHANGED <<timers, thread, now, NEXT_TIMER, due>>

\* release_sponsored: the signals and timers of a retired scope.
retire(s) == /\ signals[s].used
             /\ signals' = [signals EXCEPT ![s] = [@ EXCEPT !.used = FALSE, !.bits = {}, !.waiters = 0]]
             /\ UNCHANGED <<timers, thread, now, NEXT_TIMER, due>>

retireTimer(i) == /\ timers[i].used
                  /\ timers' = [timers EXCEPT ![i] = FreeTimer]
                  /\ UNCHANGED <<signals, thread, now, NEXT_TIMER, due>>

create_timer(i, s, b) ==
    /\ ~timers[i].used /\ signals[s].used
    /\ timers' = [timers EXCEPT ![i] = [used |-> TRUE, armed |-> FALSE, deadline |-> 0, bits |-> {b},
                                        signal |-> s, generation |-> signals[s].generation]]
    /\ UNCHANGED <<signals, thread, now, NEXT_TIMER, due>>

\* -------------------------------------------------------------------------
\* raise_bits, on every signal of ss at once with the bits bs[s].

\* Mutant: a waiter is woken only if every bit it waits for was raised.
HearsAll(t, s, b) == /\ thread[t].at = "asleep" /\ thread[t].signal = s
                     /\ thread[t].generation = signals[s].generation
                     /\ thread[t].mask \subseteq b

Hears(t, s, b) == /\ thread[t].at = "asleep" /\ thread[t].signal = s
                  /\ thread[t].generation = signals[s].generation
                  /\ thread[t].mask \cap b # {}

Raised(b) == [s \in Signals |-> IF signals[s].used THEN [signals[s] EXCEPT !.bits = @ \cup b[s]]
                                ELSE signals[s]]
Woken(b) == [t \in Threads |->
    IF \E s \in Signals : signals[s].used /\ b[s] # {} /\ signals[s].waiters > 0 /\ Hears(t, s, b[s])
    THEN [thread[t] EXCEPT !.at = "woken"] ELSE thread[t]]

raise(s, b) == /\ signals[s].used
               /\ LET bs == [x \in Signals |-> IF x = s THEN {b} ELSE {}] IN
                  signals' = Raised(bs) /\ thread' = Woken(bs)
               /\ UNCHANGED <<timers, now, NEXT_TIMER, due>>

\* -------------------------------------------------------------------------
\* wait: consume what is there, or register and sleep, in one hold.

wait(t, s, m) ==
    /\ thread[t].at = "out" \/ (thread[t].at = "again" /\ thread[t].signal = s /\ thread[t].mask = m)
    /\ signals[s].used /\ signals[s].waiters < MaxWaiters
    /\ IF signals[s].bits \cap m # {}
       THEN /\ signals' = [signals EXCEPT ![s].bits = @ \ m]
            /\ thread' = [thread EXCEPT ![t] = Out]
       ELSE /\ signals' = [signals EXCEPT ![s].waiters = @ + 1]
            /\ thread' = [thread EXCEPT ![t] = [at |-> "asleep", signal |-> s, mask |-> m,
                                                generation |-> signals[s].generation]]
    /\ UNCHANGED <<timers, now, NEXT_TIMER, due>>

\* The deadline passed or the wait was cancelled: the answer is an error.
expire_wait(t) == /\ thread[t].at = "asleep"
                  /\ thread' = [thread EXCEPT ![t].at = "refused"]
                  /\ UNCHANGED <<signals, timers, now, NEXT_TIMER, due>>

Minus(n) == IF n > 0 THEN n - 1 ELSE 0

\* The count is left, whoever holds the slot now.
waitReturns(t) ==
    /\ thread[t].at \in {"woken", "refused"}
    /\ LET s == thread[t].signal IN
       signals' = IF signals[s].used THEN [signals EXCEPT ![s].waiters = Minus(@)] ELSE signals
    /\ thread' = [thread EXCEPT ![t] = IF @.at = "woken" THEN [@ EXCEPT !.at = "again"] ELSE Out]
    /\ UNCHANGED <<timers, now, NEXT_TIMER, due>>

\* The handle no longer resolves when the loop comes round.
waitFails(t) == /\ thread[t].at = "again"
                /\ thread' = [thread EXCEPT ![t] = Out]
                /\ UNCHANGED <<signals, timers, now, NEXT_TIMER, due>>

\* The thread's domain dies in its sleep: nothing leaves the count.
dies(t) == /\ thread[t].at \in {"asleep", "woken", "refused"}
           /\ thread' = [thread EXCEPT ![t] = Out]
           /\ UNCHANGED <<signals, timers, now, NEXT_TIMER, due>>

\* -------------------------------------------------------------------------
\* Timers.

Armed(ts) == {ts[i].deadline : i \in {j \in Timers : ts[j].used /\ ts[j].armed}}
recompute_next(ts) == IF Armed(ts) = {} THEN Never
                      ELSE CHOOSE d \in Armed(ts) : \A e \in Armed(ts) : d <= e

\* Mutant: the deadline just armed is stored as the earliest.
SoonestLast(d) == d

Soonest(d) == IF d < NEXT_TIMER THEN d ELSE NEXT_TIMER

arm(i, d) == /\ timers[i].used
             /\ timers' = [timers EXCEPT ![i].deadline = d, ![i].armed = TRUE]
             /\ NEXT_TIMER' = Soonest(d)
             /\ UNCHANGED <<signals, thread, now, due>>

cancel(i) == /\ timers[i].used
             /\ timers' = [timers EXCEPT ![i].armed = FALSE, ![i].deadline = 0]
             /\ NEXT_TIMER' = recompute_next(timers')
             /\ UNCHANGED <<signals, thread, now, due>>

\* The clock, and the tick that looks without the hold.
Tick == /\ now < MaxTime
        /\ now' = now + 1
        /\ due' = (due \/ NEXT_TIMER <= now')
        /\ UNCHANGED <<signals, timers, thread, NEXT_TIMER>>

Fires == {i \in Timers : timers[i].used /\ timers[i].armed /\ timers[i].deadline <= now}

expire == /\ due
          /\ due' = FALSE
          /\ timers' = [i \in Timers |-> IF i \in Fires THEN [timers[i] EXCEPT !.armed = FALSE]
                                         ELSE timers[i]]
          /\ LET bs == [s \in Signals |-> UNION {timers[i].bits : i \in
                          {j \in Fires : timers[j].signal = s
                                         /\ timers[j].generation = signals[s].generation}}]
             IN  signals' = Raised(bs) /\ thread' = Woken(bs)
          /\ NEXT_TIMER' = recompute_next(timers')
          /\ UNCHANGED now

EventsNext == \/ \E s \in Signals : create_signal(s) \/ retire(s)
              \/ \E s \in Signals, b \in Bits : raise(s, b) \/ \E i \in Timers : create_timer(i, s, b)
              \/ \E t \in Threads, s \in Signals, m \in SUBSET Bits \ {{}} : wait(t, s, m)
              \/ \E t \in Threads : expire_wait(t) \/ waitReturns(t) \/ waitFails(t) \/ dies(t)
              \/ \E i \in Timers : retireTimer(i) \/ cancel(i) \/ \E d \in 1 .. MaxTime : arm(i, d)
              \/ Tick \/ expire

EventsSpec == EventsInit /\ [][EventsNext]_events_vars

\* A thread never sleeps on a bit that is raised: whatever waits were
\* cancelled, timed out or abandoned by a death before, a raise that finds the
\* count of waiters at zero leaves no one behind.
SignalHeard == \A t \in Threads : thread[t].at = "asleep" =>
    LET g == signals[thread[t].signal] IN
    g.used /\ g.generation = thread[t].generation => g.bits \cap thread[t].mask = {}

\* The deadline the tick compares is never later than an armed timer's, so a
\* timer that is due is always noticed.
TimerNoticed == \A i \in Timers : timers[i].used /\ timers[i].armed => NEXT_TIMER <= timers[i].deadline
=============================================================================
