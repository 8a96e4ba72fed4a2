---------------------------- MODULE DispatchSteps ----------------------------
(***************************************************************************)
(* Facts the proofs about Dispatch rest on: what the records of its two    *)
(* tables keep when a field is written, what a step that moves nothing, a  *)
(* step that carries a thread between queues and a step that ends a switch *)
(* do to the inductive invariant, and when a halted processor stays told.  *)
(* Then the steps that follow from them: the waits, the exits, the idle    *)
(* loop, the creation and the reaping of a thread, the wake, the choice of *)
(* the next thread and the hand-offs.  Each keeps the types, the           *)
(* registers, the rule for halted processors and the invariant.            *)
(***************************************************************************)
EXTENDS Dispatch, WellFoundedInduction, TLAPS

\* A non-empty set of numbers has a least member.
LEMMA LeastNat ==
  ASSUME NEW S \in SUBSET Nat, S # {}
  PROVE  \E x \in S : \A y \in S : x <= y
<1> DEFINE R == OpToRel(<, Nat)
<1>1. \E x \in S : \A y \in S : ~(<<y, x>> \in R)
  <2>1. IsWellFoundedOn(R, Nat) BY NatLessThanWellFounded
  <2>2. S \subseteq Nat OBVIOUS
  <2> HIDE DEF R
  <2> QED BY <2>1, <2>2, WFMin, Zenon
<1>2. PICK x \in S : \A y \in S : ~(<<y, x>> \in OpToRel(<, Nat)) BY <1>1
<1>3. SUFFICES ASSUME NEW y \in S PROVE x <= y OBVIOUS
<1>4. ~(<<y, x>> \in OpToRel(<, Nat)) BY <1>2
<1>5. ~(y < x) BY <1>4 DEF OpToRel
<1> QED BY <1>5

\* The scan of every processor that stop_thread and kick_domain make has a first
\* processor to go to, and it skips none.
LEMMA Least ==
  ASSUME NEW S \in SUBSET Cpus, S # {}
  PROVE  Min(S) \in S /\ \A y \in S : Min(S) <= y
<1>1. S \in SUBSET Nat BY DispatchAssumption
<1>4. \E x \in S : \A y \in S : x <= y BY <1>1, LeastNat
<1> QED BY <1>4 DEF Min

\* A processor's record stays one when its field queue is written.
LEMMA SetQueue ==
  \A r \in CpuType : \A x \in SUBSET Threads : [r EXCEPT !.queue = x] \in CpuType
  BY DEF CpuType

\* A processor's record stays one when its field hint is written.
LEMMA SetHint ==
  \A r \in CpuType : \A x \in Threads \cup {None} : [r EXCEPT !.hint = x] \in CpuType
  BY DEF CpuType

\* A processor's record stays one when its field current is written.
LEMMA SetCurrent ==
  \A r \in CpuType : \A x \in Threads \cup {Idle} : [r EXCEPT !.current = x] \in CpuType
  BY DEF CpuType

\* A processor's record stays one when its field previous is written.
LEMMA SetPrevious ==
  \A r \in CpuType : \A x \in Threads \cup {Idle, None} : [r EXCEPT !.previous = x] \in CpuType
  BY SMTT(30) DEF CpuType

\* A processor's record stays one when its field resched is written.
LEMMA SetResched ==
  \A r \in CpuType : \A x \in BOOLEAN : [r EXCEPT !.resched = x] \in CpuType
  BY DEF CpuType

\* A processor's record stays one when its field throttled is written.
LEMMA SetThrottled ==
  \A r \in CpuType : \A x \in BOOLEAN : [r EXCEPT !.throttled = x] \in CpuType
  BY DEF CpuType

\* A processor's record stays one when its field idle is written.
LEMMA SetIdle ==
  \A r \in CpuType : \A x \in {"running", "polling", "halted"} : [r EXCEPT !.idle = x] \in CpuType
  BY DEF CpuType

\* A processor's record stays one when its field ipi is written.
LEMMA SetIpi ==
  \A r \in CpuType : \A x \in BOOLEAN : [r EXCEPT !.ipi = x] \in CpuType
  BY DEF CpuType

\* A processor's record stays one when its field deferred is written.
LEMMA SetDeferred ==
  \A r \in CpuType : \A x \in Seq(Threads \X BOOLEAN) : [r EXCEPT !.deferred = x] \in CpuType
<1>1. SUFFICES ASSUME NEW r \in CpuType, NEW x \in Seq(Threads \X BOOLEAN)
               PROVE  [r EXCEPT !.deferred = x] \in CpuType
  OBVIOUS
<1> QED BY Zenon DEF CpuType

\* A processor's record stays one when its field pc is written.
LEMMA SetPc ==
  \A r \in CpuType : \A x \in Pcs : [r EXCEPT !.pc = x] \in CpuType
  BY DEF CpuType

\* A processor's record stays one when its field arg is written.
LEMMA SetArg ==
  \A r \in CpuType : \A x \in Threads \cup {Idle, None} : [r EXCEPT !.arg = x] \in CpuType
  BY DEF CpuType

\* A processor's record stays one when its field sync is written.
LEMMA SetSync ==
  \A r \in CpuType : \A x \in BOOLEAN : [r EXCEPT !.sync = x] \in CpuType
  BY DEF CpuType

\* A processor's record stays one when its field aim is written.
LEMMA SetAim ==
  \A r \in CpuType : \A x \in Cpus \cup {None} : [r EXCEPT !.aim = x] \in CpuType
  BY DEF CpuType

\* A processor's record stays one when its field ret is written.
LEMMA SetRet ==
  \A r \in CpuType : \A x \in {"flush", "expire"} : [r EXCEPT !.ret = x] \in CpuType
  BY DEF CpuType

\* A processor's record stays one when its field rest is written.
LEMMA SetRest ==
  \A r \in CpuType : \A x \in {"turn", "poll", "tail"} : [r EXCEPT !.rest = x] \in CpuType
  BY DEF CpuType

\* What each field of a processor's record holds.
LEMMA CpuFields ==
  ASSUME NEW r \in CpuType
  PROVE /\ r.queue \in SUBSET Threads
        /\ r.hint \in Threads \cup {None}
        /\ r.current \in Threads \cup {Idle}
        /\ r.previous \in Threads \cup {Idle, None}
        /\ r.resched \in BOOLEAN
        /\ r.throttled \in BOOLEAN
        /\ r.idle \in {"running", "polling", "halted"}
        /\ r.ipi \in BOOLEAN
        /\ r.deferred \in Seq(Threads \X BOOLEAN)
        /\ r.pc \in Pcs
        /\ r.arg \in Threads \cup {Idle, None}
        /\ r.sync \in BOOLEAN
        /\ r.aim \in Cpus \cup {None}
        /\ r.ret \in {"flush", "expire"}
        /\ r.rest \in {"turn", "poll", "tail"}
  BY DEF CpuType

\* A thread's record stays one when its field dom is written.
LEMMA SetDom ==
  \A r \in ThreadType : \A x \in DomainStates : [r EXCEPT !.dom = x] \in ThreadType
  BY DEF ThreadType

\* A thread's record stays one when its field state is written.
LEMMA SetState ==
  \A r \in ThreadType : \A x \in ThreadStates : [r EXCEPT !.state = x] \in ThreadType
  BY DEF ThreadType

\* A thread's record stays one when its field on is written.
LEMMA SetOn ==
  \A r \in ThreadType : \A x \in Cpus \cup {None} : [r EXCEPT !.on = x] \in ThreadType
  BY DEF ThreadType

\* A thread's record stays one when its field stop is written.
LEMMA SetStop ==
  \A r \in ThreadType : \A x \in BOOLEAN : [r EXCEPT !.stop = x] \in ThreadType
  BY DEF ThreadType

\* A thread's record stays one when its field wait is written.
LEMMA SetWait ==
  \A r \in ThreadType : \A x \in BOOLEAN : [r EXCEPT !.wait = x] \in ThreadType
  BY DEF ThreadType

\* A thread's record stays one when its field resume is written.
LEMMA SetResume ==
  \A r \in ThreadType : \A x \in {"user", "exit", "leave"} : [r EXCEPT !.resume = x] \in ThreadType
  BY DEF ThreadType

\* What each field of a thread's record holds.
LEMMA ThreadFields ==
  ASSUME NEW r \in ThreadType
  PROVE /\ r.dom \in DomainStates
        /\ r.state \in ThreadStates
        /\ r.on \in Cpus \cup {None}
        /\ r.stop \in BOOLEAN
        /\ r.wait \in BOOLEAN
        /\ r.resume \in {"user", "exit", "leave"}
  BY DEF ThreadType

\* The steps a processor can be at.
LEMMA Names ==
  /\ "user" \in Pcs /\ "leave" \in Pcs /\ "exit" \in Pcs /\ "ticked" \in Pcs /\ "sweep" \in Pcs /\ "kick" \in Pcs /\ "moving" \in Pcs /\ "moved" \in Pcs /\ "turn" \in Pcs /\ "idle" \in Pcs /\ "poll" \in Pcs /\ "polled" \in Pcs /\ "stolen" \in Pcs /\ "halt" \in Pcs /\ "check" \in Pcs /\ "asleep" \in Pcs /\ "tail" \in Pcs /\ "flush" \in Pcs /\ "wake" \in Pcs /\ "look" \in Pcs /\ "plan" \in Pcs /\ "claim" \in Pcs /\ "switch" \in Pcs /\ "publish" \in Pcs /\ "release" \in Pcs /\ "expire" \in Pcs /\ "reap" \in Pcs
  BY DEF Pcs, Threaded, Threadless

\* The states of a thread and of a domain.
LEMMA StateNames ==
  /\ "Empty" \in ThreadStates /\ "Held" \in ThreadStates /\ "Ready" \in ThreadStates /\ "Running" \in ThreadStates /\ "Blocked" \in ThreadStates /\ "Dead" \in ThreadStates
  /\ "Empty" \in DomainStates /\ "Building" \in DomainStates /\ "Runnable" \in DomainStates /\ "Stopping" \in DomainStates /\ "Dead" \in DomainStates
  BY DEF ThreadStates, DomainStates

\* A thread slot that create_thread or the reaper resets is a thread's record.
LEMMA Cells ==
  \A d \in DomainStates : /\ ThreadCell(d) \in ThreadType
                          /\ \A s \in ThreadStates : [ThreadCell(d) EXCEPT !.state = s] \in ThreadType
<1>1. \A d \in DomainStates : ThreadCell(d) \in ThreadType
  BY StateNames DEF ThreadCell, ThreadType
<1> QED BY <1>1, SetState

\* wake leaves a processor's record when it returns, with its queue, hint and
\* reschedule flag written or not.
LEMMA Returned ==
  ASSUME TypeOK, NEW c \in Cpus
  PROVE  /\ WakeReturned(c) \in CpuType
         /\ \A q \in SUBSET Threads, h \in Threads \cup {None}, b \in BOOLEAN :
              [WakeReturned(c) EXCEPT !.queue = q, !.hint = h, !.resched = b] \in CpuType
         /\ Unlocked(c) \in Cpus \cup {None}
<1>1. cpu[c] \in CpuType BY DEF TypeOK
<1>2. cpu[c].ret \in Pcs BY <1>1, CpuFields, Names
<1>3. WakeReturned(c) \in CpuType BY <1>1, <1>2, SetPc, SetRet, SetArg, SetAim, SetSync, Zenon DEF WakeReturned
<1>4. \A q \in SUBSET Threads, h \in Threads \cup {None}, b \in BOOLEAN :
              [WakeReturned(c) EXCEPT !.queue = q, !.hint = h, !.resched = b] \in CpuType
  BY <1>3, SetQueue, SetHint, SetResched, Zenon
<1> QED BY <1>3, <1>4, Zenon DEF Unlocked, TypeOK

(***************************** other processors ****************************)

\* A step that leaves what the registers of the other processors hold keeps Shape
\* when it keeps its own: most steps write one processor's record, stop_thread and
\* kick_domain also a queue, a hint or an interrupt of others.
LEMMA SameShape ==
  ASSUME Shape, NEW c \in Cpus, Registers(c)',
         \A k \in Cpus \ {c} :
           /\ cpu'[k].pc = cpu[k].pc /\ cpu'[k].current = cpu[k].current
           /\ cpu'[k].previous = cpu[k].previous /\ cpu'[k].arg = cpu[k].arg
           /\ cpu'[k].aim = cpu[k].aim /\ cpu'[k].idle = cpu[k].idle
  PROVE  Shape'
<1>1. ASSUME NEW k \in Cpus, k # c PROVE Registers(k)'
  <2>1. Registers(k) BY DEF Shape
  <2> QED BY <1>1, <2>1 DEF Registers
<1> QED BY <1>1 DEF Shape

\* The same, when the other records are not written at all.
LEMMA OwnShape ==
  ASSUME Shape, NEW c \in Cpus, Registers(c)', \A k \in Cpus \ {c} : cpu'[k] = cpu[k]
  PROVE  Shape'
BY SameShape

\* A step that leaves a thread where it was, and its states, keeps its place.
LEMMA PlaceKept ==
  ASSUME NEW t \in Threads, Place(t), Hands(t)' = Hands(t),
         thread'[t].dom = thread[t].dom, thread'[t].state = thread[t].state,
         \A k \in Cpus : /\ InHand(k, t)' => InHand(k, t)
                         /\ Preempts(k, t)' => Preempts(k, t)
                         /\ cpu'[k].current = t => cpu[k].current = t
                         /\ t \in cpu'[k].queue <=> t \in cpu[k].queue
  PROVE  Place(t)'
<1> USE DEF Place
<1>1. \A c, d \in Hands(t)' : c = d OBVIOUS
<1>2. \A c \in Cpus : InHand(c, t)' => t \notin cpu'[c].queue OBVIOUS
<1>3. thread'[t].state \in {"Blocked", "Held"} => Hands(t)' = {} OBVIOUS
<1>4. \A c \in Cpus : cpu'[c].current = t => Hands(t)' = {} OBVIOUS
<1>5. thread'[t].dom \in {"Building", "Runnable"} =>
        /\ thread'[t].state = "Ready" => Hands(t)' # {}
        /\ \A c \in Cpus : Preempts(c, t)' => t \in cpu'[c].queue
  OBVIOUS
<1> QED BY <1>1, <1>2, <1>3, <1>4, <1>5, Zenon

\* So does a step that ends a thread of a domain that is over, or shrinks what
\* the thread is in.
LEMMA PlaceDead ==
  ASSUME NEW t \in Threads, Place(t), thread'[t].dom \notin {"Building", "Runnable"},
         \/ thread'[t].state = thread[t].state \/ thread'[t].state = "Dead",
         \A k \in Hands(t)' : k \in Hands(t),
         \A k \in Cpus : /\ InHand(k, t)' => InHand(k, t)
                         /\ cpu'[k].current = t => cpu[k].current = t
                         /\ t \in cpu'[k].queue => t \in cpu[k].queue
  PROVE  Place(t)'
<1>1. (\A c, d \in Hands(t) : c = d)' BY Zenon DEF Place
<1>2. \A c \in Cpus : InHand(c, t)' => t \notin cpu'[c].queue BY DEF Place
<1>3. Hands(t) = {} => Hands(t)' = {} OBVIOUS
<1>4. thread'[t].state \in {"Blocked", "Held"} => Hands(t)' = {} BY <1>3 DEF Place
<1>5. \A c \in Cpus : cpu'[c].current = t => Hands(t)' = {} BY <1>3 DEF Place
<1> QED BY <1>1, <1>2, <1>4, <1>5, Zenon DEF Place

\* A step that gives a thread to no processor, and leaves its mark, keeps both.
LEMMA MarkedKept ==
  ASSUME NEW t \in Threads, Marked(t), thread'[t].on = thread[t].on,
         thread[t].dom = "Dead" => thread'[t].dom = "Dead",
         thread'[t].dom = "Empty" => thread[t].dom = "Empty",
         \A k \in Cpus : (Holds(k, t)' <=> Holds(k, t)) /\ (Claims(k, t)' <=> Claims(k, t))
  PROVE  Marked(t)'
<1>1. \A k \in Cpus : Takes(k, t)' <=> Takes(k, t) BY DEF Takes
<1> QED BY <1>1 DEF Marked

(************************* a halted processor is told ************************)

\* A step that writes its own processor's record alone, and is not the second
\* half of a hand-over, loses no wake: halt looks at the queue after its mark.
LEMMA Awake ==
  ASSUME NEW c \in Cpus, \A k \in Cpus \ {c} : cpu'[k] = cpu[k],
         cpu[c].pc \notin {"look", "moved"},
         cpu'[c].pc = "asleep" => cpu'[c].throttled \/ cpu'[c].queue = {}
  PROVE  NoSleep => NoSleep'
<1> SUFFICES ASSUME NoSleep, NEW k \in Cpus, cpu'[k].pc = "asleep", cpu'[k].queue # {}
             PROVE  \/ cpu'[k].throttled \/ cpu'[k].ipi
                    \/ \E d \in Cpus : cpu'[d].pc \in {"look", "moved"} /\ cpu'[d].aim = k
  BY DEF NoSleep, At
<1>1. CASE k = c BY <1>1
<1>2. CASE k # c
  <2>1. \/ cpu[k].throttled \/ cpu[k].ipi
        \/ \E d \in Cpus \ {c} : cpu[d].pc \in {"look", "moved"} /\ cpu[d].aim = k
    BY <1>2 DEF NoSleep, At
  <2> QED BY <2>1, <1>2
<1> QED BY <1>1, <1>2

\* wake, delegate_aged_sync and the steals: a step that puts a thread into the
\* queue of a halted processor goes on to look at that processor's mark, and the
\* look sends it the interrupt.
LEMMA Told ==
  ASSUME NEW c \in Cpus,
         \A k \in Cpus \ {c} :
           /\ cpu'[k].pc = cpu[k].pc /\ cpu'[k].aim = cpu[k].aim
           /\ cpu'[k].throttled = cpu[k].throttled
           /\ cpu[k].ipi => cpu'[k].ipi
           /\ cpu[k].pc = "asleep" =>
                \/ cpu'[k].queue \subseteq cpu[k].queue
                \/ cpu'[c].pc \in {"look", "moved"} /\ cpu'[c].aim = k
           /\ cpu[c].pc \in {"look", "moved"} /\ cpu[c].aim = k /\ cpu[k].pc = "asleep"
                => cpu'[k].ipi,
         cpu'[c].pc # "asleep"
  PROVE  NoSleep => NoSleep'
<1> SUFFICES ASSUME NoSleep, NEW k \in Cpus, cpu'[k].pc = "asleep", cpu'[k].queue # {}
             PROVE  \/ cpu'[k].throttled \/ cpu'[k].ipi
                    \/ \E d \in Cpus : cpu'[d].pc \in {"look", "moved"} /\ cpu'[d].aim = k
  BY Zenon DEF NoSleep, At
<1>1. k # c /\ cpu[k].pc = "asleep" BY Zenon
<1>2. CASE cpu'[c].pc \in {"look", "moved"} /\ cpu'[c].aim = k BY <1>2
<1>3. CASE cpu'[k].queue \subseteq cpu[k].queue
  <2>1. \/ cpu[k].throttled \/ cpu[k].ipi
        \/ \E d \in Cpus : cpu[d].pc \in {"look", "moved"} /\ cpu[d].aim = k
    BY <1>1, <1>3 DEF NoSleep, At
  <2>2. ASSUME NEW d \in Cpus, cpu[d].pc \in {"look", "moved"}, cpu[d].aim = k
        PROVE  \/ cpu'[k].ipi
               \/ cpu'[d].pc \in {"look", "moved"} /\ cpu'[d].aim = k
    BY <1>1, <2>2, Zenon
  <2> QED BY <1>1, <2>1, <2>2, Zenon
<1> QED BY <1>1, <1>2, <1>3, Zenon

(***************************** kinds of steps ******************************)

\* The steps at which a processor has a thread in hand or is stopping one.
Busy == {"claim", "switch", "publish", "release", "moving", "stolen", "sweep", "kick"}

\* A step of c that moves no thread and writes at most the records of the
\* threads of X.
Quietly(c, X) ==
  /\ \A t \in Threads \ X :
       /\ thread'[t].dom = thread[t].dom
       /\ thread'[t].state = thread[t].state
       /\ thread'[t].on = thread[t].on
       /\ thread'[t].stop = thread[t].stop
       /\ thread'[t].resume = thread[t].resume
  /\ machine' = machine \/ machine \in {None, c}
  /\ \A k \in Cpus :
       /\ cpu'[k].queue = cpu[k].queue
       /\ cpu'[k].current = cpu[k].current
       /\ cpu'[k].previous = cpu[k].previous
  /\ \A k \in Cpus \ {c} :
       /\ cpu'[k].pc = cpu[k].pc
       /\ cpu'[k].arg = cpu[k].arg
       /\ cpu'[k].aim = cpu[k].aim
       /\ cpu[k].ipi => cpu'[k].ipi
  /\ cpu[c].pc \notin Busy /\ cpu'[c].pc \notin Busy
  /\ cpu'[c].pc = "user" => cpu[c].current \in Threads \ X /\ ~thread[cpu[c].current].stop

\* What such a step has to establish of a thread whose record it wrote.
Settles(t) ==
  /\ Belongs(t)' /\ Marked(t)' /\ Place(t)'
  /\ thread[t].stop => thread'[t].stop \/ machine = None
  /\ ~thread'[t].stop \/ \A k \in Cpus : ~(At(k, "user")' /\ cpu'[k].current = t)
  /\ Unstarted(t)' => thread'[t].state # "Ready"
  /\ \A k \in Cpus : Reaches(k, t)'

\* The registers of one processor, and whom it may be running.
LEMMA Own ==
  ASSUME TypeOK, Shape, NEW c \in Cpus
  PROVE  /\ Registers(c) /\ cpu[c].current \in Threads \cup {Idle}
         /\ Idle \notin Threads /\ None \notin Threads \cup {Idle}
<1>1. cpu[c].current \in Threads \cup {Idle} BY CpuFields DEF TypeOK
<1>2. Registers(c) BY DEF Shape
<1> QED BY <1>1, <1>2, DispatchAssumption

\* A step that moves no thread leaves where every thread is.
LEMMA Still ==
  ASSUME NEW c \in Cpus, NEW X \in SUBSET Threads, Quietly(c, X)
  PROVE  /\ \A t \in Threads : Hands(t)' = Hands(t)
         /\ \A t \in Threads : \A k \in Cpus :
              /\ Holds(k, t)' <=> Holds(k, t)
              /\ Claims(k, t)' <=> Claims(k, t)
              /\ InHand(k, t)' <=> InHand(k, t)
              /\ Stopping(k, t)' <=> Stopping(k, t)
<1>1. ASSUME NEW t \in Threads PROVE Hands(t)' = Hands(t)
  BY DEF Hands, Quietly, Busy
<1>2. ASSUME NEW t \in Threads, NEW k \in Cpus
      PROVE  /\ Holds(k, t)' <=> Holds(k, t)
             /\ Claims(k, t)' <=> Claims(k, t)
             /\ InHand(k, t)' <=> InHand(k, t)
             /\ Stopping(k, t)' <=> Stopping(k, t)
  BY DEF Holds, Claims, InHand, Stopping, Quietly, Busy
<1> QED BY <1>1, <1>2

\* A step that moves no thread preserves the invariant when it does so for the
\* threads whose records it wrote: the waits, the exits, the idle loop.
LEMMA Quiet ==
  ASSUME IInv, TypeOK', Shape', NEW c \in Cpus, NEW X \in SUBSET Threads, Quietly(c, X),
         \A t \in X : Settles(t)
  PROVE  IInv'
<1> USE DEF IInv
<1>1. ASSUME NEW t \in Threads PROVE Hands(t)' = Hands(t)
  BY Still
<1>2. ASSUME NEW t \in Threads, NEW k \in Cpus
      PROVE  /\ Holds(k, t)' <=> Holds(k, t)
             /\ Claims(k, t)' <=> Claims(k, t)
             /\ InHand(k, t)' <=> InHand(k, t)
             /\ Stopping(k, t)' <=> Stopping(k, t)
  BY Still
<1>3. Life'
  <2>1. ASSUME NEW t \in Threads \ X PROVE Belongs(t)'
    BY <1>1 DEF Life, Belongs, Quietly
  <2>2. ASSUME NEW k \in Cpus PROVE Terminates(k)'
    <3>1. SUFFICES ASSUME cpu'[k].pc \in {"sweep", "kick"}
                   PROVE  machine' = k /\ thread'[cpu'[k].arg].stop
      BY Zenon DEF Terminates
    <3>2. k # c /\ cpu[k].pc \in {"sweep", "kick"} BY <3>1, Zenon DEF Quietly, Busy
    <3>3. machine = k /\ thread[cpu[k].arg].stop /\ cpu[k].arg \in Threads
      BY <3>2, Zenon DEF Life, Terminates, Shape, Registers
    <3> QED BY <3>2, <3>3, DispatchAssumption DEF Quietly, Settles
  <2> QED BY <2>1, <2>2, Zenon DEF Life, Settles
<1>4. Held'
  <2>1. ASSUME NEW t \in Threads \ X PROVE Marked(t)'
    BY <1>2 DEF Held, Marked, Takes, Quietly
  <2> QED BY <2>1, Zenon DEF Held, Settles
<1>5. Placed'
  <2>1. ASSUME NEW t \in Threads \ X, NEW k \in Cpus PROVE Preempts(k, t)' <=> Preempts(k, t)
    BY DEF Preempts, Quietly, Busy
  <2>2. ASSUME NEW t \in Threads \ X PROVE Place(t)'
    BY <1>1, <1>2, <2>1 DEF Placed, Place, Quietly, Busy
  <2> QED BY <2>2, Zenon DEF Placed, Settles
<1>6. Stops'
  <2>1. ASSUME NEW t \in Threads \ X PROVE Unstarted(t)' <=> Unstarted(t) BY Zenon DEF Unstarted, Quietly
  <2>2. ASSUME NEW k \in Cpus, NEW t \in Threads \ X PROVE Reaches(k, t)'
    <3>0. Reaches(k, t) BY Zenon DEF Stops
    <3>1. (Claims(k, t) /\ Unstarted(t) =>
       \E d \in Cpus \ {k} : cpu[d].pc = "sweep" /\ cpu[d].arg = t /\ cpu[d].aim <= k)'
      BY <3>0, <1>2, <2>1, Zenon DEF Reaches, Quietly, Busy
    <3>2. (\/ cpu[k].current = t /\ cpu[k].pc \notin {"switch", "publish", "release"}
           \/ Holds(k, t) /\ cpu[k].current # t
           => thread[t].resume # "user" \/ thread[t].dom = "Dead")'
      BY <3>0, <1>2, Zenon DEF Reaches, Quietly, Busy
    <3>3. (cpu[k].current = t /\ Unstarted(t) =>
       cpu[k].ipi \/ \E d \in Cpus \ {k} : Stopping(d, t))'
      <4>1. CASE k # c BY <4>1, <3>0, <1>2, <2>1, Zenon DEF Reaches, Quietly
      <4>2. CASE k = c
        <5>1. SUFFICES ASSUME cpu[c].current = t, Unstarted(t) PROVE FALSE
          BY <4>2, <2>1, Zenon DEF Quietly
        <5> QED BY <5>1, <4>2, <3>0, Zenon DEF Reaches, Unstarted, Quietly, Busy, Life, Belongs
      <4> QED BY <4>1, <4>2
    <3> QED BY <3>1, <3>2, <3>3, Zenon DEF Reaches
  <2>3. StopReaches'
    <3>1. SUFFICES ASSUME NEW k \in Cpus, cpu'[k].pc = "user", thread'[cpu'[k].current].stop
                   PROVE  cpu'[k].ipi \/ \E d \in Cpus \ {k} : Stopping(d, cpu[k].current)
      BY <1>2 DEF StopReaches, At, Quietly, Stopping, Busy
    <3>2. k # c BY <3>1 DEF Quietly
    <3>3. At(k, "user") /\ cpu[k].current \in Threads
      BY <3>1, <3>2, Zenon DEF Quietly, At, Shape, Registers, Threaded
    <3>4. cpu[k].current \notin X BY <3>1, <3>2, <3>3, Zenon DEF Settles, At, Quietly
    <3>5. thread[cpu[k].current].stop BY <3>1, <3>3, <3>4 DEF Quietly
    <3> QED BY <3>2, <3>3, <3>5, Zenon DEF Stops, StopReaches, Quietly, Stopping
  <2> QED BY <2>1, <2>2, <2>3 DEF Stops, Quietly, Settles
<1> QED BY <1>3, <1>4, <1>5, <1>6

\* A step of c that stops no thread, switches to none and leaves none.
Unstopped(c) ==
  /\ \A s \in Threads :
       /\ thread'[s].dom = thread[s].dom
       /\ thread'[s].stop = thread[s].stop
       /\ thread'[s].resume = thread[s].resume
       /\ Unstarted(s) => thread'[s].state # "Ready"
  /\ machine' = machine \/ machine \in {None, c}
  /\ \A k \in Cpus :
       /\ cpu'[k].current = cpu[k].current
       /\ cpu'[k].previous = cpu[k].previous
  /\ \A k \in Cpus \ {c} :
       /\ cpu'[k].pc = cpu[k].pc
       /\ cpu'[k].arg = cpu[k].arg
       /\ cpu'[k].aim = cpu[k].aim
       /\ cpu[k].ipi => cpu'[k].ipi
  /\ cpu[c].pc \notin {"switch", "publish", "release", "sweep", "kick", "claim"}
  /\ cpu'[c].pc \notin {"switch", "publish", "release", "sweep", "kick", "user"}
  /\ cpu'[c].pc = "claim" => cpu'[c].arg = Idle \/ ~Unstarted(cpu'[c].arg)

\* A step of one processor that writes no thread, and neither its queue nor whom it
\* runs, keeps the registers and the invariant: the interrupts and the idle loop.
LEMMA Standing ==
  ASSUME TypeOK, Shape, TypeOK', NEW c \in Cpus,
         thread' = thread /\ machine' = machine,
         \A k \in Cpus \ {c} : cpu'[k] = cpu[k],
         cpu'[c].queue = cpu[c].queue /\ cpu'[c].current = cpu[c].current,
         cpu'[c].previous = cpu[c].previous,
         cpu[c].pc \notin Busy /\ cpu'[c].pc \notin Busy \cup {"user"},
         Registers(c)'
  PROVE  Shape' /\ (IInv => IInv')
<1>1. Shape' BY OwnShape, Zenon
<1>2. ASSUME IInv PROVE IInv'
  <2>1. Quietly(c, {})
    <3>1. \A k \in Cpus : /\ cpu'[k].queue = cpu[k].queue
                           /\ cpu'[k].current = cpu[k].current
                           /\ cpu'[k].previous = cpu[k].previous
      BY Zenon
    <3> QED BY <3>1, Zenon DEF Quietly
  <2> QED BY <1>1, <1>2, <2>1, Quiet
<1> QED BY <1>1, <1>2

\* Such a step leaves the stops under way as they are: stop_thread and kick_domain
\* still have ahead of them the processors that take the thread.
LEMMA StopsKept ==
  ASSUME IInv, Shape', NEW c \in Cpus, Unstopped(c)
  PROVE  Stops' /\ \A k \in Cpus : Terminates(k)'
<1> USE DEF IInv
<1>1. ASSUME NEW s \in Threads PROVE Unstarted(s)' <=> Unstarted(s) BY Zenon DEF Unstarted, Unstopped
<1>2. ASSUME NEW s \in Threads, NEW k \in Cpus
      PROVE  /\ Holds(k, s)' <=> Holds(k, s)
             /\ Claims(k, s)' /\ Unstarted(s) => Claims(k, s)
             /\ Stopping(k, s)' <=> Stopping(k, s)
  BY DispatchAssumption DEF Holds, Claims, Stopping, Unstopped
<1>3. ASSUME NEW k \in Cpus, NEW s \in Threads PROVE Reaches(k, s)'
  <2>0. Reaches(k, s) BY Zenon DEF Stops
  <2>1. (Claims(k, s) /\ Unstarted(s) =>
           \E d \in Cpus \ {k} : cpu[d].pc = "sweep" /\ cpu[d].arg = s /\ cpu[d].aim <= k)'
    BY <2>0, <1>1, <1>2, Zenon DEF Reaches, Unstopped
  <2>2. (\/ cpu[k].current = s /\ cpu[k].pc \notin {"switch", "publish", "release"}
         \/ Holds(k, s) /\ cpu[k].current # s
         => thread[s].resume # "user" \/ thread[s].dom = "Dead")'
    BY <2>0, <1>2, Zenon DEF Reaches, Unstopped
  <2>3. (cpu[k].current = s /\ Unstarted(s) =>
           cpu[k].ipi \/ \E d \in Cpus \ {k} : Stopping(d, s))'
    <3>1. CASE k # c BY <3>1, <2>0, <1>1, <1>2, Zenon DEF Reaches, Unstopped
    <3>2. CASE k = c
      <4>1. SUFFICES ASSUME cpu[c].current = s, Unstarted(s) PROVE FALSE
        BY <3>2, <1>1, Zenon DEF Unstopped
      <4> QED BY <4>1, <3>2, <2>0, Zenon DEF Reaches, Unstarted, Unstopped, Life, Belongs
    <3> QED BY <3>1, <3>2
  <2> QED BY <2>1, <2>2, <2>3, Zenon DEF Reaches
<1>4. StopReaches'
  <2>1. SUFFICES ASSUME NEW k \in Cpus, cpu'[k].pc = "user", thread'[cpu'[k].current].stop
                 PROVE  cpu'[k].ipi \/ \E d \in Cpus \ {k} : Stopping(d, cpu[k].current)
    BY <1>2 DEF StopReaches, At, Unstopped, Stopping
  <2>2. k # c BY <2>1, Zenon DEF Unstopped
  <2>3. At(k, "user") /\ cpu[k].current \in Threads
    BY <2>1, <2>2, Zenon DEF Unstopped, At, Shape, Registers, Threaded
  <2>4. thread[cpu[k].current].stop BY <2>1, <2>3 DEF Unstopped
  <2> QED BY <2>2, <2>3, <2>4, Zenon DEF Stops, StopReaches, Unstopped, Stopping
<1>5. ASSUME NEW k \in Cpus PROVE Terminates(k)'
  <2>1. SUFFICES ASSUME cpu'[k].pc \in {"sweep", "kick"}
                 PROVE  machine' = k /\ thread'[cpu'[k].arg].stop
    BY DEF Terminates
  <2>2. k # c /\ cpu[k].pc \in {"sweep", "kick"} BY <2>1, Zenon DEF Unstopped
  <2>3. machine = k /\ thread[cpu[k].arg].stop /\ cpu[k].arg \in Threads
    BY <2>2, Zenon DEF Life, Terminates, Shape, Registers
  <2> QED BY <2>2, <2>3, DispatchAssumption, Zenon DEF Unstopped
<1> QED BY <1>1, <1>3, <1>4, <1>5, Zenon DEF Stops, Unstopped

\* A step of c that moves t, which nobody runs or leaves, from a queue or a hand
\* into another.
Carries(c, t) ==
  /\ \A s \in Threads :
       /\ thread'[s].dom = thread[s].dom
       /\ thread'[s].state = thread[s].state
       /\ thread'[s].on = thread[s].on
       /\ thread'[s].stop = thread[s].stop
       /\ thread'[s].resume = thread[s].resume
  /\ machine' = machine
  /\ \A k \in Cpus :
       /\ cpu'[k].current = cpu[k].current
       /\ cpu'[k].previous = cpu[k].previous
       /\ \A s \in Threads \ {t} : s \in cpu'[k].queue <=> s \in cpu[k].queue
  /\ \A k \in Cpus \ {c} :
       /\ cpu'[k].pc = cpu[k].pc
       /\ cpu'[k].arg = cpu[k].arg
       /\ cpu'[k].aim = cpu[k].aim
       /\ cpu'[k].ipi = cpu[k].ipi
  /\ cpu[c].pc \in {"exit", "ticked", "polled", "moving", "stolen"}
  /\ cpu'[c].pc \in {"moving", "moved", "stolen", "turn"}
  /\ cpu[c].pc \in {"moving", "stolen"} => cpu[c].arg = t
  /\ cpu'[c].pc \in {"moving", "stolen"} => cpu'[c].arg = t

\* Such a step preserves the invariant when the thread ends in one place: the
\* hand-off to an idle processor, and the two steals.
LEMMA Carried ==
  ASSUME IInv, TypeOK', Shape', NEW c \in Cpus, NEW t \in Threads, NEW h \in Cpus, Carries(c, t),
         Hands(t) # {}, Hands(t)' = {h},
         \A k \in Cpus : InHand(k, t)' => t \notin cpu'[k].queue,
         thread[t].dom \in {"Building", "Runnable"} => \A k \in Cpus : ~Preempts(k, t)
  PROVE  IInv'
<1> USE DEF IInv
<1>1. ASSUME NEW s \in Threads \ {t} PROVE Hands(s)' = Hands(s)
  BY DEF Hands, Carries
<1>2. ASSUME NEW s \in Threads, NEW k \in Cpus
      PROVE  /\ Holds(k, s)' <=> Holds(k, s)
             /\ Claims(k, s)' <=> Claims(k, s)
             /\ Stopping(k, s)' <=> Stopping(k, s)
             /\ Preempts(k, s)' <=> Preempts(k, s)
  BY Zenon DEF Holds, Claims, Stopping, Preempts, Carries
<1>3. ASSUME NEW s \in Threads \ {t}, NEW k \in Cpus PROVE InHand(k, s)' <=> InHand(k, s)
  BY DEF InHand, Carries
<1>4. thread[t].dom # "Empty" /\ thread[t].state \notin {"Blocked", "Held"}
      /\ \A k \in Cpus : cpu[k].current # t
  BY Zenon DEF Life, Belongs, Placed, Place
<1>5. ASSUME NEW s \in Threads PROVE Belongs(s)'
  BY <1>1, <1>4 DEF Life, Belongs, Carries
<1>6. Held' BY <1>2 DEF Held, Marked, Takes, Carries
<1>7. Placed'
  <2>1. ASSUME NEW s \in Threads \ {t} PROVE Place(s)'
    BY <1>1, <1>2, <1>3 DEF Placed, Place, Carries
  <2>2. Place(t)'
    <3>1. Hands(t)' # {} /\ \A a, b \in Hands(t)' : a = b OBVIOUS
    <3>2. /\ thread'[t].state \notin {"Blocked", "Held"} /\ thread'[t].dom = thread[t].dom
          /\ \A k \in Cpus : cpu'[k].current # t
      BY <1>4 DEF Carries
    <3>3. thread'[t].dom \in {"Building", "Runnable"} => \A k \in Cpus : ~Preempts(k, t)'
      BY <1>2, <3>2, Zenon
    <3> QED BY <3>1, <3>2, <3>3, Zenon DEF Place
  <2> QED BY <2>1, <2>2, Zenon DEF Placed
<1>8. Stops' /\ \A k \in Cpus : Terminates(k)'
  <2>1. Unstopped(c) BY DEF Unstopped, Carries, Stops
  <2> QED BY <2>1, StopsKept, Zenon
<1> QED BY <1>5, <1>6, <1>7, <1>8, Zenon DEF Life

\* A step of c on its way from a switch to the point where its new thread goes on.
Leaves(c) ==
  /\ \A k \in Cpus \ {c} : cpu'[k] = cpu[k]
  /\ machine' = machine
  /\ cpu[c].pc \in {"switch", "publish", "release"}
  /\ cpu'[c].pc \in {"publish", "release", "user", "exit", "leave", "turn", "poll", "tail"}
  /\ cpu'[c].queue = cpu[c].queue /\ cpu'[c].current = cpu[c].current
  /\ cpu'[c].ipi = cpu[c].ipi
  /\ \A s \in Threads :
       /\ thread'[s].dom = thread[s].dom /\ thread'[s].stop = thread[s].stop
       /\ thread'[s].resume \in {thread[s].resume, "leave"}
       /\ Holds(c, s)' => Holds(c, s)
       /\ thread'[s].on = thread[s].on \/ (Holds(c, s) /\ ~Holds(c, s)')
       /\ thread'[s].state = thread[s].state \/ (thread'[s].state = "Ready" /\ Preempts(c, s))
       /\ Preempts(c, s)' => Preempts(c, s)
       /\ cpu'[c].pc \notin {"publish", "release"} /\ cpu[c].current = s
            => thread'[s].resume = "leave"
  /\ cpu'[c].pc = "user" => thread[cpu[c].current].resume = "user"

\* Such a step preserves the invariant: finish_switch, which publishes the thread
\* it left only once it stands on the next one's stack.
LEMMA Left ==
  ASSUME IInv, TypeOK', Shape', NEW c \in Cpus, Leaves(c)
  PROVE  IInv'
<1> USE DEF IInv
<1>1. ASSUME NEW s \in Threads PROVE Hands(s)' = Hands(s) BY DEF Hands, Leaves
<1>2. ASSUME NEW s \in Threads, NEW k \in Cpus
      PROVE  /\ Holds(k, s)' => Holds(k, s)
             /\ Claims(k, s)' <=> Claims(k, s)
             /\ InHand(k, s)' <=> InHand(k, s)
             /\ Stopping(k, s)' <=> Stopping(k, s)
             /\ Preempts(k, s)' => Preempts(k, s)
  <2>1. CASE k = c BY <2>1, Zenon DEF Claims, InHand, Stopping, Leaves
  <2>2. CASE k # c BY <2>2 DEF Holds, Claims, InHand, Stopping, Preempts, Leaves
  <2> QED BY <2>1, <2>2, Zenon
<1>3. ASSUME NEW s \in Threads, Preempts(c, s) PROVE Holds(c, s) /\ cpu[c].current # s
  BY <1>3, DispatchAssumption, Zenon DEF Preempts, Holds, Shape, Registers
<1>4. ASSUME NEW s \in Threads PROVE Belongs(s)'
  BY <1>1, <1>3 DEF Life, Belongs, Held, Marked, Leaves
<1>5. ASSUME NEW k \in Cpus PROVE Terminates(k)'
  <2>1. SUFFICES ASSUME cpu'[k].pc \in {"sweep", "kick"}
                 PROVE  machine' = k /\ thread'[cpu'[k].arg].stop
    BY Zenon DEF Terminates
  <2>2. k # c /\ cpu'[k] = cpu[k] BY <2>1, Zenon DEF Leaves
  <2>3. machine = k /\ thread[cpu[k].arg].stop /\ cpu[k].arg \in Threads
    BY <2>1, <2>2, Zenon DEF Life, Terminates, Shape, Registers
  <2> QED BY <2>2, <2>3, Zenon DEF Leaves
<1>6. Held'
  <2>1. ASSUME NEW s \in Threads PROVE Marked(s)'
    <3>0. Marked(s) BY DEF Held
    <3>1. \A k \in Cpus : Takes(k, s)' => Takes(k, s) BY <1>2 DEF Takes
    <3>2. ASSUME NEW k \in Cpus, Holds(k, s)' PROVE thread'[s].on = k \/ thread'[s].dom = "Dead"
      BY <3>0, <3>2, <1>2, ZenonT(30) DEF Marked, Takes, Leaves
    <3>3. thread'[s].dom = thread[s].dom BY Zenon DEF Leaves
    <3> QED BY <3>0, <3>1, <3>2, <3>3, <1>2, Zenon DEF Marked
  <2> QED BY <2>1 DEF Held
<1>7. Placed'
  <2>1. ASSUME NEW s \in Threads PROVE Place(s)'
    <3>0. Place(s) BY DEF Placed
    <3>1. \A k \in Cpus : cpu'[k].queue = cpu[k].queue /\ cpu'[k].current = cpu[k].current
      BY Zenon DEF Leaves
    <3>2. /\ thread'[s].dom = thread[s].dom
          /\ thread'[s].state = thread[s].state \/ (thread'[s].state = "Ready" /\ Preempts(c, s))
      BY Zenon DEF Leaves
    <3>3. s \in cpu[c].queue => Hands(s) # {} BY DEF Hands
    <3> QED BY <3>0, <3>1, <3>2, <3>3, <1>1, <1>2, Zenon DEF Place
  <2> QED BY <2>1 DEF Placed
<1>8. Stops'
  <2>1. ASSUME NEW s \in Threads PROVE Unstarted(s)' => Unstarted(s)
    BY Zenon DEF Unstarted, Leaves
  <2>2. ASSUME NEW s \in Threads, Unstarted(s)' PROVE thread'[s].state # "Ready"
    <3>1. Unstarted(s) /\ thread[s].state # "Ready" BY <2>1, <2>2, Zenon DEF Stops
    <3>2. ~Preempts(c, s)
      BY <3>1, <1>3 DEF Stops, Reaches, Unstarted, Life, Belongs
    <3> QED BY <3>1, <3>2, Zenon DEF Leaves
  <2>3. ASSUME NEW k \in Cpus, NEW s \in Threads PROVE Reaches(k, s)'
    <3>0. Reaches(k, s) BY DEF Stops
    <3>1. (Claims(k, s) /\ Unstarted(s) =>
             \E d \in Cpus \ {k} : cpu[d].pc = "sweep" /\ cpu[d].arg = s /\ cpu[d].aim <= k)'
      <4>1. \A d \in Cpus : cpu[d].pc = "sweep" => cpu'[d] = cpu[d] BY Zenon DEF Leaves
      <4> QED BY <3>0, <4>1, <1>2, <2>1, Zenon DEF Reaches
    <3>2. (cpu[k].current = s /\ Unstarted(s) => cpu[k].ipi \/ \E d \in Cpus \ {k} : Stopping(d, s))'
      <4>1. cpu'[k].current = cpu[k].current /\ cpu'[k].ipi = cpu[k].ipi BY Zenon DEF Leaves
      <4> QED BY <3>0, <4>1, <1>2, <2>1, Zenon DEF Reaches
    <3>3. (\/ cpu[k].current = s /\ cpu[k].pc \notin {"switch", "publish", "release"}
           \/ Holds(k, s) /\ cpu[k].current # s
           => thread[s].resume # "user" \/ thread[s].dom = "Dead")'
      <4>1. CASE k = c BY <3>0, <4>1, <1>2 DEF Reaches, Leaves
      <4>2. CASE k # c BY <3>0, <4>2, <1>2 DEF Reaches, Leaves
      <4> QED BY <4>1, <4>2, Zenon
    <3> QED BY <3>1, <3>2, <3>3, Zenon DEF Reaches
  <2>4. StopReaches'
    <3>1. SUFFICES ASSUME NEW k \in Cpus, cpu'[k].pc = "user", thread'[cpu'[k].current].stop
                   PROVE  cpu'[k].ipi \/ \E d \in Cpus \ {k} :
                            cpu'[d].pc \in {"sweep", "kick"} /\ cpu'[d].arg = cpu'[k].current
      BY Zenon DEF StopReaches, At
    <3>2. PICK s \in Threads : s = cpu'[k].current
      BY <3>1, Zenon DEF Shape, Registers, Threaded
    <3>3. cpu[k].current = s /\ cpu'[k].ipi = cpu[k].ipi BY <3>2, Zenon DEF Leaves
    <3>4. thread[s].stop BY <3>1, <3>2, Zenon DEF Leaves
    <3>5. cpu[k].ipi \/ \E d \in Cpus \ {k} : Stopping(d, s)
      <4>1. CASE k = c
        <5>1. Unstarted(s) BY <3>1, <3>3, <3>4, <4>1, Zenon DEF Unstarted, Leaves
        <5> QED BY <5>1, <3>3 DEF Stops, Reaches
      <4>2. CASE k # c
        <5>1. cpu[k].pc = "user" BY <4>2, <3>1 DEF Leaves
        <5> QED BY <5>1, <3>3, <3>4, Zenon DEF Stops, StopReaches, Stopping, At
      <4> QED BY <4>1, <4>2
    <3> QED BY <3>2, <3>3, <3>5, <1>2 DEF Stopping
  <2> QED BY <2>2, <2>3, <2>4, Zenon DEF Stops
<1> QED BY <1>4, <1>5, <1>6, <1>7, <1>8 DEF Life

\* eligible: a thread that passes the test is on no processor, and no processor is
\* leaving it.
LEMMA EligibleUnheld ==
  ASSUME IInv, NEW t \in Threads, thread[t].on = None, thread[t].dom # "Dead", NEW k \in Cpus
  PROVE  ~Holds(k, t) /\ ~Preempts(k, t) /\ cpu[k].current # t
<1>1. ~Holds(k, t) BY DispatchAssumption, Zenon DEF IInv, Held, Marked
<1> QED BY <1>1 DEF Holds, Preempts

----------------------------------------------------------------------------
\* Steps that write one processor, or a thread that no processor stands on.

\* flush_wakes takes the next deferred wake, or goes on with what the processor does.
LEMMA StepFlushWakes ==
  ASSUME TypeOK, Shape, NEW c \in Cpus, FlushWakes(c)
  PROVE  /\ TypeOK' /\ Shape' /\ (NoSleep => NoSleep')
         /\ (IInv => IInv')
<1>1. TypeOK'
  <2>1. cpu[c] \in CpuType /\ cpu[c].deferred \in Seq(Threads \X BOOLEAN) BY CpuFields, Zenon DEF TypeOK
  <2>2. cpu[c].deferred # <<>> =>
          /\ Head(cpu[c].deferred) \in Threads \X BOOLEAN
          /\ Tail(cpu[c].deferred) \in Seq(Threads \X BOOLEAN)
    BY <2>1
  <2>3. cpu[c].deferred # <<>> =>
          Head(cpu[c].deferred)[1] \in Threads /\ Head(cpu[c].deferred)[2] \in BOOLEAN
    BY <2>2
  <2>4. cpu' \in [Cpus -> CpuType]
    <3>1. CASE cpu[c].deferred # <<>>
      <4>1. PICK a \in Threads, y \in BOOLEAN, d \in Seq(Threads \X BOOLEAN) :
              cpu' = [cpu EXCEPT ![c].pc = "wake", ![c].arg = a, ![c].sync = y,
                                 ![c].ret = "flush", ![c].deferred = d]
        BY <3>1, <2>2, <2>3, Zenon DEF FlushWakes
      <4>2. [cpu[c] EXCEPT !.pc = "wake", !.arg = a, !.sync = y, !.ret = "flush",
                           !.deferred = d] \in CpuType
        BY <2>1, Names, SetPc, SetArg, SetSync, SetRet, SetDeferred, Zenon
      <4> QED BY <4>1, <4>2 DEF TypeOK
    <3>2. CASE cpu[c].deferred = <<>>
      <4>1. PICK p \in Pcs : cpu' = [cpu EXCEPT ![c].rest = "turn", ![c].pc = p]
        BY <3>2, Names, Zenon DEF FlushWakes
      <4> QED BY <4>1, <2>1, SetPc, SetRest, Zenon DEF TypeOK
    <3> QED BY <3>1, <3>2
  <2> QED BY <2>4, Zenon DEF TypeOK, FlushWakes
<1>2. /\ \A k \in Cpus \ {c} : cpu'[k] = cpu[k]
      /\ cpu'[c].queue = cpu[c].queue /\ cpu'[c].current = cpu[c].current
      /\ cpu'[c].previous = cpu[c].previous
      /\ cpu[c].pc \in {"flush", "turn"}
      /\ \/ cpu'[c].pc = "wake" /\ cpu'[c].arg \in Threads
         \/ cpu[c].current = Idle /\ cpu'[c].pc = "reap"
         \/ cpu[c].current # Idle /\ cpu'[c].pc \in {"plan", "exit"}
  <2>1. cpu[c].deferred \in Seq(Threads \X BOOLEAN) BY CpuFields, Zenon DEF TypeOK
  <2>2. cpu[c].deferred # <<>> => Head(cpu[c].deferred) \in Threads \X BOOLEAN BY <2>1
  <2>3. cpu[c].deferred # <<>> => Head(cpu[c].deferred)[1] \in Threads BY <2>2
  <2>4. CASE cpu[c].deferred # <<>> BY <2>3, <2>4 DEF TypeOK, CpuType, FlushWakes, At
  <2>5. CASE cpu[c].deferred = <<>> BY <2>5 DEF TypeOK, CpuType, FlushWakes, At
  <2> QED BY <2>4, <2>5, Zenon
<1>3. Shape'
  <2>1. Registers(c)' BY <1>2, Own, Zenon DEF Registers, Threaded, Threadless
  <2> QED BY <2>1, <1>2, OwnShape, Zenon
<1>4. NoSleep => NoSleep'
  BY <1>2, Awake, Zenon
<1>5. IInv => IInv'
  <2> SUFFICES ASSUME IInv PROVE IInv' OBVIOUS
  <2>1. TypeOK' /\ Shape' BY <1>1, <1>3
  <2>2. Quietly(c, {})
    <3>1. thread' = thread /\ machine' = machine BY Zenon DEF FlushWakes
    <3> QED BY <3>1, <1>2, Zenon DEF IInv, Quietly, Busy
  <2> QED BY <2>1, <2>2, Quiet
<1> QED BY <1>1, <1>3, <1>4, <1>5

\* An operation that claims a wait and defers its wake, or registers its own wait.
LEMMA StepOperate ==
  ASSUME TypeOK, Shape, NEW c \in Cpus, NEW blocks \in BOOLEAN, NEW sync \in BOOLEAN,
         NEW u \in Threads \cup {None}, Operate(c, blocks, u, sync)
  PROVE  /\ TypeOK' /\ Shape' /\ (NoSleep => NoSleep')
         /\ (IInv => IInv')
<1>1. TypeOK'
  <2>1. cpu[c] \in CpuType /\ cpu[c].deferred \in Seq(Threads \X BOOLEAN) BY CpuFields, Zenon DEF TypeOK
  <2>2. u # None => Append(cpu[c].deferred, <<u, sync>>) \in Seq(Threads \X BOOLEAN)
    <3>1. SUFFICES ASSUME u # None PROVE Append(cpu[c].deferred, <<u, sync>>) \in Seq(Threads \X BOOLEAN) OBVIOUS
    <3>2. <<u, sync>> \in Threads \X BOOLEAN BY <3>1
    <3> HIDE DEF TypeOK
    <3> QED BY <2>1, <3>2
  <2>3. PICK d \in Seq(Threads \X BOOLEAN) :
          cpu' = [cpu EXCEPT ![c].pc = "flush", ![c].deferred = d]
    BY <2>1, <2>2, Zenon DEF Operate
  <2>4. cpu' \in [Cpus -> CpuType] BY <2>1, <2>3, Names, SetPc, SetDeferred, Zenon DEF TypeOK
  <2>5. ASSUME NEW k \in Threads PROVE thread[k] \in ThreadType /\ [thread[k] EXCEPT !.wait = FALSE] \in ThreadType
          /\ [thread[k] EXCEPT !.wait = TRUE, !.state = "Blocked", !.resume = "exit"] \in ThreadType
    BY StateNames, SetWait, SetState, SetResume, Zenon DEF TypeOK
  <2>6. thread' \in [Threads -> ThreadType]
    BY <2>5, Zenon DEF TypeOK, Operate
  <2> QED BY <2>4, <2>6, Zenon DEF TypeOK, Operate
<1>2. /\ \A k \in Cpus \ {c} : cpu'[k] = cpu[k]
      /\ cpu'[c].queue = cpu[c].queue /\ cpu'[c].current = cpu[c].current
      /\ cpu'[c].previous = cpu[c].previous
      /\ cpu[c].pc = "user" /\ cpu'[c].pc = "flush"
  <2>1. PICK d : cpu' = [cpu EXCEPT ![c].pc = "flush", ![c].deferred = d] BY Zenon DEF Operate
  <2>2. cpu[c].pc = "user" BY Zenon DEF Operate, Calls, At
  <2> QED BY <2>1, <2>2 DEF TypeOK, CpuType
<1>3. Shape'
  <2>1. Registers(c)' BY <1>2, Own, Zenon DEF Registers, Threaded, Threadless
  <2> QED BY <2>1, <1>2, OwnShape, Zenon
<1>4. NoSleep => NoSleep'
  BY <1>2, Awake, Zenon
<1>5. IInv => IInv'
  <2> SUFFICES ASSUME IInv PROVE IInv' OBVIOUS
  <2>1. TypeOK' /\ Shape' BY <1>1, <1>3
  <2>2. PICK t \in Threads : t = cpu[c].current /\ thread[t].dom = "Runnable" /\ machine' = machine
    BY Zenon DEF Operate, Calls, At, IInv, Shape, Registers, Threaded
  <2> DEFINE X == IF blocks /\ t # u THEN {t} ELSE {}
  <2>3. \A k \in Threads \ X :
            /\ thread'[k].dom = thread[k].dom
            /\ thread'[k].state = thread[k].state
            /\ thread'[k].on = thread[k].on
            /\ thread'[k].stop = thread[k].stop
            /\ thread'[k].resume = thread[k].resume
    BY <2>2, ZenonT(30) DEF IInv, TypeOK, ThreadType, Operate
  <2>4. Quietly(c, X) BY <2>2, <2>3, <1>2, Zenon DEF IInv, Quietly, Busy
  <2>5. ASSUME blocks, t # u PROVE Settles(t)
    <3>1. thread'[t].dom = "Runnable" /\ thread'[t].state = "Blocked" /\ thread'[t].on = thread[t].on
          /\ thread'[t].stop = thread[t].stop /\ thread'[t].resume = "exit"
      BY <2>2, <2>5, ZenonT(30) DEF IInv, TypeOK, ThreadType, Operate
    <3>2. ~thread[t].stop BY <2>2, Zenon DEF IInv, Life, Belongs
    <3>3. Hands(t)' = {} BY <2>2, <2>4, Still DEF IInv, Placed, Place
    <3>4. Belongs(t)' BY <3>1, <3>2, <3>3, Zenon DEF Belongs
    <3>5. Marked(t)' BY <2>2, <2>4, <3>1, Still, Zenon DEF IInv, Held, Marked, Takes
    <3>6. \A k \in Cpus : ~Preempts(k, t)'
      <4>1. ASSUME NEW k \in Cpus, cpu'[k].pc = "publish", cpu'[k].arg = t PROVE FALSE
        <5>1. k # c BY <4>1, <1>2, Zenon DEF IInv
        <5>2. Holds(k, t) /\ Holds(c, t) BY <5>1, <4>1, <2>2, <1>2, Zenon DEF IInv, Holds
        <5> QED BY <5>1, <5>2, <2>2, Zenon DEF IInv, Held, Marked, Takes
      <4> QED BY <4>1, <3>1, Zenon DEF Preempts
    <3>7. Place(t)' BY <3>1, <3>3, <3>6, <2>2, Zenon DEF Place, InHand, Hands
    <3>8. \A k \in Cpus : Reaches(k, t)' BY <3>1, <3>2, Zenon DEF Reaches, Unstarted
    <3> QED BY <3>1, <3>2, <3>4, <3>5, <3>7, <3>8, Zenon DEF Settles, Unstarted
  <2>6. \A s \in X : Settles(s) BY <2>5
  <2>7. X \in SUBSET Threads BY <2>2, Zenon
  <2> HIDE DEF X
  <2> QED BY <2>1, <2>4, <2>6, <2>7, Quiet, Zenon
<1> QED BY <1>1, <1>3, <1>4, <1>5

\* cancel_waits claims a wait and issues its wake at once.
LEMMA StepCancelWait ==
  ASSUME TypeOK, Shape, NEW c \in Cpus, NEW t \in Threads, CancelWait(c, t)
  PROVE  /\ TypeOK' /\ Shape' /\ (NoSleep => NoSleep')
         /\ (IInv => IInv')
<1>1. TypeOK'
  <2>1. cpu[c] \in CpuType BY DEF TypeOK
  <2>2. cpu' \in [Cpus -> CpuType] BY <2>1, Names, SetPc, SetArg, SetSync, SetRet, Zenon DEF TypeOK, CancelWait
  <2>3. thread' \in [Threads -> ThreadType]
    BY SetWait, Zenon DEF TypeOK, CancelWait
  <2> QED BY <2>2, <2>3 DEF TypeOK, CancelWait
<1>2. /\ \A k \in Cpus \ {c} : cpu'[k] = cpu[k]
      /\ cpu'[c].queue = cpu[c].queue /\ cpu'[c].current = cpu[c].current
      /\ cpu'[c].previous = cpu[c].previous
      /\ cpu[c].pc = "user" /\ cpu'[c].pc = "wake" /\ cpu'[c].arg \in Threads
  BY DEF TypeOK, CpuType, CancelWait, At, Calls
<1>3. Shape'
  <2>1. Registers(c)' BY <1>2, Own, Zenon DEF Registers, Threaded, Threadless
  <2> QED BY <2>1, <1>2, OwnShape, Zenon
<1>4. NoSleep => NoSleep'
  BY <1>2, Awake, Zenon
<1>5. IInv => IInv'
  <2> SUFFICES ASSUME IInv PROVE IInv' OBVIOUS
  <2>1. TypeOK' /\ Shape' BY <1>1, <1>3
  <2>2. Quietly(c, {})
    <3>1. \A k \in Threads :
            /\ thread'[k].dom = thread[k].dom
            /\ thread'[k].state = thread[k].state
            /\ thread'[k].on = thread[k].on
            /\ thread'[k].stop = thread[k].stop
            /\ thread'[k].resume = thread[k].resume
      BY DEF IInv, TypeOK, ThreadType, CancelWait
    <3>2. machine' = machine \/ machine \in {None, c} BY DEF CancelWait, Calls
    <3> QED BY <3>1, <3>2, <1>2, Zenon DEF IInv, Quietly, Busy
  <2> QED BY <2>1, <2>2, Quiet
<1> QED BY <1>1, <1>3, <1>4, <1>5

\* The timer claims a wait whose deadline passed.
LEMMA StepExpireWait ==
  ASSUME TypeOK, Shape, NEW c \in Cpus, NEW t \in Threads, ExpireWait(c, t)
  PROVE  /\ TypeOK' /\ Shape' /\ (NoSleep => NoSleep')
         /\ (IInv => IInv')
<1>1. TypeOK'
  <2>1. cpu[c] \in CpuType BY DEF TypeOK
  <2>2. cpu' \in [Cpus -> CpuType] BY <2>1, Names, SetPc, SetArg, SetSync, SetRet, Zenon DEF TypeOK, ExpireWait
  <2>3. thread' \in [Threads -> ThreadType]
    BY SetWait, Zenon DEF TypeOK, ExpireWait
  <2> QED BY <2>2, <2>3 DEF TypeOK, ExpireWait
<1>2. /\ \A k \in Cpus \ {c} : cpu'[k] = cpu[k]
      /\ cpu'[c].queue = cpu[c].queue /\ cpu'[c].current = cpu[c].current
      /\ cpu'[c].previous = cpu[c].previous
      /\ cpu[c].pc = "expire" /\ cpu'[c].pc = "wake" /\ cpu'[c].arg \in Threads
  BY DEF TypeOK, CpuType, ExpireWait, At
<1>3. Shape'
  <2>1. Registers(c)' BY <1>2, Own, Zenon DEF Registers, Threaded, Threadless
  <2> QED BY <2>1, <1>2, OwnShape, Zenon
<1>4. NoSleep => NoSleep'
  BY <1>2, Awake, Zenon
<1>5. IInv => IInv'
  <2> SUFFICES ASSUME IInv PROVE IInv' OBVIOUS
  <2>1. TypeOK' /\ Shape' BY <1>1, <1>3
  <2>2. Quietly(c, {})
    <3>1. \A k \in Threads :
            /\ thread'[k].dom = thread[k].dom
            /\ thread'[k].state = thread[k].state
            /\ thread'[k].on = thread[k].on
            /\ thread'[k].stop = thread[k].stop
            /\ thread'[k].resume = thread[k].resume
      BY DEF IInv, TypeOK, ThreadType, ExpireWait
    <3>2. machine' = machine \/ machine \in {None, c} BY DEF ExpireWait
    <3> QED BY <3>1, <3>2, <1>2, Zenon DEF IInv, Quietly, Busy
  <2> QED BY <2>1, <2>2, Quiet
<1> QED BY <1>1, <1>3, <1>4, <1>5

\* The timer has no wait left to claim.
LEMMA StepExpired ==
  ASSUME TypeOK, Shape, NEW c \in Cpus, Expired(c)
  PROVE  /\ TypeOK' /\ Shape' /\ (NoSleep => NoSleep')
         /\ (IInv => IInv')
<1>1. TypeOK'
  <2>1. cpu[c].rest \in {"turn", "poll", "tail"} BY CpuFields, Zenon DEF TypeOK
  <2> QED BY <2>1, Names, SetPc DEF TypeOK, Expired
<1>2. /\ \A k \in Cpus \ {c} : cpu'[k] = cpu[k]
      /\ cpu'[c].queue = cpu[c].queue /\ cpu'[c].current = cpu[c].current
      /\ cpu'[c].previous = cpu[c].previous
      /\ cpu[c].pc = "expire"
      /\ IF cpu[c].current = Idle THEN cpu'[c].pc \in {"plan", "turn", "poll", "tail"}
                               ELSE cpu'[c].pc = "ticked"
  <2>1. cpu[c].rest \in {"turn", "poll", "tail"} BY CpuFields DEF TypeOK
  <2> DEFINE p == IF cpu[c].current # Idle THEN "ticked"
                  ELSE IF cpu[c].rest = "turn" \/ cpu[c].resched THEN "plan"
                  ELSE cpu[c].rest
  <2>2. cpu' = [cpu EXCEPT ![c].pc = p] /\ cpu[c].pc = "expire" BY DEF Expired, At
  <2>3. cpu[c].current # Idle => p = "ticked" OBVIOUS
  <2>4. cpu[c].current = Idle => p \in {"plan", "turn", "poll", "tail"}
    <3>1. CASE cpu[c].rest = "turn" \/ cpu[c].resched BY <3>1, Zenon
    <3>2. CASE ~(cpu[c].rest = "turn" \/ cpu[c].resched) BY <3>2, <2>1, Zenon
    <3> QED BY <3>1, <3>2, Zenon
  <2> HIDE DEF p
  <2> QED BY <2>2, <2>3, <2>4 DEF TypeOK, CpuType
<1>3. Shape'
  <2>1. Registers(c)' BY <1>2, Own, Zenon DEF Registers, Threaded, Threadless
  <2> QED BY <2>1, <1>2, OwnShape, Zenon
<1>4. NoSleep => NoSleep'
  BY <1>2, Awake, Zenon
<1>5. IInv => IInv'
  <2> SUFFICES ASSUME IInv PROVE IInv' OBVIOUS
  <2>1. TypeOK' /\ Shape' BY <1>1, <1>3
  <2>2. Quietly(c, {})
    <3>1. thread' = thread /\ machine' = machine BY DEF Expired
    <3> QED BY <3>1, <1>2, Zenon DEF IInv, Quietly, Busy
  <2> QED BY <2>1, <2>2, Quiet
<1> QED BY <1>1, <1>3, <1>4, <1>5

\* The timer interrupts a program, a poll or a halt.
LEMMA StepTick ==
  ASSUME TypeOK, Shape, NEW c \in Cpus, Tick(c)
  PROVE  /\ TypeOK' /\ Shape' /\ (NoSleep => NoSleep')
         /\ (IInv => IInv')
<1>1. TypeOK'
  <2>1. cpu[c].rest \in {"turn", "poll", "tail"} BY CpuFields DEF TypeOK
  <2> QED BY <2>1, Names, SetPc, SetRest, Zenon DEF TypeOK, Tick
<1>2. /\ thread' = thread /\ machine' = machine
      /\ \A k \in Cpus \ {c} : cpu'[k] = cpu[k]
      /\ cpu'[c].queue = cpu[c].queue /\ cpu'[c].current = cpu[c].current
      /\ cpu'[c].previous = cpu[c].previous
      /\ cpu[c].pc \in {"user", "poll", "asleep"} /\ cpu'[c].pc = "expire"
  BY DEF TypeOK, CpuType, Tick, At, Interruptible
<1>3. Registers(c)' BY <1>2, Own, Zenon DEF Registers, Threaded, Threadless
<1>4. NoSleep => NoSleep' BY <1>2, Awake, Zenon
<1>5. Shape' /\ (IInv => IInv') BY <1>1, <1>2, <1>3, Standing, Zenon DEF Busy
<1> QED BY <1>1, <1>4, <1>5

\* The reschedule interrupt arrives; the processor plans only when it interrupted
\* user code or the idle loop.
LEMMA StepOnReschedule ==
  ASSUME TypeOK, Shape, NEW c \in Cpus, OnReschedule(c)
  PROVE  /\ TypeOK' /\ Shape' /\ (NoSleep => NoSleep')
         /\ (IInv => IInv')
<1>1. TypeOK'
  <2>1. cpu[c] \in CpuType BY DEF TypeOK
  <2>2. cpu[c].rest \in {"turn", "poll", "tail"} BY <2>1, CpuFields, Zenon
  <2>3. PICK r \in {"turn", "poll", "tail"}, p \in Pcs :
          cpu' = [cpu EXCEPT ![c].ipi = FALSE, ![c].rest = r, ![c].pc = p]
    BY <2>2, Names, Zenon DEF OnReschedule, Interruptible, At
  <2>4. cpu' \in [Cpus -> CpuType] BY <2>1, <2>3, SetIpi, SetRest, SetPc, Zenon DEF TypeOK
  <2> QED BY <2>4, Zenon DEF TypeOK, OnReschedule
<1>2. /\ thread' = thread /\ machine' = machine
      /\ \A k \in Cpus \ {c} : cpu'[k] = cpu[k]
      /\ cpu'[c].queue = cpu[c].queue /\ cpu'[c].current = cpu[c].current
      /\ cpu'[c].previous = cpu[c].previous
      /\ \/ cpu[c].pc = "user" /\ cpu'[c].pc \in {"plan", "leave"}
         \/ cpu[c].pc = "poll" /\ cpu'[c].pc \in {"plan", "poll"}
         \/ cpu[c].pc = "asleep" /\ cpu'[c].pc \in {"plan", "tail"}
  BY DEF TypeOK, CpuType, OnReschedule, At, Interruptible
<1>3. Registers(c)' BY <1>2, Own, Zenon DEF Registers, Threaded, Threadless
<1>4. NoSleep => NoSleep' BY <1>2, Awake, Zenon
<1>5. Shape' /\ (IInv => IInv') BY <1>1, <1>2, <1>3, Standing, Zenon DEF Busy
<1> QED BY <1>1, <1>4, <1>5

\* The return to user code plans when a reschedule was asked for.
LEMMA StepExitToPlan ==
  ASSUME TypeOK, Shape, NEW c \in Cpus, ExitToPlan(c)
  PROVE  /\ TypeOK' /\ Shape' /\ (NoSleep => NoSleep')
         /\ (IInv => IInv')
<1>1. TypeOK'
  BY Names, SetPc DEF TypeOK, ExitToPlan
<1>2. /\ thread' = thread /\ machine' = machine
      /\ \A k \in Cpus \ {c} : cpu'[k] = cpu[k]
      /\ cpu'[c].queue = cpu[c].queue /\ cpu'[c].current = cpu[c].current
      /\ cpu'[c].previous = cpu[c].previous
      /\ cpu[c].pc \in {"exit", "ticked"} /\ cpu'[c].pc = "plan"
  BY DEF TypeOK, CpuType, ExitToPlan, At, Returning
<1>3. Registers(c)' BY <1>2, Own, Zenon DEF Registers, Threaded, Threadless
<1>4. NoSleep => NoSleep' BY <1>2, Awake, Zenon
<1>5. Shape' /\ (IInv => IInv') BY <1>1, <1>2, <1>3, Standing, Zenon DEF Busy
<1> QED BY <1>1, <1>4, <1>5

\* The return to user code goes on to the last look at the stop.
LEMMA StepExitToThread ==
  ASSUME TypeOK, Shape, NEW c \in Cpus, ExitToThread(c)
  PROVE  /\ TypeOK' /\ Shape' /\ (NoSleep => NoSleep')
         /\ (IInv => IInv')
<1>1. TypeOK'
  BY Names, SetPc DEF TypeOK, ExitToThread
<1>2. /\ thread' = thread /\ machine' = machine
      /\ \A k \in Cpus \ {c} : cpu'[k] = cpu[k]
      /\ cpu'[c].queue = cpu[c].queue /\ cpu'[c].current = cpu[c].current
      /\ cpu'[c].previous = cpu[c].previous
      /\ cpu[c].pc \in {"exit", "ticked"} /\ cpu'[c].pc = "leave"
  BY DEF TypeOK, CpuType, ExitToThread, At, Returning
<1>3. Registers(c)' BY <1>2, Own, Zenon DEF Registers, Threaded, Threadless
<1>4. NoSleep => NoSleep' BY <1>2, Awake, Zenon
<1>5. Shape' /\ (IInv => IInv') BY <1>1, <1>2, <1>3, Standing, Zenon DEF Busy
<1> QED BY <1>1, <1>4, <1>5

\* leave_if_dead: a thread that was stopped does not return to user code.
LEMMA StepLeaveIfDead ==
  ASSUME TypeOK, Shape, NEW c \in Cpus, LeaveIfDead(c)
  PROVE  /\ TypeOK' /\ Shape' /\ (NoSleep => NoSleep')
         /\ (IInv => IInv')
<1>1. TypeOK'
  <2>1. cpu[c] \in CpuType BY DEF TypeOK
  <2>2. PICK p \in Pcs : cpu' = [cpu EXCEPT ![c].pc = p] BY Names DEF LeaveIfDead
  <2>3. cpu' \in [Cpus -> CpuType] BY <2>1, <2>2, SetPc DEF TypeOK
  <2>4. \/ thread' = thread
        \/ thread' = [thread EXCEPT ![cpu[c].current].state = "Dead"]
    BY DEF LeaveIfDead
  <2>5. cpu[c].current \in Threads BY Zenon DEF LeaveIfDead, At, Shape, Registers, Threaded
  <2>6. thread' \in [Threads -> ThreadType] BY <2>4, <2>5, StateNames, SetState DEF TypeOK
  <2> QED BY <2>3, <2>6 DEF TypeOK, LeaveIfDead
<1>2. /\ \A k \in Cpus \ {c} : cpu'[k] = cpu[k]
      /\ cpu'[c].queue = cpu[c].queue /\ cpu'[c].current = cpu[c].current
      /\ cpu'[c].previous = cpu[c].previous
      /\ cpu[c].pc = "leave" /\ cpu[c].current \in Threads
      /\ IF thread[cpu[c].current].stop THEN cpu'[c].pc = "plan" ELSE cpu'[c].pc = "user"
  <2>1. PICK p : cpu' = [cpu EXCEPT ![c].pc = p] /\ cpu[c].pc = "leave"
                 /\ p = IF thread[cpu[c].current].stop THEN "plan" ELSE "user"
    BY DEF LeaveIfDead, At
  <2>2. cpu[c].current \in Threads BY <2>1 DEF Shape, Registers, Threaded
  <2> QED BY <2>1, <2>2 DEF TypeOK, CpuType
<1>3. Shape'
  <2>1. Registers(c)' BY <1>2, Own, Zenon DEF Registers, Threaded, Threadless
  <2> QED BY <2>1, <1>2, OwnShape, Zenon
<1>4. NoSleep => NoSleep'
  BY <1>2, Awake, Zenon
<1>5. IInv => IInv'
  <2> SUFFICES ASSUME IInv PROVE IInv' OBVIOUS
  <2>1. TypeOK' /\ Shape' BY <1>1, <1>3
  <2>2. PICK t \in Threads : t = cpu[c].current /\ machine' = machine BY <1>2 DEF IInv, LeaveIfDead
  <2>3. CASE ~thread[t].stop
    <3>1. thread' = thread BY <2>2, <2>3 DEF LeaveIfDead
    <3>2. Quietly(c, {}) BY <2>2, <2>3, <3>1, <1>2, Zenon DEF IInv, Quietly, Busy
    <3> QED BY <3>2, <2>1, Quiet
  <2>4. CASE thread[t].stop
    <3>1. thread' = [thread EXCEPT ![t].state = "Dead"] BY <2>2, <2>4 DEF LeaveIfDead
    <3>2. \A s \in Threads \ {t} : thread'[s] = thread[s] BY <3>1 DEF IInv, TypeOK
    <3>3. Quietly(c, {t}) BY <2>2, <2>4, <3>2, <1>2, Zenon DEF IInv, Quietly, Busy
    <3>4. thread'[t].dom = thread[t].dom /\ thread'[t].state = "Dead" /\ thread'[t].on = thread[t].on
          /\ thread'[t].stop = thread[t].stop /\ thread'[t].resume = thread[t].resume
      BY <2>2, <3>1 DEF IInv, TypeOK, ThreadType
    <3>5. thread[t].dom = "Stopping" BY <2>2, <2>4, Zenon DEF IInv, Life, Belongs
    <3>6. Belongs(t)' BY <3>4, <3>5, Zenon DEF Belongs
    <3>7. Marked(t)'
      <4>1. Marked(t) BY DEF IInv, Held
      <4>2. \A k \in Cpus : (Holds(k, t)' <=> Holds(k, t)) /\ (Claims(k, t)' <=> Claims(k, t))
        BY <3>3, Still
      <4> QED BY <4>1, <4>2, <3>4, MarkedKept, Zenon
    <3>8. Place(t)'
      <4>1. Place(t) BY DEF IInv, Placed
      <4>2. Hands(t)' = Hands(t) /\ \A k \in Cpus : InHand(k, t)' => InHand(k, t) BY <3>3, Still, Zenon
      <4>3. \A k \in Cpus : cpu'[k].current = cpu[k].current /\ cpu'[k].queue = cpu[k].queue
        BY <3>3, Zenon DEF Quietly
      <4>4. thread'[t].dom \notin {"Building", "Runnable"} BY <3>4, <3>5, Zenon
      <4> QED BY <4>1, <4>2, <4>3, <4>4, <3>4, PlaceDead, Zenon
    <3>9. Settles(t)
      <4>1. ASSUME NEW k \in Cpus PROVE ~(At(k, "user")' /\ cpu'[k].current = t)
        <5>1. CASE k = c BY <5>1, <2>2, <2>4, <1>2, Zenon DEF IInv, At
        <5>2. CASE k # c
          <6>1. ~Holds(k, t) BY <5>2, <2>2 DEF Holds, IInv, Held, Marked, Takes
          <6> QED BY <6>1, <5>2, <1>2, Zenon DEF IInv, Holds
        <5> QED BY <5>1, <5>2
      <4>2. thread[t].resume # "user"
        <5>1. Reaches(c, t) BY <2>2, Zenon DEF IInv, Stops
        <5> QED BY <5>1, <2>2, <3>5, <1>2, Zenon DEF Reaches, IInv
      <4>3. \A k \in Cpus : Reaches(k, t)' BY <3>4, <4>2, Zenon DEF Reaches, Unstarted
      <4> QED BY <3>4, <3>6, <3>7, <3>8, <4>1, <4>2, <4>3, Zenon DEF Settles, Unstarted
    <3> QED BY <3>3, <3>9, <2>1, <2>2, Quiet
  <2> QED BY <2>3, <2>4
<1> QED BY <1>1, <1>3, <1>4, <1>5

\* A thread that ends its own domain gives the processor up.
LEMMA StepLeaveStopped ==
  ASSUME TypeOK, Shape, NEW c \in Cpus, LeaveStopped(c)
  PROVE  /\ TypeOK' /\ Shape' /\ (NoSleep => NoSleep')
         /\ (IInv => IInv')
<1>1. TypeOK'
  <2>2. cpu' \in [Cpus -> CpuType] BY Names, SetPc DEF TypeOK, LeaveStopped
  <2>3. thread' \in [Threads -> ThreadType]
    BY StateNames, SetState DEF TypeOK, Shape, Registers, At, Threaded, LeaveStopped
  <2> QED BY <2>2, <2>3 DEF TypeOK, LeaveStopped
<1>2. /\ \A k \in Cpus \ {c} : cpu'[k] = cpu[k]
      /\ cpu'[c].queue = cpu[c].queue /\ cpu'[c].current = cpu[c].current
      /\ cpu'[c].previous = cpu[c].previous
      /\ cpu[c].pc = "user" /\ cpu'[c].pc = "plan" /\ cpu[c].current \in Threads
  <2>1. cpu[c].pc = "user" BY DEF LeaveStopped, At
  <2> QED BY <2>1 DEF TypeOK, CpuType, LeaveStopped, Shape, Registers, Threaded
<1>3. Shape'
  <2>1. Registers(c)' BY <1>2, Own, Zenon DEF Registers, Threaded, Threadless
  <2> QED BY <2>1, <1>2, OwnShape, Zenon
<1>4. NoSleep => NoSleep'
  BY <1>2, Awake, Zenon
<1>5. IInv => IInv'
  <2> SUFFICES ASSUME IInv PROVE IInv' OBVIOUS
  <2>1. TypeOK' /\ Shape' BY <1>1, <1>3
  <2>2. PICK t \in Threads : t = cpu[c].current /\ machine' = machine
          /\ thread[t].dom \notin {"Building", "Runnable"}
    BY <1>2 DEF IInv, LeaveStopped
  <2>3. thread' = [thread EXCEPT ![t].state = "Dead"] BY <2>2, Zenon DEF LeaveStopped
  <2>4. \A s \in Threads \ {t} : thread'[s] = thread[s] BY <2>3 DEF IInv, TypeOK
  <2>5. Quietly(c, {t}) BY <2>2, <2>4, <1>2, Zenon DEF IInv, Quietly, Busy
  <2>6. thread'[t].dom = thread[t].dom /\ thread'[t].state = "Dead" /\ thread'[t].on = thread[t].on
        /\ thread'[t].stop = thread[t].stop /\ thread'[t].resume = thread[t].resume
    BY <2>2, <2>3 DEF IInv, TypeOK, ThreadType
  <2>7. Holds(c, t) /\ thread[t].dom # "Empty"
    BY <2>2, Zenon DEF Holds, IInv, Held, Marked
  <2>8. Belongs(t)' BY <2>2, <2>6, <2>7, Zenon DEF Belongs, IInv, Life
  <2>9. Marked(t)'
    <3>1. Marked(t) BY DEF IInv, Held
    <3>2. \A k \in Cpus : (Holds(k, t)' <=> Holds(k, t)) /\ (Claims(k, t)' <=> Claims(k, t))
      BY <2>5, Still
    <3> QED BY <3>1, <3>2, <2>6, MarkedKept
  <2>10. Place(t)'
    <3>1. Place(t) BY DEF IInv, Placed
    <3>2. Hands(t)' = Hands(t) /\ \A k \in Cpus : InHand(k, t)' => InHand(k, t) BY <2>5, Still
    <3>3. \A k \in Cpus : cpu'[k].current = cpu[k].current /\ cpu'[k].queue = cpu[k].queue
      BY <2>5 DEF Quietly
    <3>4. thread'[t].dom \notin {"Building", "Runnable"} BY <2>2, <2>6, Zenon
    <3> QED BY <3>1, <3>2, <3>3, <3>4, <2>6, PlaceDead
  <2>11. Settles(t)
    <3>1. ASSUME NEW k \in Cpus PROVE ~(At(k, "user")' /\ cpu'[k].current = t)
      <4>1. CASE k = c BY <4>1, <1>2, Zenon DEF IInv, At
      <4>2. CASE k # c
        <5>1. ~Holds(k, t) BY <4>2, <2>7, Zenon DEF IInv, Held, Marked, Takes
        <5> QED BY <5>1, <4>2, <1>2, Zenon DEF IInv, Holds
      <4> QED BY <4>1, <4>2
    <3>2. thread[t].resume # "user" \/ thread[t].dom = "Dead"
      <4>1. Reaches(c, t) BY <2>2, Zenon DEF IInv, Stops
      <4> QED BY <4>1, <2>2, <1>2, Zenon DEF Reaches, IInv
    <3>3. ~Unstarted(t)' BY <3>2, <2>6, Zenon DEF Unstarted, IInv, Life, Belongs
    <3>4. \A k \in Cpus : Reaches(k, t)' BY <2>6, <3>2, <3>3, Zenon DEF Reaches
    <3> QED BY <2>6, <2>8, <2>9, <2>10, <3>1, <3>3, <3>4, Zenon DEF Settles
  <2> QED BY <2>5, <2>11, <2>1, <2>2, Quiet, Zenon
<1> QED BY <1>1, <1>3, <1>4, <1>5

\* create_thread takes a slot nobody was given.
LEMMA StepCreate ==
  ASSUME TypeOK, Shape, NEW c \in Cpus, NEW t \in Threads, Create(c, t)
  PROVE  /\ TypeOK' /\ Shape' /\ (NoSleep => NoSleep')
         /\ (IInv /\ ~Reuse => IInv')
<1>1. TypeOK'
  <2>1. thread' \in [Threads -> ThreadType] BY Cells, StateNames DEF TypeOK, Create
  <2>2. cpu' \in [Cpus -> CpuType] BY Names, SetPc DEF TypeOK, Create
  <2> QED BY <2>1, <2>2 DEF TypeOK, Create
<1>2. /\ \A k \in Cpus \ {c} : cpu'[k] = cpu[k]
      /\ cpu'[c].queue = cpu[c].queue /\ cpu'[c].current = cpu[c].current
      /\ cpu'[c].previous = cpu[c].previous
      /\ cpu[c].pc = "user" /\ cpu'[c].pc = "exit"
  <2>1. cpu[c].pc = "user" BY DEF Create, Calls, At
  <2>2. cpu' = [cpu EXCEPT ![c].pc = "exit"] BY DEF Create
  <2> QED BY <2>1, <2>2 DEF TypeOK, CpuType
<1>3. Shape'
  <2>1. Registers(c)' BY <1>2, Own, Zenon DEF Registers, Threaded, Threadless
  <2> QED BY <2>1, <1>2, OwnShape, Zenon
<1>4. NoSleep => NoSleep'
  BY <1>2, Awake, Zenon
<1>5. IInv /\ ~Reuse => IInv'
  <2> SUFFICES ASSUME IInv, ~Reuse PROVE IInv' OBVIOUS
  <2>1. TypeOK' /\ Shape' BY <1>1, <1>3
  <2>2. thread[t].dom = "Empty" /\ machine' = machine /\ machine = None BY DEF Create, Calls
  <2>3. \A s \in Threads \ {t} : thread'[s] = thread[s] BY DEF IInv, TypeOK, Create
  <2>4. Quietly(c, {t}) BY <2>2, <2>3, <1>2, Zenon DEF IInv, Quietly, Busy
  <2>5. thread'[t].dom = "Building" /\ thread'[t].state = "Held" /\ thread'[t].on = None
        /\ thread'[t].stop = FALSE /\ thread'[t].resume = "user"
    BY DEF IInv, TypeOK, Create, ThreadCell
  <2>6. Hands(t) = {} /\ \A k \in Cpus : ~Holds(k, t)
    BY <2>2, Zenon DEF IInv, Life, Belongs, Held, Marked
  <2>7. \A k \in Cpus : ~Takes(k, t) BY <2>6, Zenon DEF Takes, Claims, Hands
  <2>8. Hands(t)' = {} /\ \A k \in Cpus : ~Holds(k, t)' /\ ~Claims(k, t)'
    BY <2>4, <2>6, <2>7, Still, Zenon DEF Takes
  <2>9. Belongs(t)' BY <2>5, <2>8, Zenon DEF Belongs
  <2>10. Marked(t)' BY <2>8, Zenon DEF Marked, Takes
  <2>11. Place(t)' BY <2>5, <2>8, Zenon DEF Place, Preempts, Holds, Hands, InHand
  <2>12. \A k \in Cpus : Reaches(k, t)' BY <2>5, <2>8, Zenon DEF Reaches, Unstarted, Holds
  <2>13. Settles(t) BY <2>2, <2>5, <2>9, <2>10, <2>11, <2>12, Zenon DEF Settles, Unstarted
  <2> QED BY <2>1, <2>4, <2>13, Quiet, Zenon
<1> QED BY <1>1, <1>3, <1>4, <1>5

\* activate_in makes a domain runnable and wakes the thread it holds back.
LEMMA StepActivate ==
  ASSUME TypeOK, Shape, NEW c \in Cpus, NEW t \in Threads, Activate(c, t)
  PROVE  /\ TypeOK' /\ Shape' /\ (NoSleep => NoSleep')
         /\ (IInv => IInv')
<1>1. TypeOK'
  <2>1. thread' \in [Threads -> ThreadType] BY SetDom, StateNames DEF TypeOK, Activate
  <2>2. cpu' \in [Cpus -> CpuType] /\ machine' \in Cpus \cup {None}
    <3>1. CASE thread[t].state = "Held"
      <4>1. cpu' = [cpu EXCEPT ![c].pc = "wake", ![c].arg = t, ![c].sync = FALSE,
                               ![c].ret = "flush"]
        BY <3>1, Zenon DEF Activate
      <4>2. cpu' \in [Cpus -> CpuType] BY <4>1, Names, SetPc, SetArg, SetSync, SetRet, Zenon DEF TypeOK
      <4> QED BY <4>2, <3>1 DEF Activate
    <3>2. CASE thread[t].state # "Held"
      <4>1. cpu' = [cpu EXCEPT ![c].pc = "exit"] BY <3>2 DEF Activate
      <4>2. cpu' \in [Cpus -> CpuType] BY <4>1, Names, SetPc DEF TypeOK
      <4> QED BY <4>2, <3>2 DEF Activate, TypeOK
    <3> QED BY <3>1, <3>2, Zenon
  <2> QED BY <2>1, <2>2, Zenon DEF TypeOK
<1>2. /\ \A k \in Cpus \ {c} : cpu'[k] = cpu[k]
      /\ cpu'[c].queue = cpu[c].queue /\ cpu'[c].current = cpu[c].current
      /\ cpu'[c].previous = cpu[c].previous
      /\ cpu[c].pc = "user"
      /\ \/ cpu'[c].pc = "exit"
         \/ cpu'[c].pc = "wake" /\ cpu'[c].arg = t
  <2>1. cpu[c].pc = "user" BY DEF Activate, Calls, At
  <2>2. \/ cpu' = [cpu EXCEPT ![c].pc = "wake", ![c].arg = t, ![c].sync = FALSE,
                              ![c].ret = "flush"]
        \/ cpu' = [cpu EXCEPT ![c].pc = "exit"]
    BY Zenon DEF Activate
  <2>3. CASE cpu' = [cpu EXCEPT ![c].pc = "wake", ![c].arg = t, ![c].sync = FALSE,
                                ![c].ret = "flush"]
    BY <2>1, <2>3 DEF TypeOK, CpuType
  <2>4. CASE cpu' = [cpu EXCEPT ![c].pc = "exit"]
    <3>1. /\ \A k \in Cpus \ {c} : cpu'[k] = cpu[k]
          /\ cpu'[c].queue = cpu[c].queue /\ cpu'[c].current = cpu[c].current
          /\ cpu'[c].previous = cpu[c].previous
          /\ cpu'[c].pc = "exit"
      BY <2>4 DEF TypeOK, CpuType
    <3> QED BY <2>1, <3>1, Zenon
  <2> QED BY <2>2, <2>3, <2>4, Zenon
<1>3. Shape'
  <2>1. Registers(c)' BY <1>2, Own, Zenon DEF Registers, Threaded, Threadless
  <2> QED BY <2>1, <1>2, OwnShape, Zenon
<1>4. NoSleep => NoSleep'
  BY <1>2, Awake, Zenon
<1>5. IInv => IInv'
  <2> SUFFICES ASSUME IInv PROVE IInv' OBVIOUS
  <2>1. TypeOK' /\ Shape' BY <1>1, <1>3
  <2>2. thread[t].dom = "Building" /\ machine = None BY DEF Activate, Calls
  <2>3. \A s \in Threads \ {t} : thread'[s] = thread[s] BY DEF IInv, TypeOK, Activate
  <2>4. Quietly(c, {t}) BY <2>2, <2>3, <1>2, Zenon DEF IInv, Quietly, Busy
  <2>5. thread'[t].dom = "Runnable" /\ thread'[t].state = thread[t].state /\ thread'[t].on = thread[t].on
        /\ thread'[t].stop = thread[t].stop /\ thread'[t].resume = thread[t].resume
    BY DEF IInv, TypeOK, ThreadType, Activate
  <2>6. ~thread[t].stop BY <2>2, Zenon DEF IInv, Life, Belongs
  <2>9. Belongs(t)' BY <2>5, <2>6, Zenon DEF Belongs, IInv, Life
  <2>10. Marked(t)' BY <2>2, <2>4, <2>5, Still, Zenon DEF IInv, Held, Marked, Takes
  <2>11. Place(t)'
    <3>1. \A k \in Cpus : Preempts(k, t)' <=> Preempts(k, t) BY <2>4, <2>5 DEF Preempts, Quietly, Busy
    <3>2. \A k \in Cpus : cpu'[k].queue = cpu[k].queue /\ cpu'[k].current = cpu[k].current
      BY <2>4, Zenon DEF Quietly
    <3>3. Place(t) BY DEF IInv, Placed
    <3> QED BY <2>2, <2>4, <2>5, <3>1, <3>2, <3>3, Still, ZenonT(30) DEF Place
  <2>12. \A k \in Cpus : Reaches(k, t)'
    <3>1. ASSUME NEW k \in Cpus PROVE Reaches(k, t)'
      <4>1. Reaches(k, t) BY Zenon DEF IInv, Stops
      <4> QED BY <4>1, <2>2, <2>4, <2>5, <2>6, Still, ZenonT(30) DEF Reaches, Unstarted, Quietly, Busy
    <3> QED BY <3>1
  <2>13. Settles(t) BY <2>2, <2>5, <2>6, <2>9, <2>10, <2>11, <2>12, Zenon DEF Settles, Unstarted
  <2> QED BY <2>1, <2>4, <2>13, Quiet, Zenon
<1> QED BY <1>1, <1>3, <1>4, <1>5

\* The reaper finds no domain to reap.
LEMMA StepReaped ==
  ASSUME TypeOK, Shape, NEW c \in Cpus, Reaped(c)
  PROVE  /\ TypeOK' /\ Shape' /\ (NoSleep => NoSleep')
         /\ (IInv => IInv')
<1>1. TypeOK'
  BY Names, SetPc DEF TypeOK, Reaped
<1>2. /\ thread' = thread /\ machine' = machine
      /\ \A k \in Cpus \ {c} : cpu'[k] = cpu[k]
      /\ cpu'[c].queue = cpu[c].queue /\ cpu'[c].current = cpu[c].current
      /\ cpu'[c].previous = cpu[c].previous
      /\ cpu[c].pc = "reap" /\ cpu'[c].pc = (IF cpu[c].current = Idle THEN "expire" ELSE "exit")
  BY DEF TypeOK, CpuType, Reaped, At
<1>3. Registers(c)' BY <1>2, Own, Zenon DEF Registers, Threaded, Threadless
<1>4. NoSleep => NoSleep' BY <1>2, Awake, Zenon
<1>5. Shape' /\ (IInv => IInv') BY <1>1, <1>2, <1>3, Standing, Zenon DEF Busy
<1> QED BY <1>1, <1>4, <1>5

\* poll_before_halt marks the processor as polling, unless it is throttled.
LEMMA StepPoll ==
  ASSUME TypeOK, Shape, NEW c \in Cpus, Poll(c)
  PROVE  /\ TypeOK' /\ Shape' /\ (NoSleep => NoSleep')
         /\ (IInv => IInv')
<1>1. TypeOK'
  BY Names, SetIdle, SetPc, Zenon DEF TypeOK, Poll
<1>2. /\ thread' = thread /\ machine' = machine
      /\ \A k \in Cpus \ {c} : cpu'[k] = cpu[k]
      /\ cpu'[c].queue = cpu[c].queue /\ cpu'[c].current = cpu[c].current
      /\ cpu'[c].previous = cpu[c].previous
      /\ cpu[c].pc = "idle" /\ cpu'[c].pc \in {"halt", "poll"}
  BY DEF TypeOK, CpuType, Poll, At
<1>3. Registers(c)' BY <1>2, Own, Zenon DEF Registers, Threaded, Threadless
<1>4. NoSleep => NoSleep' BY <1>2, Awake, Zenon
<1>5. Shape' /\ (IInv => IInv') BY <1>1, <1>2, <1>3, Standing, Zenon DEF Busy
<1> QED BY <1>1, <1>4, <1>5

\* The poll finds work of its own, or something to steal.
LEMMA StepPolled ==
  ASSUME TypeOK, Shape, NEW c \in Cpus, Polled(c)
  PROVE  /\ TypeOK' /\ Shape' /\ (NoSleep => NoSleep')
         /\ (IInv => IInv')
<1>1. TypeOK'
  BY Names, SetIdle, SetPc, Zenon DEF TypeOK, Polled
<1>2. /\ thread' = thread /\ machine' = machine
      /\ \A k \in Cpus \ {c} : cpu'[k] = cpu[k]
      /\ cpu'[c].queue = cpu[c].queue /\ cpu'[c].current = cpu[c].current
      /\ cpu'[c].previous = cpu[c].previous
      /\ cpu[c].pc = "poll" /\ cpu'[c].pc \in {"turn", "polled"}
  BY DEF TypeOK, CpuType, Polled, At
<1>3. Registers(c)' BY <1>2, Own, Zenon DEF Registers, Threaded, Threadless
<1>4. NoSleep => NoSleep' BY <1>2, Awake, Zenon
<1>5. Shape' /\ (IInv => IInv') BY <1>1, <1>2, <1>3, Standing, Zenon DEF Busy
<1> QED BY <1>1, <1>4, <1>5

\* The poll ends with nothing found.
LEMMA StepPolledOut ==
  ASSUME TypeOK, Shape, NEW c \in Cpus, PolledOut(c)
  PROVE  /\ TypeOK' /\ Shape' /\ (NoSleep => NoSleep')
         /\ (IInv => IInv')
<1>1. TypeOK'
  BY Names, SetIdle, SetPc, Zenon DEF TypeOK, PolledOut
<1>2. /\ thread' = thread /\ machine' = machine
      /\ \A k \in Cpus \ {c} : cpu'[k] = cpu[k]
      /\ cpu'[c].queue = cpu[c].queue /\ cpu'[c].current = cpu[c].current
      /\ cpu'[c].previous = cpu[c].previous
      /\ cpu[c].pc = "poll" /\ cpu'[c].pc = "halt"
  BY DEF TypeOK, CpuType, PolledOut, At
<1>3. Registers(c)' BY <1>2, Own, Zenon DEF Registers, Threaded, Threadless
<1>4. NoSleep => NoSleep' BY <1>2, Awake, Zenon
<1>5. Shape' /\ (IInv => IInv') BY <1>1, <1>2, <1>3, Standing, Zenon DEF Busy
<1> QED BY <1>1, <1>4, <1>5

\* There was nothing to steal after all.
LEMMA StepStealNothing ==
  ASSUME TypeOK, Shape, NEW c \in Cpus, StealNothing(c)
  PROVE  /\ TypeOK' /\ Shape' /\ (NoSleep => NoSleep')
         /\ (IInv => IInv')
<1>1. TypeOK'
  BY Names, SetPc DEF TypeOK, StealNothing
<1>2. /\ thread' = thread /\ machine' = machine
      /\ \A k \in Cpus \ {c} : cpu'[k] = cpu[k]
      /\ cpu'[c].queue = cpu[c].queue /\ cpu'[c].current = cpu[c].current
      /\ cpu'[c].previous = cpu[c].previous
      /\ cpu[c].pc = "polled" /\ cpu'[c].pc = "turn"
  BY DEF TypeOK, CpuType, StealNothing, At
<1>3. Registers(c)' BY <1>2, Own, Zenon DEF Registers, Threaded, Threadless
<1>4. NoSleep => NoSleep' BY <1>2, Awake, Zenon
<1>5. Shape' /\ (IInv => IInv') BY <1>1, <1>2, <1>3, Standing, Zenon DEF Busy
<1> QED BY <1>1, <1>4, <1>5

\* halt marks the processor as halted before it looks at its queue.
LEMMA StepHalt ==
  ASSUME TypeOK, Shape, NEW c \in Cpus, Halt(c)
  PROVE  /\ TypeOK' /\ Shape' /\ (NoSleep => NoSleep')
         /\ (IInv => IInv')
<1>1. TypeOK'
  BY Names, SetIdle, SetPc, Zenon DEF TypeOK, Halt
<1>2. /\ thread' = thread /\ machine' = machine
      /\ \A k \in Cpus \ {c} : cpu'[k] = cpu[k]
      /\ cpu'[c].queue = cpu[c].queue /\ cpu'[c].current = cpu[c].current
      /\ cpu'[c].previous = cpu[c].previous
      /\ cpu[c].pc = "halt" /\ cpu'[c].pc = "check" /\ cpu'[c].idle = "halted"
  BY DEF TypeOK, CpuType, Halt, At
<1>3. Registers(c)' BY <1>2, Own, Zenon DEF Registers, Threaded, Threadless
<1>4. NoSleep => NoSleep' BY <1>2, Awake, Zenon
<1>5. Shape' /\ (IInv => IInv') BY <1>1, <1>2, <1>3, Standing, Zenon DEF Busy
<1> QED BY <1>1, <1>4, <1>5

\* halt sleeps only when the look after the mark found no work, or when the
\* processor is throttled.
LEMMA StepHaltCheck ==
  ASSUME TypeOK, Shape, NEW c \in Cpus, HaltCheck(c)
  PROVE  /\ TypeOK' /\ Shape' /\ (NoSleep => NoSleep')
         /\ (IInv => IInv')
<1>1. TypeOK'
  BY Names, SetPc DEF TypeOK, HaltCheck
<1>2. /\ thread' = thread /\ machine' = machine
      /\ \A k \in Cpus \ {c} : cpu'[k] = cpu[k]
      /\ cpu'[c].queue = cpu[c].queue /\ cpu'[c].current = cpu[c].current
      /\ cpu'[c].previous = cpu[c].previous
      /\ cpu[c].pc = "check" /\ cpu'[c].pc \in {"asleep", "tail"}
      /\ cpu'[c].idle = cpu[c].idle /\ cpu'[c].throttled = cpu[c].throttled
      /\ (cpu'[c].pc = "asleep" => cpu[c].throttled \/ cpu[c].queue = {})
  BY DEF TypeOK, CpuType, HaltCheck, At, has_local_work
<1>3. Registers(c)' BY <1>2, Own, Zenon DEF Registers, Threaded, Threadless
<1>4. NoSleep => NoSleep' BY <1>2, Awake, Zenon
<1>5. Shape' /\ (IInv => IInv') BY <1>1, <1>2, <1>3, Standing, Zenon DEF Busy
<1> QED BY <1>1, <1>4, <1>5

\* The end of a halt takes the mark away.
LEMMA StepHaltTail ==
  ASSUME TypeOK, Shape, NEW c \in Cpus, HaltTail(c)
  PROVE  /\ TypeOK' /\ Shape' /\ (NoSleep => NoSleep')
         /\ (IInv => IInv')
<1>1. TypeOK'
  BY Names, SetIdle, SetPc, Zenon DEF TypeOK, HaltTail
<1>2. /\ thread' = thread /\ machine' = machine
      /\ \A k \in Cpus \ {c} : cpu'[k] = cpu[k]
      /\ cpu'[c].queue = cpu[c].queue /\ cpu'[c].current = cpu[c].current
      /\ cpu'[c].previous = cpu[c].previous
      /\ cpu[c].pc = "tail" /\ cpu'[c].pc = "turn"
  BY DEF TypeOK, CpuType, HaltTail, At
<1>3. Registers(c)' BY <1>2, Own, Zenon DEF Registers, Threaded, Threadless
<1>4. NoSleep => NoSleep' BY <1>2, Awake, Zenon
<1>5. Shape' /\ (IInv => IInv') BY <1>1, <1>2, <1>3, Standing, Zenon DEF Busy
<1> QED BY <1>1, <1>4, <1>5

\* The reaper resets the slot of a stopped thread that no processor stands on.
LEMMA StepReap ==
  ASSUME TypeOK, Shape, NEW c \in Cpus, NEW t \in Threads, Reap(c, t)
  PROVE  /\ TypeOK' /\ Shape' /\ (NoSleep => NoSleep')
         /\ (IInv => IInv')
<1>1. TypeOK'
  <2>1. thread' \in [Threads -> ThreadType] BY Cells, StateNames DEF TypeOK, Reap
  <2> QED BY <2>1, Zenon DEF TypeOK, Reap
<1>2. cpu' = cpu BY DEF Reap
<1>3. Shape' BY <1>2, Zenon DEF Shape, Registers
<1>4. NoSleep => NoSleep' BY <1>2 DEF NoSleep, At
<1>5. IInv => IInv'
  <2> SUFFICES ASSUME IInv PROVE IInv' OBVIOUS
  <2>1. TypeOK' /\ Shape' BY <1>1, <1>3
  <2>2. thread[t].dom = "Stopping" /\ ~standing_on(t) /\ machine' = machine /\ machine = None /\ cpu' = cpu
        /\ cpu[c].pc = "reap"
    BY Zenon DEF Reap, reapable, At
  <2>3. \A s \in Threads \ {t} : thread'[s] = thread[s] BY Zenon DEF IInv, TypeOK, Reap
  <2>4. Quietly(c, {t}) BY <2>2, <2>3, Zenon DEF IInv, Quietly, Busy
  <2>5. thread'[t].dom = "Dead" /\ thread'[t].state = "Empty" /\ thread'[t].on = None
        /\ thread'[t].stop = FALSE /\ thread'[t].resume = "user"
    BY Zenon DEF IInv, TypeOK, Reap, ThreadCell
  <2>6. \A k \in Cpus : cpu[k].current # t BY <2>2, Zenon DEF standing_on
  <2>9. Belongs(t)' BY <2>5, Zenon DEF Belongs
  <2>10. Marked(t)' BY <2>4, <2>5, Still, Zenon DEF IInv, Held, Marked, Takes
  <2>11. Place(t)'
    <3>1. Place(t) /\ Hands(t)' = Hands(t) /\ \A k \in Cpus : InHand(k, t)' <=> InHand(k, t)
      BY <2>4, Still, Zenon DEF IInv, Placed
    <3>2. \A k \in Cpus : InHand(k, t)' => t \notin cpu'[k].queue BY <2>2, <3>1, Zenon DEF Place
    <3>3. \A a, b \in Hands(t)' : a = b BY <3>1, Zenon DEF Place
    <3> QED BY <2>2, <2>5, <2>6, <3>2, <3>3, Zenon DEF Place
  <2>12. \A k \in Cpus : Reaches(k, t)' BY <2>5, Zenon DEF Reaches, Unstarted
  <2>13. Settles(t) BY <2>2, <2>5, <2>9, <2>10, <2>11, <2>12, Zenon DEF Settles, Unstarted
  <2> QED BY <2>1, <2>4, <2>13, Quiet
<1> QED BY <1>1, <1>3, <1>4, <1>5

\* wake makes the thread ready and queues it, unless it was stopped meanwhile; when
\* it queued it at another processor it still has to look at that one's mark.
LEMMA StepWake ==
  ASSUME TypeOK, Shape, NEW c \in Cpus, Wake(c)
  PROVE  /\ TypeOK' /\ Shape' /\ (NoSleep => NoSleep')
         /\ (IInv => IInv')
<1>1. TypeOK'
  <2> DEFINE t == cpu[c].arg
  <2>1. t \in Threads BY Zenon DEF Wake, Shape, Registers, At
  <2>2. cpu[c] \in CpuType /\ Unlocked(c) \in Cpus \cup {None} BY Returned, Zenon DEF TypeOK
  <2>3. CASE thread[t].state \notin {"Blocked", "Held"}
    BY <2>3, Returned, Zenon DEF Wake, TypeOK
  <2>4. CASE thread[t].state \in {"Blocked", "Held"}
    <3>0. thread' = [thread EXCEPT ![t].state = "Ready"] BY <2>4, Zenon DEF Wake
    <3>1. thread' \in [Threads -> ThreadType] BY <2>1, <3>0, StateNames, SetState DEF TypeOK
    <3>2. PICK k \in Cpus :
           IF k = c
           THEN /\ cpu' = [cpu EXCEPT ![c] =
                            [WakeReturned(c) EXCEPT !.queue = @ \cup {t},
                               !.hint = IF cpu[c].sync THEN t ELSE @,
                               !.resched = @ \/ ~cpu[c].sync]]
                /\ machine' = Unlocked(c)
           ELSE /\ cpu' = [cpu EXCEPT ![k].queue = @ \cup {t},
                            ![c].pc = "look", ![c].aim = k, ![c].arg = None]
                /\ UNCHANGED machine
      BY <2>4, Zenon DEF Wake, Targets, IdleFor, IdleMask
    <3>3. CASE k = c
      <4>1. PICK q \in SUBSET Threads, h \in Threads \cup {None}, b \in BOOLEAN :
              cpu' = [cpu EXCEPT ![c] = [WakeReturned(c) EXCEPT !.queue = q, !.hint = h, !.resched = b]]
        <5>1. WakeReturned(c) \in CpuType BY Returned, Zenon
        <5>2. WakeReturned(c).queue \cup {t} \in SUBSET Threads BY <5>1, <2>1, CpuFields
        <5>3. (IF cpu[c].sync THEN t ELSE WakeReturned(c).hint) \in Threads \cup {None}
          BY <5>1, <2>1, CpuFields
        <5>4. (WakeReturned(c).resched \/ ~cpu[c].sync) \in BOOLEAN OBVIOUS
        <5> QED BY <3>2, <3>3, <5>2, <5>3, <5>4, Zenon
      <4>2. cpu' \in [Cpus -> CpuType] BY <4>1, Returned, Zenon DEF TypeOK
      <4> QED BY <4>2, <3>1, <3>2, <3>3, <2>2 DEF TypeOK
    <3>4. CASE k # c
      <4>1. cpu[k].queue \cup {t} \in SUBSET Threads BY <2>1, CpuFields DEF TypeOK
      <4>0. cpu' = [cpu EXCEPT ![k].queue = @ \cup {t}, ![c].pc = "look", ![c].aim = k,
                              ![c].arg = None]
        BY <3>2, <3>4, Zenon
      <4>2. cpu' \in [Cpus -> CpuType] BY <4>0, <4>1, Names, SetQueue, SetPc, SetAim, SetArg, Zenon DEF TypeOK
      <4> QED BY <4>2, <3>1, <3>2, <3>4 DEF TypeOK
    <3> QED BY <3>3, <3>4
  <2> QED BY <2>3, <2>4
<1>2. \E t \in Threads :
        /\ t = cpu[c].arg /\ cpu[c].pc = "wake" /\ thread[t].on = None
        /\ \/ /\ thread[t].state \notin {"Blocked", "Held"} /\ thread' = thread
              /\ \A k \in Cpus \ {c} : cpu'[k] = cpu[k]
              /\ cpu'[c].queue = cpu[c].queue /\ cpu'[c].current = cpu[c].current
              /\ cpu'[c].previous = cpu[c].previous
              /\ cpu'[c].pc \in {"flush", "expire"}
           \/ /\ thread[t].state \in {"Blocked", "Held"}
              /\ thread' = [thread EXCEPT ![t].state = "Ready"]
              /\ \E h \in Cpus :
                   /\ cpu'[h].queue = cpu[h].queue \cup {t}
                   /\ \A k \in Cpus \ {h} : cpu'[k].queue = cpu[k].queue
                   /\ \A k \in Cpus \ {c} :
                        /\ cpu'[k].pc = cpu[k].pc /\ cpu'[k].arg = cpu[k].arg
                        /\ cpu'[k].aim = cpu[k].aim /\ cpu'[k].ipi = cpu[k].ipi
                        /\ cpu'[k].idle = cpu[k].idle /\ cpu'[k].throttled = cpu[k].throttled
                   /\ \A k \in Cpus :
                        /\ cpu'[k].current = cpu[k].current
                        /\ cpu'[k].previous = cpu[k].previous
                   /\ IF h = c THEN cpu'[c].pc \in {"flush", "expire"}
                               ELSE cpu'[c].pc = "look" /\ cpu'[c].aim = h
        /\ machine' \in {machine, Unlocked(c)}
  <2>1. PICK t \in Threads : t = cpu[c].arg BY Zenon DEF Wake, Shape, Registers, At
  <2>2. cpu[c].pc = "wake" /\ thread[t].on = None /\ machine' \in {machine, Unlocked(c)}
    BY <2>1, Zenon DEF Wake, At
  <2>3. cpu[c].ret \in {"flush", "expire"} /\ cpu[c] \in CpuType BY CpuFields DEF TypeOK
  <2>4. /\ WakeReturned(c).queue = cpu[c].queue /\ WakeReturned(c).current = cpu[c].current
        /\ WakeReturned(c).previous = cpu[c].previous /\ WakeReturned(c).pc = cpu[c].ret
    BY <2>3 DEF WakeReturned, CpuType
  <2>5. CASE thread[t].state \notin {"Blocked", "Held"}
    <3>1. cpu' = [cpu EXCEPT ![c] = WakeReturned(c)] /\ thread' = thread BY <2>1, <2>5, Zenon DEF Wake
    <3>2. cpu'[c] = WakeReturned(c) /\ \A k \in Cpus \ {c} : cpu'[k] = cpu[k] BY <3>1 DEF TypeOK
    <3> QED BY <2>1, <2>2, <2>3, <2>4, <2>5, <3>1, <3>2
  <2>6. CASE thread[t].state \in {"Blocked", "Held"}
    <3>1. thread' = [thread EXCEPT ![t].state = "Ready"] BY <2>1, <2>6, Zenon DEF Wake
    <3>2. PICK h \in Cpus :
           IF h = c
           THEN cpu' = [cpu EXCEPT ![c] =
                            [WakeReturned(c) EXCEPT !.queue = @ \cup {t},
                               !.hint = IF cpu[c].sync THEN t ELSE @,
                               !.resched = @ \/ ~cpu[c].sync]]
           ELSE cpu' = [cpu EXCEPT ![h].queue = @ \cup {t},
                            ![c].pc = "look", ![c].aim = h, ![c].arg = None]
      BY <2>1, <2>6, Zenon DEF Wake, Targets, IdleFor, IdleMask
    <3>3. CASE h = c
      <4>1. WakeReturned(c) \in CpuType BY Returned, Zenon
      <4>2. cpu'[c] = [WakeReturned(c) EXCEPT !.queue = @ \cup {t},
                               !.hint = IF cpu[c].sync THEN t ELSE @,
                               !.resched = @ \/ ~cpu[c].sync]
            /\ \A k \in Cpus \ {c} : cpu'[k] = cpu[k]
        BY <3>2, <3>3 DEF TypeOK
      <4>3. cpu'[c].queue = cpu[c].queue \cup {t} /\ cpu'[c].current = cpu[c].current
            /\ cpu'[c].previous = cpu[c].previous /\ cpu'[c].pc \in {"flush", "expire"}
        BY <4>1, <4>2, <2>3, <2>4 DEF CpuType
      <4> QED BY <2>1, <2>2, <2>6, <3>1, <3>3, <4>2, <4>3, Zenon
    <3>4. CASE h # c
      <4>1. cpu' = [cpu EXCEPT ![h].queue = @ \cup {t},
                            ![c].pc = "look", ![c].aim = h, ![c].arg = None]
        BY <3>2, <3>4, Zenon
      <4>2. cpu'[c] = [cpu[c] EXCEPT !.pc = "look", !.aim = h, !.arg = None]
            /\ cpu'[h] = [cpu[h] EXCEPT !.queue = @ \cup {t}]
            /\ \A k \in Cpus \ {c, h} : cpu'[k] = cpu[k]
        BY <4>1, <3>4, Zenon DEF TypeOK
      <4>3. /\ cpu'[c].queue = cpu[c].queue /\ cpu'[c].current = cpu[c].current
            /\ cpu'[c].previous = cpu[c].previous /\ cpu'[c].pc = "look" /\ cpu'[c].aim = h
        BY <4>2, <2>3 DEF CpuType
      <4>4. /\ cpu'[h].queue = cpu[h].queue \cup {t} /\ cpu'[h].current = cpu[h].current
            /\ cpu'[h].previous = cpu[h].previous /\ cpu'[h].pc = cpu[h].pc
            /\ cpu'[h].arg = cpu[h].arg /\ cpu'[h].aim = cpu[h].aim /\ cpu'[h].ipi = cpu[h].ipi
            /\ cpu'[h].idle = cpu[h].idle /\ cpu'[h].throttled = cpu[h].throttled
        BY <4>2 DEF TypeOK, CpuType
      <4>5. \A k \in Cpus \ {h} : cpu'[k].queue = cpu[k].queue BY <4>2, <4>3, Zenon
      <4>6. \A k \in Cpus : cpu'[k].current = cpu[k].current /\ cpu'[k].previous = cpu[k].previous
        BY <4>2, <4>3, <4>4, Zenon
      <4>7. \A k \in Cpus \ {c} :
                             /\ cpu'[k].pc = cpu[k].pc /\ cpu'[k].arg = cpu[k].arg
                             /\ cpu'[k].aim = cpu[k].aim /\ cpu'[k].ipi = cpu[k].ipi
                             /\ cpu'[k].idle = cpu[k].idle /\ cpu'[k].throttled = cpu[k].throttled
        BY <4>2, <4>4, Zenon
      <4> QED BY <2>1, <2>2, <2>6, <3>1, <3>4, <4>3, <4>4, <4>5, <4>6, <4>7, Zenon
    <3> QED BY <3>3, <3>4, Zenon
  <2> QED BY <2>5, <2>6, Zenon
<1>3. Shape'
  <2>1. PICK t \in Threads : t = cpu[c].arg /\ cpu[c].pc = "wake" BY <1>2, Zenon
  <2>2. cpu'[c].previous = None BY <1>2, <2>1 DEF Shape, Registers
  <2>3. cpu'[c].pc \in {"flush", "expire"} \/ (cpu'[c].pc = "look" /\ cpu'[c].aim \in Cpus) BY <1>2, Zenon
  <2>4. Registers(c)' BY <2>2, <2>3 DEF Registers, Threaded, Threadless
  <2>5. ASSUME NEW k \in Cpus \ {c}
        PROVE  /\ cpu'[k].pc = cpu[k].pc /\ cpu'[k].arg = cpu[k].arg
               /\ cpu'[k].aim = cpu[k].aim /\ cpu'[k].idle = cpu[k].idle
               /\ cpu'[k].current = cpu[k].current /\ cpu'[k].previous = cpu[k].previous
    BY <1>2, Zenon
  <2> QED BY <2>4, <2>5, SameShape, Zenon
<1>4. NoSleep => NoSleep'
  <2>1. cpu'[c].pc # "asleep" /\ cpu[c].pc = "wake" BY <1>2, Zenon
  <2>2. ASSUME NEW k \in Cpus \ {c}
        PROVE  /\ cpu'[k].pc = cpu[k].pc /\ cpu'[k].aim = cpu[k].aim
               /\ cpu'[k].throttled = cpu[k].throttled
               /\ cpu[k].ipi => cpu'[k].ipi
               /\ \/ cpu'[k].queue \subseteq cpu[k].queue
                  \/ cpu'[c].pc = "look" /\ cpu'[c].aim = k
    BY <1>2
  <2> QED BY <2>1, <2>2, Told
<1>5. IInv => IInv'
  <2> SUFFICES ASSUME IInv PROVE IInv' OBVIOUS
  <2> USE DEF IInv
  <2>1. TypeOK' /\ Shape' BY <1>1, <1>3
  <2>2. PICK t \in Threads :
             /\ t = cpu[c].arg /\ cpu[c].pc = "wake" /\ thread[t].on = None
             /\ \/ /\ thread[t].state \notin {"Blocked", "Held"} /\ thread' = thread
                   /\ \A k \in Cpus \ {c} : cpu'[k] = cpu[k]
                   /\ cpu'[c].queue = cpu[c].queue /\ cpu'[c].current = cpu[c].current
                   /\ cpu'[c].previous = cpu[c].previous
                   /\ cpu'[c].pc \in {"flush", "expire"}
                \/ /\ thread[t].state \in {"Blocked", "Held"}
                   /\ thread' = [thread EXCEPT ![t].state = "Ready"]
                   /\ \E h \in Cpus :
                        /\ cpu'[h].queue = cpu[h].queue \cup {t}
                        /\ \A k \in Cpus \ {h} : cpu'[k].queue = cpu[k].queue
                        /\ \A k \in Cpus \ {c} :
                             /\ cpu'[k].pc = cpu[k].pc /\ cpu'[k].arg = cpu[k].arg
                             /\ cpu'[k].aim = cpu[k].aim /\ cpu'[k].ipi = cpu[k].ipi
                             /\ cpu'[k].idle = cpu[k].idle /\ cpu'[k].throttled = cpu[k].throttled
                        /\ \A k \in Cpus :
                             /\ cpu'[k].current = cpu[k].current
                             /\ cpu'[k].previous = cpu[k].previous
                        /\ IF h = c THEN cpu'[c].pc \in {"flush", "expire"}
                                    ELSE cpu'[c].pc = "look" /\ cpu'[c].aim = h
             /\ machine' \in {machine, Unlocked(c)}
    BY <1>2, Zenon
  <2>3. machine' = machine \/ machine = c BY <2>2, Zenon DEF Unlocked
  <2>4. CASE thread[t].state \notin {"Blocked", "Held"}
    <3>1. Quietly(c, {}) BY <2>2, <2>3, <2>4, Zenon DEF Quietly, Busy
    <3> QED BY <3>1, <2>1, Quiet
  <2>5. CASE thread[t].state \in {"Blocked", "Held"}
    <3>1. thread' = [thread EXCEPT ![t].state = "Ready"] BY <2>2, <2>5, Zenon
    <3>2. \A s \in Threads \ {t} : thread'[s] = thread[s] BY <3>1, Zenon DEF TypeOK
    <3>3. thread'[t].dom = thread[t].dom /\ thread'[t].state = "Ready" /\ thread'[t].on = None
          /\ thread'[t].stop = thread[t].stop /\ thread'[t].resume = thread[t].resume
      BY <2>2, <3>1 DEF TypeOK, ThreadType
    <3>4. PICK h \in Cpus :
            /\ cpu'[h].queue = cpu[h].queue \cup {t}
            /\ \A k \in Cpus \ {h} : cpu'[k].queue = cpu[k].queue
            /\ \A k \in Cpus \ {c} :
                 /\ cpu'[k].pc = cpu[k].pc /\ cpu'[k].arg = cpu[k].arg
                 /\ cpu'[k].aim = cpu[k].aim /\ cpu'[k].ipi = cpu[k].ipi
            /\ \A k \in Cpus :
                 /\ cpu'[k].current = cpu[k].current
                 /\ cpu'[k].previous = cpu[k].previous
            /\ cpu'[c].pc \in {"flush", "expire", "look"}
      BY <2>2, <2>5, Zenon
    <3>5. thread[t].dom \in {"Building", "Runnable"} /\ ~thread[t].stop /\ Hands(t) = {}
      BY <2>5, Zenon DEF Life, Belongs, Placed, Place
    <3>6. ASSUME NEW k \in Cpus PROVE ~Holds(k, t) BY <2>2, <3>5, DispatchAssumption, Zenon DEF Held, Marked
    <3>7. ASSUME NEW s \in Threads, NEW k \in Cpus
          PROVE  /\ Holds(k, s)' <=> Holds(k, s)
                 /\ Claims(k, s)' <=> Claims(k, s)
                 /\ InHand(k, s)' <=> InHand(k, s)
                 /\ Stopping(k, s)' <=> Stopping(k, s)
      BY <2>2, <3>4 DEF Holds, Claims, InHand, Stopping
    <3>8. ASSUME NEW s \in Threads \ {t} PROVE Hands(s)' = Hands(s)
      BY <2>2, <3>4 DEF Hands
    <3>9. Hands(t)' = {h} /\ \A k \in Cpus : ~InHand(k, t)
      BY <2>2, <3>4, <3>5 DEF Hands, InHand
    <3>10. ASSUME NEW s \in Threads PROVE Belongs(s)'
      BY <3>2, <3>3, <3>5, <3>8 DEF Life, Belongs
    <3>11. Held'
      <4>1. ASSUME NEW s \in Threads PROVE Marked(s)'
        BY <3>2, <3>3, <3>7, <2>2 DEF Held, Marked, Takes
      <4> QED BY <4>1 DEF Held
    <3>12. Placed'
      <4>1. ASSUME NEW s \in Threads \ {t} PROVE Place(s)'
        <5>1. \A k \in Cpus : Preempts(k, s)' <=> Preempts(k, s) BY <2>2, <3>2, <3>4 DEF Preempts
        <5>2. \A k \in Cpus : s \in cpu'[k].queue <=> s \in cpu[k].queue BY <3>4, Zenon
        <5>3. Place(s) BY DEF Placed
        <5> QED BY <3>2, <3>4, <3>7, <3>8, <5>1, <5>2, <5>3 DEF Place
      <4>2. Place(t)'
        <5>1. \A k \in Cpus : ~Preempts(k, t)' BY <3>6, <3>7, <3>4 DEF Preempts, Holds
        <5>2. \A k \in Cpus : cpu'[k].current # t BY <3>6, <3>7, Zenon DEF Holds
        <5> QED BY <3>3, <3>7, <3>9, <5>1, <5>2, Zenon DEF Place
      <4> QED BY <4>1, <4>2, Zenon DEF Placed
    <3>13. Stops' /\ \A k \in Cpus : Terminates(k)'
      <4>1. ~Unstarted(t) BY <3>5, Zenon DEF Unstarted
      <4>2. Unstopped(c) BY <2>2, <2>3, <3>2, <3>3, <3>4, <4>1, SMTT(30) DEF Unstopped, Stops
      <4> QED BY <4>2, <2>1, StopsKept, Zenon
    <3> QED BY <2>1, <3>10, <3>11, <3>12, <3>13, Zenon DEF Life
  <2> QED BY <2>4, <2>5
<1> QED BY <1>1, <1>3, <1>4, <1>5, Zenon

\* The end of wake: a processor that is marked halted is sent the interrupt.
LEMMA StepLook ==
  ASSUME TypeOK, Shape, NEW c \in Cpus, Look(c)
  PROVE  /\ TypeOK' /\ Shape' /\ (NoSleep => NoSleep')
         /\ (IInv => IInv')
<1>1. TypeOK'
  <2>1. PICK k \in Cpus, a \in BOOLEAN, b \in BOOLEAN :
          cpu' = [cpu EXCEPT ![c] = WakeReturned(c), ![k].ipi = a, ![k].resched = b]
    <3>1. cpu[c].aim \in Cpus BY Zenon DEF Look, At, Shape, Registers
    <3> QED BY <3>1, Zenon DEF Look
  <2>2. [cpu EXCEPT ![c] = WakeReturned(c)] \in [Cpus -> CpuType] BY Returned, Zenon DEF TypeOK
  <2>3. cpu' \in [Cpus -> CpuType] BY <2>1, <2>2, SetIpi, SetResched, Zenon
  <2> QED BY <2>3, Returned, Zenon DEF TypeOK, Look
<1>2. /\ cpu[c].pc = "look" /\ cpu'[c].pc \in {"flush", "expire"} /\ thread' = thread
      /\ machine' = Unlocked(c)
      /\ \A k \in Cpus \ {c} :
           /\ cpu'[k].pc = cpu[k].pc /\ cpu'[k].arg = cpu[k].arg
           /\ cpu'[k].aim = cpu[k].aim /\ (cpu[k].ipi => cpu'[k].ipi)
           /\ cpu'[k].idle = cpu[k].idle /\ cpu'[k].throttled = cpu[k].throttled
           /\ cpu[c].aim = k /\ cpu[k].idle = "halted" => cpu'[k].ipi
      /\ \A k \in Cpus :
           /\ cpu'[k].queue = cpu[k].queue
           /\ cpu'[k].current = cpu[k].current
           /\ cpu'[k].previous = cpu[k].previous
  <2>1. PICK h \in Cpus : h = cpu[c].aim BY Zenon DEF Look, Shape, Registers, At
  <2>2. cpu[c].pc = "look" /\ thread' = thread /\ machine' = Unlocked(c) BY Zenon DEF Look, At
  <2>3. cpu' = [cpu EXCEPT ![c] = WakeReturned(c), ![h].ipi = @ \/ cpu[h].idle # "polling",
                 ![h].resched = @ \/ cpu[h].idle = "running"]
    BY <2>1, Zenon DEF Look
  <2>4. cpu[c].ret \in {"flush", "expire"} /\ cpu[c] \in CpuType BY CpuFields, Zenon DEF TypeOK
  <2>5. /\ WakeReturned(c).queue = cpu[c].queue /\ WakeReturned(c).current = cpu[c].current
        /\ WakeReturned(c).previous = cpu[c].previous /\ WakeReturned(c).pc = cpu[c].ret
    BY <2>4, Zenon DEF WakeReturned, CpuType
  <2>6. WakeReturned(c) \in CpuType BY Returned, Zenon
  <2>7. CASE h = c
    <3> DEFINE w == WakeReturned(c)
               a == cpu[c].ipi \/ cpu[c].idle # "polling"
               b == cpu[c].resched \/ cpu[c].idle = "running"
    <3>0. cpu' = [cpu EXCEPT ![c] = WakeReturned(c), ![c].ipi = @ \/ cpu[c].idle # "polling",
                      ![c].resched = @ \/ cpu[c].idle = "running"]
      BY <2>3, <2>7, Zenon
    <3>3. w.ipi = cpu[c].ipi /\ w.resched = cpu[c].resched BY <2>4 DEF WakeReturned, CpuType
    <3>4. cpu' = [cpu EXCEPT ![c] = w, ![c].ipi = a, ![c].resched = b]
      BY <3>0, <3>3, Zenon
    <3> HIDE DEF w, a, b
    <3>1. cpu'[c] = [w EXCEPT !.ipi = a, !.resched = b]
          /\ \A k \in Cpus \ {c} : cpu'[k] = cpu[k]
      BY <3>4 DEF TypeOK
    <3>2. cpu'[c].queue = cpu[c].queue /\ cpu'[c].pc = cpu[c].ret
          /\ cpu'[c].current = cpu[c].current /\ cpu'[c].previous = cpu[c].previous
      BY <2>5, <2>6, <3>1 DEF CpuType, w
    <3> QED BY <2>1, <2>2, <2>4, <2>7, <3>1, <3>2, Zenon
  <2>8. CASE h # c
    <3>1. cpu'[c] = WakeReturned(c)
          /\ cpu'[h] = [cpu[h] EXCEPT !.ipi = @ \/ cpu[h].idle # "polling",
                          !.resched = @ \/ cpu[h].idle = "running"]
          /\ \A k \in Cpus \ {c, h} : cpu'[k] = cpu[k]
      BY <2>3, <2>8, Zenon DEF TypeOK
    <3>3. /\ cpu'[h].queue = cpu[h].queue /\ cpu'[h].current = cpu[h].current
          /\ cpu'[h].previous = cpu[h].previous /\ cpu'[h].pc = cpu[h].pc
          /\ cpu'[h].arg = cpu[h].arg /\ cpu'[h].aim = cpu[h].aim
          /\ cpu'[h].idle = cpu[h].idle /\ cpu'[h].throttled = cpu[h].throttled
          /\ cpu'[h].ipi = (cpu[h].ipi \/ cpu[h].idle # "polling")
      BY <3>1 DEF TypeOK, CpuType
    <3>4. \A k \in Cpus : cpu'[k].queue = cpu[k].queue /\ cpu'[k].current = cpu[k].current
                          /\ cpu'[k].previous = cpu[k].previous
      BY <2>5, <3>1, <3>3, Zenon
    <3>5. \A k \in Cpus \ {c} :
                /\ cpu'[k].pc = cpu[k].pc /\ cpu'[k].arg = cpu[k].arg
                /\ cpu'[k].aim = cpu[k].aim /\ (cpu[k].ipi => cpu'[k].ipi)
                /\ cpu'[k].idle = cpu[k].idle /\ cpu'[k].throttled = cpu[k].throttled
                /\ cpu[c].aim = k /\ cpu[k].idle = "halted" => cpu'[k].ipi
      BY <2>1, <3>1, <3>3, ZenonT(30)
    <3> QED BY <2>2, <2>4, <2>5, <3>1, <3>4, <3>5, Zenon
  <2> QED BY <2>7, <2>8, Zenon
<1>3. Shape'
  <2>1. Registers(c)' BY <1>2, Own, Zenon DEF Registers, Threaded, Threadless
  <2> QED BY <2>1, <1>2, SameShape, Zenon
<1>4. NoSleep => NoSleep'
  <2>1. ASSUME NEW k \in Cpus \ {c}
        PROVE  cpu[k].pc = "asleep" => cpu[k].idle = "halted"
    BY Zenon DEF Shape, Registers
  <2> QED BY <1>2, <2>1, Told
<1>5. IInv => IInv'
  <2> SUFFICES ASSUME IInv PROVE IInv' OBVIOUS
  <2>1. TypeOK' /\ Shape' BY <1>1, <1>3
  <2>2. machine' = machine \/ machine = c BY <1>2 DEF IInv, Unlocked
  <2>3. Quietly(c, {}) BY <2>2, <1>2, Zenon DEF IInv, Quietly, Busy
  <2> QED BY <2>1, <2>3, Quiet
<1> QED BY <1>1, <1>3, <1>4, <1>5

\* plan takes the next thread off the queue, keeps the one it has, or finds none.
LEMMA StepPick ==
  ASSUME TypeOK, Shape, NEW c \in Cpus, Pick(c)
  PROVE  /\ TypeOK' /\ Shape' /\ (NoSleep => NoSleep')
         /\ (IInv => IInv')
<1>1. TypeOK'
  <2>1. cpu[c] \in CpuType BY DEF TypeOK
  <2>2. cpu[c].queue \in SUBSET Threads /\ cpu[c].rest \in Pcs /\ cpu[c].current \in Threads \cup {Idle} BY <2>1, CpuFields, Names, Zenon
  <2>3. PICK next \in Threads \cup {Idle}, b \in BOOLEAN, p \in Pcs, a \in Threads \cup {Idle, None} :
         cpu' = [cpu EXCEPT ![c].resched = FALSE, ![c].hint = None, ![c].throttled = b,
                   ![c].queue = @ \ {next}, ![c].pc = p, ![c].arg = a]
    <3> DEFINE me == cpu[c].current
               able == {t \in cpu[c].queue : Eligible(t)}
                         \cup (IF CurrentRuns(c) THEN {me} ELSE {})
               P(n) == IF n # me THEN "claim"
                       ELSE IF me # Idle THEN "leave"
                       ELSE IF cpu[c].rest = "turn" THEN "idle"
                       ELSE cpu[c].rest
               A(n) == IF n # me THEN n ELSE None
    <3>1. PICK n \in able \cup {Idle} :
            cpu' = [cpu EXCEPT ![c].resched = FALSE, ![c].hint = None,
                     ![c].throttled = (n = Idle /\ able # {}), ![c].queue = @ \ {n},
                     ![c].pc = P(n), ![c].arg = A(n)]
      BY Zenon DEF Pick
    <3>2. n \in Threads \cup {Idle} BY <2>2, Zenon
    <3>3. P(n) \in Pcs BY <2>2, Names, Zenon
    <3>4. A(n) \in Threads \cup {Idle, None} BY <3>2
    <3>5. (n = Idle /\ able # {}) \in BOOLEAN BY Zenon
    <3> HIDE DEF P, A, able
    <3> QED BY <3>1, <3>2, <3>3, <3>4, <3>5, Zenon
  <2>4. cpu[c].queue \ {next} \in SUBSET Threads BY <2>2, Zenon
  <2>5. cpu' \in [Cpus -> CpuType] BY <2>1, <2>3, <2>4, SetResched, SetHint, SetThrottled, SetQueue, SetPc, SetArg, ZenonT(30) DEF TypeOK
  <2> QED BY <2>5, Zenon DEF TypeOK, Pick
<1>2. /\ \A k \in Cpus \ {c} : cpu'[k] = cpu[k]
      /\ cpu'[c].current = cpu[c].current /\ cpu'[c].previous = cpu[c].previous
      /\ cpu[c].pc = "plan" /\ thread' = thread /\ machine' = machine
      /\ \E next \in Threads \cup {Idle} :
           /\ cpu'[c].queue = cpu[c].queue \ {next}
           /\ IF next # cpu[c].current
              THEN /\ cpu'[c].pc = "claim" /\ cpu'[c].arg = next
                   /\ next # Idle => next \in cpu[c].queue /\ Eligible(next)
              ELSE IF next # Idle THEN cpu'[c].pc = "leave"
                                  ELSE cpu'[c].pc \in {"idle", "turn", "poll", "tail"}
  <2>1. cpu[c] \in CpuType /\ cpu[c].queue \in SUBSET Threads /\ cpu[c].rest \in {"turn", "poll", "tail"}
        /\ cpu[c].current \in Threads \cup {Idle}
    BY CpuFields, Zenon DEF TypeOK
  <2>2. PICK next \in Threads \cup {Idle} :
          /\ next \notin {Idle, cpu[c].current} => next \in cpu[c].queue /\ Eligible(next)
          /\ \E b, p, a :
              /\ cpu' = [cpu EXCEPT ![c].resched = FALSE, ![c].hint = None, ![c].throttled = b,
                           ![c].queue = @ \ {next}, ![c].pc = p, ![c].arg = a]
              /\ p = IF next # cpu[c].current THEN "claim"
                     ELSE IF cpu[c].current # Idle THEN "leave"
                     ELSE IF cpu[c].rest = "turn" THEN "idle"
                     ELSE cpu[c].rest
              /\ a = IF next # cpu[c].current THEN next ELSE None
    <3> DEFINE able == {t \in cpu[c].queue : Eligible(t)}
                         \cup (IF CurrentRuns(c) THEN {cpu[c].current} ELSE {})
    <3>1. PICK n \in able \cup {Idle} :
            cpu' = [cpu EXCEPT ![c].resched = FALSE, ![c].hint = None,
                     ![c].throttled = (n = Idle /\ able # {}), ![c].queue = @ \ {n},
                     ![c].pc = IF n # cpu[c].current THEN "claim"
                             ELSE IF cpu[c].current # Idle THEN "leave"
                             ELSE IF cpu[c].rest = "turn" THEN "idle"
                             ELSE cpu[c].rest,
                     ![c].arg = IF n # cpu[c].current THEN n ELSE None]
      BY Zenon DEF Pick
    <3>2. n \in Threads \cup {Idle} BY <2>1
    <3>3. n \notin {Idle, cpu[c].current} => n \in cpu[c].queue /\ Eligible(n) OBVIOUS
    <3> HIDE DEF able
    <3> WITNESS n \in Threads \cup {Idle}
    <3> QED BY <3>1, <3>3, Zenon
  <2>3. PICK b, p, a :
          /\ cpu' = [cpu EXCEPT ![c].resched = FALSE, ![c].hint = None, ![c].throttled = b,
                           ![c].queue = @ \ {next}, ![c].pc = p, ![c].arg = a]
          /\ p = IF next # cpu[c].current THEN "claim"
                     ELSE IF cpu[c].current # Idle THEN "leave"
                     ELSE IF cpu[c].rest = "turn" THEN "idle"
                     ELSE cpu[c].rest
          /\ a = IF next # cpu[c].current THEN next ELSE None
    BY <2>2, Zenon
  <2>4. /\ \A k \in Cpus \ {c} : cpu'[k] = cpu[k]
        /\ cpu'[c].current = cpu[c].current /\ cpu'[c].previous = cpu[c].previous
        /\ cpu'[c].queue = cpu[c].queue \ {next} /\ cpu'[c].pc = p /\ cpu'[c].arg = a
    BY <2>1, <2>3 DEF TypeOK, CpuType
  <2>5. cpu[c].pc = "plan" /\ thread' = thread /\ machine' = machine BY Zenon DEF Pick, At
  <2>6. IF next # cpu[c].current
        THEN /\ cpu'[c].pc = "claim" /\ cpu'[c].arg = next
             /\ next # Idle => next \in cpu[c].queue /\ Eligible(next)
        ELSE IF next # Idle THEN cpu'[c].pc = "leave"
                            ELSE cpu'[c].pc \in {"idle", "turn", "poll", "tail"}
    <3>1. CASE next # cpu[c].current BY <3>1, <2>2, <2>3, <2>4, Zenon
    <3>2. CASE next = cpu[c].current /\ next # Idle BY <3>2, <2>3, <2>4, Zenon
    <3>3. CASE next = cpu[c].current /\ next = Idle BY <3>3, <2>1, <2>3, <2>4, Zenon
    <3> QED BY <3>1, <3>2, <3>3, Zenon
  <2> QED BY <2>4, <2>5, <2>6, Zenon
<1>3. Shape'
  <2>1. Registers(c)' BY <1>2, Own DEF Registers, Threaded, Threadless
  <2> QED BY <2>1, <1>2, OwnShape, Zenon
<1>4. NoSleep => NoSleep'
  BY <1>2, Awake, Zenon
<1>5. IInv => IInv'
  <2> SUFFICES ASSUME IInv PROVE IInv' OBVIOUS
  <2> USE DEF IInv
  <2>1. TypeOK' /\ Shape' BY <1>1, <1>3
  <2>2. /\ \A k \in Cpus \ {c} : cpu'[k] = cpu[k]
        /\ cpu'[c].current = cpu[c].current /\ cpu'[c].previous = cpu[c].previous
        /\ cpu[c].pc = "plan" /\ thread' = thread /\ machine' = machine
    BY <1>2, Zenon
  <2>3. PICK next \in Threads \cup {Idle} :
                /\ cpu'[c].queue = cpu[c].queue \ {next}
                /\ IF next # cpu[c].current
                   THEN /\ cpu'[c].pc = "claim" /\ cpu'[c].arg = next
                        /\ next # Idle => next \in cpu[c].queue /\ Eligible(next)
                   ELSE IF next # Idle THEN cpu'[c].pc = "leave"
                                       ELSE cpu'[c].pc \in {"idle", "turn", "poll", "tail"}
    BY <1>2, Zenon
  <2>4. cpu[c].queue \in SUBSET Threads BY CpuFields DEF TypeOK
  <2>5. CASE next = cpu[c].current
    <3>1. next \notin cpu[c].queue
      <4>1. CASE next = Idle BY <4>1, <2>4, DispatchAssumption
      <4>2. CASE next \in Threads
        <5>1. Hands(next) = {} BY <4>2, <2>5, Zenon DEF Placed, Place
        <5> QED BY <5>1 DEF Hands
      <4> QED BY <4>1, <4>2
    <3>2. cpu'[c].queue = cpu[c].queue BY <3>1, <2>3, Zenon
    <3>3. Quietly(c, {}) BY <2>2, <2>3, <2>5, <3>2, Zenon DEF Quietly, Busy
    <3> QED BY <3>3, <2>1, Quiet
  <2>6. CASE next # cpu[c].current
    <3>1. cpu'[c].pc = "claim" /\ cpu'[c].arg = next
          /\ (next # Idle => next \in cpu[c].queue /\ thread[next].on = None
                             /\ thread[next].dom # "Dead" /\ thread[next].state = "Ready")
      BY <2>3, <2>6, Zenon DEF Eligible, Parked, IsUser
    <3>2. ASSUME NEW s \in Threads, NEW k \in Cpus
          PROVE  /\ Holds(k, s)' <=> Holds(k, s)
                 /\ Preempts(k, s)' <=> Preempts(k, s)
                 /\ Claims(k, s)' <=> Claims(k, s) \/ (k = c /\ s = next)
                 /\ InHand(k, s)' <=> InHand(k, s) \/ (k = c /\ s = next)
      BY <2>2, <3>1 DEF Holds, Preempts, Claims, InHand
    <3>3. ASSUME NEW s \in Threads PROVE Hands(s)' = Hands(s)
      <4>1. ASSUME NEW k \in Cpus PROVE k \in Hands(s)' <=> k \in Hands(s)
        <5>1. CASE k # c
          <6>1. cpu'[k] = cpu[k] BY <5>1, <2>2, Zenon
          <6> QED BY <6>1, Zenon DEF Hands
        <5>2. CASE k = c /\ s = next
          <6>1. next # Idle BY <5>2, DispatchAssumption
          <6> QED BY <5>2, <6>1, <3>1, Zenon DEF Hands
        <5>3. CASE k = c /\ s # next
          <6>1. s \in cpu'[c].queue <=> s \in cpu[c].queue BY <5>3, <2>3, Zenon
          <6> QED BY <5>3, <6>1, <2>2, <3>1, Zenon DEF Hands
        <5> QED BY <5>1, <5>2, <5>3, Zenon
      <4> QED BY <4>1, Zenon DEF Hands
    <3>4. ASSUME NEW s \in Threads PROVE Belongs(s)'
      BY <2>2, <3>3, Zenon DEF Life, Belongs
    <3>5. ASSUME NEW s \in Threads PROVE Marked(s)'
      <4>1. Marked(s) BY DEF Held
      <4>2. CASE s # next BY <4>1, <4>2, <2>2, <3>2, Zenon DEF Marked, Takes
      <4>3. CASE s = next
        <5>1. \A k \in Cpus : ~Holds(k, s) BY <4>3, <3>1, EligibleUnheld, DispatchAssumption, Zenon
        <5>2. \A k \in Cpus : ~Claims(k, s)
          <6>1. c \in Hands(s) BY <4>3, <3>1, DispatchAssumption, Zenon DEF Hands
          <6>2. \A k \in Hands(s) : k = c BY <6>1 DEF Placed, Place
          <6> QED BY <6>2, <2>2, Zenon DEF Claims, Hands
        <5> QED BY <4>1, <4>3, <5>1, <5>2, <2>2, <3>2, Zenon DEF Marked, Takes
      <4> QED BY <4>2, <4>3
    <3>6. ASSUME NEW s \in Threads PROVE Place(s)'
      <4>1. Place(s) BY DEF Placed
      <4>2. \A k \in Cpus : cpu'[k].current = cpu[k].current BY <2>2
      <4>3. CASE s # next
        <5>1. \A k \in Cpus : s \in cpu'[k].queue <=> s \in cpu[k].queue BY <4>3, <2>2, <2>3
        <5> QED BY <4>1, <4>2, <4>3, <5>1, <2>2, <3>2, <3>3 DEF Place
      <4>4. CASE s = next
        <5>1. \A k \in Cpus : ~Preempts(k, s) BY <4>4, <3>1, EligibleUnheld, DispatchAssumption
        <5>2. \A k \in Cpus \ {c} : cpu'[k].queue = cpu[k].queue BY <2>2, Zenon
        <5>3. s \notin cpu'[c].queue BY <4>4, <2>3, Zenon
        <5>4. ASSUME NEW k \in Cpus, InHand(k, s)' PROVE s \notin cpu'[k].queue
          <6>1. CASE k = c BY <6>1, <5>3
          <6>2. CASE k # c BY <6>2, <5>2, <5>4, <3>2, <4>1, Zenon DEF Place
          <6> QED BY <6>1, <6>2
        <5>5. \A k \in Cpus : ~Preempts(k, s)' BY <5>1, <3>2
        <5>6. thread' = thread /\ Hands(s)' = Hands(s) BY <2>2, <3>3, Zenon
        <5> QED BY <4>1, <4>2, <5>4, <5>5, <5>6, Zenon DEF Place
      <4> QED BY <4>3, <4>4
    <3>7. Stops' /\ \A k \in Cpus : Terminates(k)'
      <4>1. next # Idle => ~Unstarted(next) BY <3>1, Zenon DEF Stops
      <4>2. Unstopped(c) BY <2>2, <3>1, <4>1, Zenon DEF Unstopped, Stops
      <4> QED BY <4>2, <2>1, StopsKept
    <3> QED BY <2>1, <3>4, <3>5, <3>6, <3>7 DEF Life, Held, Placed
  <2> QED BY <2>5, <2>6
<1> QED BY <1>1, <1>3, <1>4, <1>5

\* delegate_aged_sync takes a thread out of its own queue, up to the drop of it.
LEMMA StepDelegateAgedSync ==
  ASSUME TypeOK, Shape, NEW c \in Cpus, DelegateAgedSync(c)
  PROVE  /\ TypeOK' /\ Shape' /\ (NoSleep => NoSleep')
         /\ (IInv => IInv')
<1>1. TypeOK'
  <2>1. cpu[c] \in CpuType BY DEF TypeOK
  <2>2. cpu[c].queue \in SUBSET Threads /\ cpu[c].hint \in Threads \cup {None} BY <2>1, CpuFields, Zenon
  <2>3. CASE IdleMask = {}
    <3>1. PICK p \in Pcs : cpu' = [cpu EXCEPT ![c].resched = TRUE, ![c].pc = p]
      BY <2>3, Names, Zenon DEF DelegateAgedSync
    <3>2. cpu' \in [Cpus -> CpuType] BY <3>1, <2>1, SetResched, SetPc, Zenon DEF TypeOK
    <3> QED BY <3>2, Zenon DEF TypeOK, DelegateAgedSync
  <2>4. CASE IdleMask # {} /\ c = Min(IdleMask)
    <3>1. cpu' = [cpu EXCEPT ![c].pc = "leave"] BY <2>4 DEF DelegateAgedSync
    <3>2. cpu' \in [Cpus -> CpuType] BY <3>1, <2>1, Names, SetPc DEF TypeOK
    <3> QED BY <3>2, Zenon DEF TypeOK, DelegateAgedSync
  <2>5. CASE IdleMask # {} /\ c # Min(IdleMask)
    <3> DEFINE t == cpu[c].hint
    <3>1. Min(IdleMask) \in Cpus BY <2>5, Least DEF IdleMask
    <3>2. PICK p \in Pcs, a \in Threads \cup {Idle, None}, m \in Cpus \cup {None} :
            cpu' = [cpu EXCEPT ![c].hint = None, ![c].queue = @ \ {t}, ![c].pc = p,
                               ![c].arg = a, ![c].aim = m]
      <4>1. cpu' = [cpu EXCEPT ![c].hint = None, ![c].queue = @ \ {t},
                        ![c].pc = IF t \in cpu[c].queue THEN "moving" ELSE "leave",
                        ![c].arg = IF t \in cpu[c].queue THEN t ELSE None,
                        ![c].aim = IF t \in cpu[c].queue
                                   THEN Min(IdleMask) ELSE None]
        BY <2>5, Zenon DEF DelegateAgedSync
      <4> QED BY <4>1, <3>1, <2>2, Names, Zenon
    <3>3. cpu[c].queue \ {t} \in SUBSET Threads BY <2>2, Zenon
    <3>4. cpu' \in [Cpus -> CpuType] BY <3>2, <3>3, <2>1, SetHint, SetQueue, SetPc, SetArg, SetAim, Zenon DEF TypeOK
    <3> QED BY <3>4, Zenon DEF TypeOK, DelegateAgedSync
  <2> QED BY <2>3, <2>4, <2>5
<1>2. /\ \A k \in Cpus \ {c} : cpu'[k] = cpu[k]
      /\ cpu'[c].current = cpu[c].current /\ cpu'[c].previous = cpu[c].previous
      /\ cpu[c].pc \in {"exit", "ticked"} /\ thread' = thread /\ machine' = machine
      /\ \/ cpu'[c].queue = cpu[c].queue /\ cpu'[c].pc \in {"plan", "leave"}
         \/ \E t \in Threads :
              /\ t \in cpu[c].queue /\ cpu'[c].queue = cpu[c].queue \ {t}
              /\ cpu'[c].pc = "moving" /\ cpu'[c].arg = t /\ cpu'[c].aim \in Cpus
  <2>1. cpu[c] \in CpuType BY DEF TypeOK
  <2>2. cpu[c].queue \in SUBSET Threads /\ cpu[c].hint \in Threads \cup {None} BY <2>1, CpuFields
  <2>0. cpu[c].pc \in {"exit", "ticked"} /\ thread' = thread /\ machine' = machine
    BY Zenon DEF DelegateAgedSync, Returning, At
  <2>3. CASE IdleMask = {}
    <3>1. PICK p \in {"plan", "leave"} : cpu' = [cpu EXCEPT ![c].resched = TRUE, ![c].pc = p]
      BY <2>3, Zenon DEF DelegateAgedSync
    <3>2. /\ \A k \in Cpus \ {c} : cpu'[k] = cpu[k]
          /\ cpu'[c].current = cpu[c].current /\ cpu'[c].previous = cpu[c].previous
          /\ cpu'[c].queue = cpu[c].queue /\ cpu'[c].pc = p
      BY <3>1 DEF TypeOK, CpuType
    <3> QED BY <3>2, <2>0, Zenon
  <2>4. CASE IdleMask # {} /\ c = Min(IdleMask)
    <3>1. cpu' = [cpu EXCEPT ![c].pc = "leave"] BY <2>4 DEF DelegateAgedSync
    <3>2. /\ \A k \in Cpus \ {c} : cpu'[k] = cpu[k]
          /\ cpu'[c].current = cpu[c].current /\ cpu'[c].previous = cpu[c].previous
          /\ cpu'[c].queue = cpu[c].queue /\ cpu'[c].pc = "leave"
      BY <3>1 DEF TypeOK, CpuType
    <3> QED BY <3>2, <2>0, Zenon
  <2>5. CASE IdleMask # {} /\ c # Min(IdleMask)
    <3> DEFINE t == cpu[c].hint
    <3>1. Min(IdleMask) \in Cpus BY <2>5, Least DEF IdleMask
    <3>2. PICK p, a, m :
            /\ cpu' = [cpu EXCEPT ![c].hint = None, ![c].queue = @ \ {t}, ![c].pc = p,
                               ![c].arg = a, ![c].aim = m]
            /\ IF t \in cpu[c].queue THEN p = "moving" /\ a = t /\ m = Min(IdleMask) ELSE p = "leave"
      BY <2>5, Zenon DEF DelegateAgedSync
    <3>3. /\ \A k \in Cpus \ {c} : cpu'[k] = cpu[k]
          /\ cpu'[c].current = cpu[c].current /\ cpu'[c].previous = cpu[c].previous
          /\ cpu'[c].queue = cpu[c].queue \ {t} /\ cpu'[c].pc = p /\ cpu'[c].arg = a
          /\ cpu'[c].aim = m
      BY <3>2 DEF TypeOK, CpuType
    <3>4. CASE t \in cpu[c].queue
      <4>1. cpu'[c].pc = "moving" /\ cpu'[c].arg = t /\ cpu'[c].aim \in Cpus BY <3>1, <3>2, <3>3, <3>4, Zenon
      <4>2. t \in Threads BY <3>4, <2>2, Zenon
      <4> QED BY <4>1, <4>2, <3>3, <3>4, <2>0, Zenon
    <3>5. CASE t \notin cpu[c].queue
      <4>1. cpu'[c].pc = "leave" /\ cpu'[c].queue = cpu[c].queue BY <3>2, <3>3, <3>5, Zenon
      <4> QED BY <4>1, <3>3, <2>0, Zenon
    <3> QED BY <3>4, <3>5, Zenon
  <2> QED BY <2>3, <2>4, <2>5, Zenon
<1>3. Shape'
  <2>1. Registers(c)' BY <1>2, Own, Zenon DEF Registers, Threaded, Threadless
  <2> QED BY <2>1, <1>2, OwnShape, Zenon
<1>4. NoSleep => NoSleep'
  BY <1>2, Awake, Zenon
<1>5. IInv => IInv'
  <2> SUFFICES ASSUME IInv PROVE IInv' OBVIOUS
  <2> USE DEF IInv
  <2>1. TypeOK' /\ Shape' BY <1>1, <1>3
  <2>2. /\ \A k \in Cpus \ {c} : cpu'[k] = cpu[k]
        /\ cpu'[c].current = cpu[c].current /\ cpu'[c].previous = cpu[c].previous
        /\ cpu[c].pc \in {"exit", "ticked"} /\ thread' = thread /\ machine' = machine
    BY <1>2, Zenon
  <2>3. CASE cpu'[c].queue = cpu[c].queue /\ cpu'[c].pc \in {"plan", "leave"}
    <3>1. Quietly(c, {}) BY <2>2, <2>3, Zenon DEF Quietly, Busy
    <3> QED BY <3>1, <2>1, Quiet
  <2>4. ASSUME NEW t \in Threads, t \in cpu[c].queue, cpu'[c].queue = cpu[c].queue \ {t},
               cpu'[c].pc = "moving", cpu'[c].arg = t
        PROVE  IInv'
    <3>1. Carries(c, t) BY <2>2, <2>4, Zenon DEF Carries
    <3>2. c \in Hands(t) BY <2>4, Zenon DEF Hands
    <3>3. \A k \in Hands(t) : k = c BY <3>2, Zenon DEF Placed, Place
    <3>4. \A k \in Cpus \ {c} : t \notin cpu'[k].queue /\ ~InHand(k, t)'
      BY <2>2, <3>3 DEF Hands, InHand
    <3>5. InHand(c, t)' BY <2>4 DEF InHand
    <3>6. Hands(t)' = {c} BY <3>4, <3>5, Zenon DEF Hands, InHand
    <3>7. ASSUME NEW k \in Cpus, Preempts(k, t) PROVE thread[t].dom \notin {"Building", "Runnable"}
      <4>1. SUFFICES ASSUME thread[t].dom \in {"Building", "Runnable"} PROVE FALSE OBVIOUS
      <4>2. k = c BY <3>3, <3>7, <4>1, Zenon DEF Placed, Place, Hands
      <4>3. cpu[c].previous = None BY <2>2, Zenon DEF Shape, Registers
      <4> QED BY <4>2, <4>3, <3>7, <2>2, DispatchAssumption DEF Preempts
    <3>8. \A k \in Cpus : InHand(k, t)' => t \notin cpu'[k].queue BY <3>4, <2>4, Zenon
    <3> QED BY <2>1, <3>1, <3>2, <3>6, <3>7, <3>8, Carried, Zenon
  <2> QED BY <2>3, <2>4, <1>2, Zenon
<1> QED BY <1>1, <1>3, <1>4, <1>5

\* delegate_aged_sync puts the thread into the queue of the idle processor.
LEMMA StepDelegated ==
  ASSUME TypeOK, Shape, NEW c \in Cpus, Delegated(c)
  PROVE  /\ TypeOK' /\ Shape' /\ (NoSleep => NoSleep')
         /\ (IInv => IInv')
<1>1. TypeOK'
  <2>1. PICK k \in Cpus, t \in Threads :
          cpu' = [cpu EXCEPT ![k].queue = @ \cup {t}, ![c].arg = None, ![c].pc = "moved"]
    BY Zenon DEF Delegated, Shape, Registers, At
  <2>2. cpu[k].queue \cup {t} \in SUBSET Threads BY CpuFields, Zenon DEF TypeOK
  <2>3. cpu' \in [Cpus -> CpuType] BY <2>1, <2>2, Names, SetQueue, SetArg, SetPc, Zenon DEF TypeOK
  <2> QED BY <2>3, Zenon DEF TypeOK, Delegated
<1>2. \E t \in Threads, h \in Cpus :
        /\ t = cpu[c].arg /\ cpu[c].pc = "moving" /\ cpu'[c].pc = "moved"
        /\ cpu'[c].aim = h /\ thread' = thread /\ machine' = machine
        /\ cpu'[h].queue = cpu[h].queue \cup {t}
        /\ \A k \in Cpus \ {h} : cpu'[k].queue = cpu[k].queue
        /\ \A k \in Cpus \ {c} :
             /\ cpu'[k].pc = cpu[k].pc /\ cpu'[k].arg = cpu[k].arg
             /\ cpu'[k].aim = cpu[k].aim /\ cpu'[k].ipi = cpu[k].ipi
             /\ cpu'[k].idle = cpu[k].idle /\ cpu'[k].throttled = cpu[k].throttled
        /\ \A k \in Cpus :
             /\ cpu'[k].current = cpu[k].current
             /\ cpu'[k].previous = cpu[k].previous
  <2>1. PICK t \in Threads, h \in Cpus : t = cpu[c].arg /\ h = cpu[c].aim
    BY Zenon DEF Delegated, Shape, Registers, At
  <2>2. cpu[c].pc = "moving" /\ thread' = thread /\ machine' = machine BY Zenon DEF Delegated, At
  <2>3. cpu' = [cpu EXCEPT ![h].queue = @ \cup {t}, ![c].arg = None, ![c].pc = "moved"]
    BY <2>1, Zenon DEF Delegated
  <2>4. CASE h = c
    <3>1. cpu'[c].queue = cpu[c].queue \cup {t} /\ cpu'[c].pc = "moved" /\ cpu'[c].aim = cpu[c].aim
          /\ cpu'[c].current = cpu[c].current /\ cpu'[c].previous = cpu[c].previous
          /\ \A k \in Cpus \ {c} : cpu'[k] = cpu[k]
      BY <2>3, <2>4 DEF TypeOK, CpuType
    <3> QED BY <2>1, <2>2, <2>4, <3>1, ZenonT(30)
  <2>5. CASE h # c
    <3>1. cpu'[c] = [cpu[c] EXCEPT !.arg = None, !.pc = "moved"]
          /\ cpu'[h] = [cpu[h] EXCEPT !.queue = @ \cup {t}]
          /\ \A k \in Cpus \ {c, h} : cpu'[k] = cpu[k]
      BY <2>3, <2>5, Zenon DEF TypeOK
    <3>2. cpu'[c].queue = cpu[c].queue /\ cpu'[c].pc = "moved" /\ cpu'[c].aim = cpu[c].aim
          /\ cpu'[c].current = cpu[c].current /\ cpu'[c].previous = cpu[c].previous
      BY <3>1 DEF TypeOK, CpuType
    <3>3. /\ cpu'[h].queue = cpu[h].queue \cup {t} /\ cpu'[h].current = cpu[h].current
          /\ cpu'[h].previous = cpu[h].previous /\ cpu'[h].pc = cpu[h].pc
          /\ cpu'[h].arg = cpu[h].arg /\ cpu'[h].aim = cpu[h].aim /\ cpu'[h].ipi = cpu[h].ipi
          /\ cpu'[h].idle = cpu[h].idle /\ cpu'[h].throttled = cpu[h].throttled
      BY <3>1 DEF TypeOK, CpuType
    <3>4. /\ \A k \in Cpus \ {h} : cpu'[k].queue = cpu[k].queue
          /\ \A k \in Cpus : cpu'[k].current = cpu[k].current /\ cpu'[k].previous = cpu[k].previous
      BY <3>1, <3>2, <3>3, Zenon
    <3>5. \A k \in Cpus \ {c} :
                  /\ cpu'[k].pc = cpu[k].pc /\ cpu'[k].arg = cpu[k].arg
                  /\ cpu'[k].aim = cpu[k].aim /\ cpu'[k].ipi = cpu[k].ipi
                  /\ cpu'[k].idle = cpu[k].idle /\ cpu'[k].throttled = cpu[k].throttled
      BY <3>1, <3>3, Zenon
    <3> QED BY <2>1, <2>2, <2>5, <3>2, <3>3, <3>4, <3>5, Zenon
  <2> QED BY <2>4, <2>5, Zenon
<1>3. Shape'
  <2>1. cpu[c].pc = "moving" /\ cpu'[c].pc = "moved" /\ cpu'[c].aim \in Cpus
        /\ cpu'[c].current = cpu[c].current /\ cpu'[c].previous = cpu[c].previous
    BY <1>2, Zenon
  <2>2. Registers(c)' BY <2>1, Own, Zenon DEF Registers, Threaded, Threadless
  <2> QED BY <2>2, <1>2, SameShape
<1>4. NoSleep => NoSleep'
  BY <1>2, Told
<1>5. IInv => IInv'
  <2> SUFFICES ASSUME IInv PROVE IInv' OBVIOUS
  <2> USE DEF IInv
  <2>1. TypeOK' /\ Shape' BY <1>1, <1>3
  <2>2. PICK t \in Threads, h \in Cpus :
             /\ t = cpu[c].arg /\ cpu[c].pc = "moving" /\ cpu'[c].pc = "moved"
             /\ cpu'[c].aim = h /\ thread' = thread /\ machine' = machine
             /\ cpu'[h].queue = cpu[h].queue \cup {t}
             /\ \A k \in Cpus \ {h} : cpu'[k].queue = cpu[k].queue
             /\ \A k \in Cpus \ {c} :
                  /\ cpu'[k].pc = cpu[k].pc /\ cpu'[k].arg = cpu[k].arg
                  /\ cpu'[k].aim = cpu[k].aim /\ cpu'[k].ipi = cpu[k].ipi
             /\ \A k \in Cpus :
                  /\ cpu'[k].current = cpu[k].current
                  /\ cpu'[k].previous = cpu[k].previous
    BY <1>2
  <2>3. Carries(c, t) BY <2>2 DEF Carries
  <2>4. InHand(c, t) /\ c \in Hands(t) BY <2>2, Zenon DEF InHand, Hands
  <2>5. \A k \in Hands(t) : k = c BY <2>4, Zenon DEF Placed, Place
  <2>6. \A k \in Cpus : t \notin cpu[k].queue BY <2>4, <2>5, Zenon DEF Placed, Place, Hands
  <2>7. \A k \in Cpus : ~InHand(k, t)' BY <2>2, <2>5 DEF InHand, Hands
  <2>8. Hands(t)' = {h} BY <2>2, <2>6, <2>7 DEF Hands, InHand
  <2>9. thread[t].dom \in {"Building", "Runnable"} => \A k \in Cpus : ~Preempts(k, t)
    BY <2>6, Zenon DEF Placed, Place
  <2> QED BY <2>1, <2>3, <2>4, <2>7, <2>8, <2>9, Carried, Zenon
<1> QED BY <1>1, <1>3, <1>4, <1>5

\* The end of delegate_aged_sync: an idle processor marked halted is interrupted.
LEMMA StepDelegateKick ==
  ASSUME TypeOK, Shape, NEW c \in Cpus, DelegateKick(c)
  PROVE  /\ TypeOK' /\ Shape' /\ (NoSleep => NoSleep')
         /\ (IInv => IInv')
<1>1. TypeOK'
  <2>1. PICK k \in Cpus, b \in BOOLEAN :
          cpu' = [cpu EXCEPT ![k].ipi = b, ![c].aim = None, ![c].pc = "leave"]
    BY Zenon DEF DelegateKick, Shape, Registers, At
  <2>3. cpu' \in [Cpus -> CpuType] BY <2>1, Names, SetIpi, SetAim, SetPc, Zenon DEF TypeOK
  <2> QED BY <2>3, Zenon DEF TypeOK, DelegateKick
<1>2. /\ cpu[c].pc = "moved" /\ cpu'[c].pc = "leave" /\ thread' = thread /\ machine' = machine
      /\ \A k \in Cpus \ {c} :
           /\ cpu'[k].pc = cpu[k].pc /\ cpu'[k].arg = cpu[k].arg
           /\ cpu'[k].aim = cpu[k].aim /\ (cpu[k].ipi => cpu'[k].ipi)
           /\ cpu'[k].idle = cpu[k].idle /\ cpu'[k].throttled = cpu[k].throttled
           /\ cpu[c].aim = k /\ cpu[k].idle = "halted" => cpu'[k].ipi
      /\ \A k \in Cpus :
           /\ cpu'[k].queue = cpu[k].queue
           /\ cpu'[k].current = cpu[k].current
           /\ cpu'[k].previous = cpu[k].previous
  <2>1. PICK h \in Cpus : h = cpu[c].aim BY Zenon DEF DelegateKick, Shape, Registers, At
  <2>2. cpu[c].pc = "moved" /\ thread' = thread /\ machine' = machine BY Zenon DEF DelegateKick, At
  <2>3. cpu' = [cpu EXCEPT ![h].ipi = @ \/ cpu[h].idle = "halted", ![c].aim = None, ![c].pc = "leave"]
    BY <2>1, Zenon DEF DelegateKick
  <2>4. CASE h = c
    <3>1. cpu'[c].queue = cpu[c].queue /\ cpu'[c].pc = "leave"
          /\ cpu'[c].current = cpu[c].current /\ cpu'[c].previous = cpu[c].previous
          /\ \A k \in Cpus \ {c} : cpu'[k] = cpu[k]
      BY <2>3, <2>4 DEF TypeOK, CpuType
    <3> QED BY <2>1, <2>2, <2>4, <3>1, Zenon
  <2>5. CASE h # c
    <3>1. cpu'[c] = [cpu[c] EXCEPT !.aim = None, !.pc = "leave"]
          /\ cpu'[h] = [cpu[h] EXCEPT !.ipi = @ \/ cpu[h].idle = "halted"]
          /\ \A k \in Cpus \ {c, h} : cpu'[k] = cpu[k]
      BY <2>3, <2>5, Zenon DEF TypeOK
    <3>2. cpu'[c].queue = cpu[c].queue /\ cpu'[c].pc = "leave"
          /\ cpu'[c].current = cpu[c].current /\ cpu'[c].previous = cpu[c].previous
      BY <3>1 DEF TypeOK, CpuType
    <3>3. /\ cpu'[h].queue = cpu[h].queue /\ cpu'[h].current = cpu[h].current
          /\ cpu'[h].previous = cpu[h].previous /\ cpu'[h].pc = cpu[h].pc
          /\ cpu'[h].arg = cpu[h].arg /\ cpu'[h].aim = cpu[h].aim
          /\ cpu'[h].idle = cpu[h].idle /\ cpu'[h].throttled = cpu[h].throttled
          /\ cpu'[h].ipi = (cpu[h].ipi \/ cpu[h].idle = "halted")
      BY <3>1 DEF TypeOK, CpuType
    <3>4. \A k \in Cpus : cpu'[k].queue = cpu[k].queue /\ cpu'[k].current = cpu[k].current
                          /\ cpu'[k].previous = cpu[k].previous
      BY <3>1, <3>2, <3>3, Zenon
    <3>5. \A k \in Cpus \ {c} :
                /\ cpu'[k].pc = cpu[k].pc /\ cpu'[k].arg = cpu[k].arg
                /\ cpu'[k].aim = cpu[k].aim /\ (cpu[k].ipi => cpu'[k].ipi)
                /\ cpu'[k].idle = cpu[k].idle /\ cpu'[k].throttled = cpu[k].throttled
                /\ cpu[c].aim = k /\ cpu[k].idle = "halted" => cpu'[k].ipi
      BY <2>1, <3>1, <3>3, ZenonT(30)
    <3> QED BY <2>2, <3>2, <3>4, <3>5, Zenon
  <2> QED BY <2>4, <2>5, Zenon
<1>3. Shape'
  <2>1. Registers(c)' BY <1>2, Own DEF Registers, Threaded, Threadless
  <2> QED BY <2>1, <1>2, SameShape, Zenon
<1>4. NoSleep => NoSleep'
  <2>1. ASSUME NEW k \in Cpus \ {c}
        PROVE  cpu[k].pc = "asleep" => cpu[k].idle = "halted"
    BY DEF Shape, Registers
  <2> QED BY <1>2, <2>1, Told, Zenon
<1>5. IInv => IInv'
  <2> SUFFICES ASSUME IInv PROVE IInv' OBVIOUS
  <2>1. TypeOK' /\ Shape' BY <1>1, <1>3
  <2>2. Quietly(c, {}) BY <1>2, Zenon DEF IInv, Quietly, Busy
  <2> QED BY <2>1, <2>2, Quiet
<1> QED BY <1>1, <1>3, <1>4, <1>5
==============================================================================
