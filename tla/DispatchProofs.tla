---------------------------- MODULE DispatchProofs ----------------------------
(***************************************************************************)
(* Steps of Dispatch that move a thread between processors or end it: the  *)
(* steals, the claim, the switch, the termination and its sweep.  Then the *)
(* inductive invariant and what follows from it.                           *)
(***************************************************************************)
EXTENDS DispatchSteps

\* steal_aged_sync takes a hinted thread out of another's queue.
LEMMA StepStealAgedSync ==
  ASSUME TypeOK, Shape, NEW c \in Cpus, NEW k \in Cpus, StealAgedSync(c, k)
  PROVE  /\ TypeOK' /\ Shape' /\ (NoSleep => NoSleep')
         /\ (IInv => IInv')
<1>1. TypeOK'
  <2>1. cpu[k].queue \in SUBSET Threads BY CpuFields, Zenon DEF TypeOK
  <2>2. PICK t \in Threads : cpu' = [cpu EXCEPT ![k].queue = @ \ {t}, ![k].hint = None,
                          ![c].arg = t, ![c].pc = "stolen"]
    BY <2>1, Zenon DEF StealAgedSync
  <2>3. cpu[k].queue \ {t} \in SUBSET Threads BY <2>1, Zenon
  <2>4. cpu' \in [Cpus -> CpuType] BY <2>2, <2>3, Names, SetQueue, SetHint, SetArg, SetPc, Zenon DEF TypeOK
  <2> QED BY <2>4, Zenon DEF TypeOK, StealAgedSync
<1>2. /\ k # c /\ cpu[c].pc = "polled" /\ cpu'[c].pc = "stolen" /\ thread' = thread /\ machine' = machine
      /\ cpu'[c].queue = cpu[c].queue
      /\ \E t \in Threads :
           /\ t \in cpu[k].queue /\ Eligible(t) /\ cpu'[k].queue = cpu[k].queue \ {t}
           /\ cpu'[c].arg = t
      /\ \A j \in Cpus \ {c, k} : cpu'[j] = cpu[j]
      /\ \A j \in Cpus \ {c} :
           /\ cpu'[j].pc = cpu[j].pc /\ cpu'[j].arg = cpu[j].arg
           /\ cpu'[j].aim = cpu[j].aim /\ cpu'[j].ipi = cpu[j].ipi
           /\ cpu'[j].idle = cpu[j].idle /\ cpu'[j].throttled = cpu[j].throttled
      /\ \A j \in Cpus :
           /\ cpu'[j].current = cpu[j].current
           /\ cpu'[j].previous = cpu[j].previous
  <2>1. cpu[k].queue \in SUBSET Threads BY CpuFields DEF TypeOK
  <2>2. PICK t \in Threads : t = cpu[k].hint /\ t \in cpu[k].queue /\ Eligible(t)
    BY <2>1, Zenon DEF StealAgedSync
  <2>3. k # c /\ cpu[c].pc = "polled" /\ thread' = thread /\ machine' = machine BY Zenon DEF StealAgedSync, At
  <2>4. cpu' = [cpu EXCEPT ![k].queue = @ \ {t}, ![k].hint = None, ![c].arg = t, ![c].pc = "stolen"]
    BY <2>2, Zenon DEF StealAgedSync
  <2>5. cpu'[c] = [cpu[c] EXCEPT !.arg = t, !.pc = "stolen"]
        /\ cpu'[k] = [cpu[k] EXCEPT !.queue = @ \ {t}, !.hint = None]
        /\ \A j \in Cpus \ {c, k} : cpu'[j] = cpu[j]
    BY <2>3, <2>4, Zenon DEF TypeOK, CpuType
  <2>6. cpu'[c].queue = cpu[c].queue /\ cpu'[c].pc = "stolen" /\ cpu'[c].arg = t
          /\ cpu'[c].current = cpu[c].current /\ cpu'[c].previous = cpu[c].previous
      BY <2>5 DEF TypeOK, CpuType
  <2>7. /\ cpu'[k].queue = cpu[k].queue \ {t} /\ cpu'[k].current = cpu[k].current
          /\ cpu'[k].previous = cpu[k].previous /\ cpu'[k].pc = cpu[k].pc
          /\ cpu'[k].arg = cpu[k].arg /\ cpu'[k].aim = cpu[k].aim /\ cpu'[k].ipi = cpu[k].ipi
          /\ cpu'[k].idle = cpu[k].idle /\ cpu'[k].throttled = cpu[k].throttled
      BY <2>5 DEF TypeOK, CpuType
  <2>8. \A j \in Cpus : cpu'[j].current = cpu[j].current /\ cpu'[j].previous = cpu[j].previous
    BY <2>5, <2>6, <2>7, Zenon
  <2>9. \A j \in Cpus \ {c} :
                /\ cpu'[j].pc = cpu[j].pc /\ cpu'[j].arg = cpu[j].arg
                /\ cpu'[j].aim = cpu[j].aim /\ cpu'[j].ipi = cpu[j].ipi
                /\ cpu'[j].idle = cpu[j].idle /\ cpu'[j].throttled = cpu[j].throttled
    BY <2>5, <2>7, Zenon
  <2>10. \E s \in Threads :
                /\ s \in cpu[k].queue /\ Eligible(s) /\ cpu'[k].queue = cpu[k].queue \ {s}
                /\ cpu'[c].arg = s
    BY <2>2, <2>6, <2>7, Zenon
  <2> QED BY <2>3, <2>5, <2>6, <2>8, <2>9, <2>10, Zenon
<1>3. Shape'
  <2>1. Registers(c)' BY <1>2, Own DEF Registers, Threaded, Threadless
  <2> QED BY <2>1, <1>2, SameShape
<1>4. NoSleep => NoSleep'
  BY <1>2, Told
<1>5. IInv => IInv'
  <2> SUFFICES ASSUME IInv PROVE IInv' OBVIOUS
  <2> USE DEF IInv
  <2>1. TypeOK' /\ Shape' BY <1>1, <1>3, Zenon
  <2>2. PICK t \in Threads : t \in cpu[k].queue /\ Eligible(t) /\ cpu'[k].queue = cpu[k].queue \ {t}
                             /\ cpu'[c].arg = t
    BY <1>2, Zenon
  <2>3. Carries(c, t) BY <2>2, <1>2, Zenon DEF Carries
  <2>4. k \in Hands(t) /\ k # c BY <2>2, <1>2, Zenon DEF Hands
  <2>5. \A j \in Hands(t) : j = k BY <2>4, Zenon DEF Placed, Place
  <2>6. \A j \in Cpus : t \notin cpu'[j].queue BY <2>2, <2>5, <1>2 DEF Hands
  <2>7. \A j \in Cpus \ {c} : ~InHand(j, t)'
    <3>1. ASSUME NEW j \in Cpus \ {c}, InHand(j, t)' PROVE FALSE
      <4>1. InHand(j, t) BY <3>1, <1>2, Zenon DEF InHand
      <4>2. j = k BY <4>1, <2>5, Zenon DEF InHand, Hands
      <4> QED BY <4>1, <4>2, <2>2, Zenon DEF Placed, Place
    <3> QED BY <3>1
  <2>8. Hands(t)' = {c} BY <2>2, <2>6, <2>7, <1>2 DEF Hands, InHand
  <2>9. \A j \in Cpus : ~Preempts(j, t) BY <2>2, EligibleUnheld, Zenon DEF Eligible, Parked, IsUser
  <2> QED BY <2>1, <2>3, <2>4, <2>6, <2>8, <2>9, Carried, Zenon
<1> QED BY <1>1, <1>3, <1>4, <1>5

\* steal_aged_sync puts the stolen thread into its own queue.
LEMMA StepStolen ==
  ASSUME TypeOK, Shape, NEW c \in Cpus, Stolen(c)
  PROVE  /\ TypeOK' /\ Shape' /\ (NoSleep => NoSleep')
         /\ (IInv => IInv')
<1>1. TypeOK'
  <2>1. PICK t \in Threads : cpu' = [cpu EXCEPT ![c].queue = @ \cup {t}, ![c].arg = None,
                                                ![c].pc = "turn"]
    BY Zenon DEF Stolen, Shape, Registers, At
  <2>2. cpu[c].queue \cup {t} \in SUBSET Threads BY CpuFields, Zenon DEF TypeOK
  <2>3. cpu' \in [Cpus -> CpuType] BY <2>1, <2>2, Names, SetQueue, SetArg, SetPc, Zenon DEF TypeOK
  <2> QED BY <2>3, Zenon DEF TypeOK, Stolen
<1>2. /\ \A k \in Cpus \ {c} : cpu'[k] = cpu[k]
      /\ cpu'[c].current = cpu[c].current /\ cpu'[c].previous = cpu[c].previous
      /\ cpu[c].pc = "stolen" /\ cpu'[c].pc = "turn" /\ thread' = thread /\ machine' = machine
      /\ cpu[c].arg \in Threads /\ cpu'[c].queue = cpu[c].queue \cup {cpu[c].arg}
  <2>1. PICK t \in Threads : t = cpu[c].arg BY Zenon DEF Stolen, Shape, Registers, At
  <2>2. cpu' = [cpu EXCEPT ![c].queue = @ \cup {t}, ![c].arg = None, ![c].pc = "turn"]
    BY <2>1 DEF Stolen
  <2>3. cpu[c].pc = "stolen" /\ thread' = thread /\ machine' = machine BY DEF Stolen, At
  <2>4. /\ \A k \in Cpus \ {c} : cpu'[k] = cpu[k]
        /\ cpu'[c].current = cpu[c].current /\ cpu'[c].previous = cpu[c].previous
        /\ cpu'[c].pc = "turn" /\ cpu'[c].queue = cpu[c].queue \cup {t}
    BY <2>2 DEF TypeOK, CpuType
  <2> QED BY <2>1, <2>3, <2>4, Zenon
<1>3. Shape'
  <2>1. Registers(c)' BY <1>2, Own, Zenon DEF Registers, Threaded, Threadless
  <2> QED BY <2>1, <1>2, OwnShape, Zenon
<1>4. NoSleep => NoSleep'
  BY <1>2, Awake, Zenon
<1>5. IInv => IInv'
  <2> SUFFICES ASSUME IInv PROVE IInv' OBVIOUS
  <2> USE DEF IInv
  <2>1. TypeOK' /\ Shape' BY <1>1, <1>3
  <2>2. PICK t \in Threads : t = cpu[c].arg /\ cpu'[c].queue = cpu[c].queue \cup {t} BY <1>2, Zenon
  <2>3. Carries(c, t) BY <2>2, <1>2, Zenon DEF Carries
  <2>4. InHand(c, t) /\ c \in Hands(t) BY <2>2, <1>2, Zenon DEF InHand, Hands
  <2>5. \A k \in Hands(t) : k = c BY <2>4, Zenon DEF Placed, Place
  <2>6. \A k \in Cpus : t \notin cpu[k].queue BY <2>4, <2>5, Zenon DEF Placed, Place, Hands
  <2>7. \A k \in Cpus : ~InHand(k, t)' BY <2>2, <2>5, <1>2 DEF InHand, Hands
  <2>8. Hands(t)' = {c} BY <2>2, <2>6, <2>7, <1>2 DEF Hands, InHand
  <2>9. thread[t].dom \in {"Building", "Runnable"} => \A k \in Cpus : ~Preempts(k, t)
    BY <2>6, Zenon DEF Placed, Place
  <2> QED BY <2>1, <2>3, <2>4, <2>7, <2>8, <2>9, Carried, Zenon
<1> QED BY <1>1, <1>3, <1>4, <1>5

\* steal_work moves a thread under both run queues.
LEMMA StepStealWork ==
  ASSUME TypeOK, Shape, NEW c \in Cpus, NEW k \in Cpus, NEW t \in Threads, StealWork(c, k, t)
  PROVE  /\ TypeOK' /\ Shape' /\ (NoSleep => NoSleep')
         /\ (IInv => IInv')
<1>1. TypeOK'
  <2>1. cpu[k].queue \ {t} \in SUBSET Threads /\ cpu[c].queue \cup {t} \in SUBSET Threads
    BY CpuFields, Zenon DEF TypeOK
  <2>2. c # k BY Zenon DEF StealWork
  <2>3. cpu' = [cpu EXCEPT ![k].queue = @ \ {t}, ![c].queue = @ \cup {t}, ![c].pc = "turn"]
    BY Zenon DEF StealWork
  <2>4. cpu' \in [Cpus -> CpuType] BY <2>1, <2>2, <2>3, Names, SetQueue, SetPc, Zenon DEF TypeOK
  <2> QED BY <2>4, Zenon DEF TypeOK, StealWork
<1>2. /\ k # c /\ cpu[c].pc = "polled" /\ cpu'[c].pc = "turn" /\ thread' = thread /\ machine' = machine
      /\ t \in cpu[k].queue /\ Parked(t)
      /\ cpu'[c].queue = cpu[c].queue \cup {t} /\ cpu'[k].queue = cpu[k].queue \ {t}
      /\ \A j \in Cpus \ {c, k} : cpu'[j] = cpu[j]
      /\ \A j \in Cpus \ {c} :
           /\ cpu'[j].pc = cpu[j].pc /\ cpu'[j].arg = cpu[j].arg
           /\ cpu'[j].aim = cpu[j].aim /\ cpu'[j].ipi = cpu[j].ipi
           /\ cpu'[j].idle = cpu[j].idle /\ cpu'[j].throttled = cpu[j].throttled
      /\ \A j \in Cpus :
           /\ cpu'[j].current = cpu[j].current
           /\ cpu'[j].previous = cpu[j].previous
  <2>3. k # c /\ cpu[c].pc = "polled" /\ thread' = thread /\ machine' = machine
        /\ t \in cpu[k].queue /\ Parked(t)
    BY Zenon DEF StealWork, At
  <2>4. cpu' = [cpu EXCEPT ![k].queue = @ \ {t}, ![c].queue = @ \cup {t}, ![c].pc = "turn"]
    BY DEF StealWork
  <2>5. cpu'[c] = [cpu[c] EXCEPT !.queue = @ \cup {t}, !.pc = "turn"]
        /\ cpu'[k] = [cpu[k] EXCEPT !.queue = @ \ {t}]
        /\ \A j \in Cpus \ {c, k} : cpu'[j] = cpu[j]
    BY <2>3, <2>4, Zenon DEF TypeOK
  <2>6. cpu'[c].queue = cpu[c].queue \cup {t} /\ cpu'[c].pc = "turn"
          /\ cpu'[c].current = cpu[c].current /\ cpu'[c].previous = cpu[c].previous
      BY <2>5 DEF TypeOK, CpuType
  <2>7. /\ cpu'[k].queue = cpu[k].queue \ {t} /\ cpu'[k].current = cpu[k].current
          /\ cpu'[k].previous = cpu[k].previous /\ cpu'[k].pc = cpu[k].pc
          /\ cpu'[k].arg = cpu[k].arg /\ cpu'[k].aim = cpu[k].aim /\ cpu'[k].ipi = cpu[k].ipi
          /\ cpu'[k].idle = cpu[k].idle /\ cpu'[k].throttled = cpu[k].throttled
      BY <2>5 DEF TypeOK, CpuType
  <2>8. \A j \in Cpus : cpu'[j].current = cpu[j].current /\ cpu'[j].previous = cpu[j].previous
    BY <2>5, <2>6, <2>7, Zenon
  <2>9. \A j \in Cpus \ {c} :
                /\ cpu'[j].pc = cpu[j].pc /\ cpu'[j].arg = cpu[j].arg
                /\ cpu'[j].aim = cpu[j].aim /\ cpu'[j].ipi = cpu[j].ipi
                /\ cpu'[j].idle = cpu[j].idle /\ cpu'[j].throttled = cpu[j].throttled
    BY <2>5, <2>7, Zenon
  <2> QED BY <2>3, <2>5, <2>6, <2>7, <2>8, <2>9, Zenon
<1>3. Shape'
  <2>1. Registers(c)' BY <1>2, Own DEF Registers, Threaded, Threadless
  <2> QED BY <2>1, <1>2, SameShape, Zenon
<1>4. NoSleep => NoSleep'
  BY <1>2, Told
<1>5. IInv => IInv'
  <2> SUFFICES ASSUME IInv PROVE IInv' BY Zenon
  <2> USE DEF IInv
  <2>1. TypeOK' /\ Shape' BY <1>1, <1>3, Zenon
  <2>2. t \in cpu[k].queue /\ Parked(t) /\ cpu'[k].queue = cpu[k].queue \ {t}
        /\ cpu'[c].queue = cpu[c].queue \cup {t} /\ k # c
    BY <1>2, Zenon
  <2>3. Carries(c, t)
    <3>1. \A j \in Cpus : \A s \in Threads \ {t} : s \in cpu'[j].queue <=> s \in cpu[j].queue
      BY <1>2, Zenon
    <3> QED BY <3>1, <1>2, Zenon DEF Carries
  <2>4. k \in Hands(t) BY <2>2, Zenon DEF Hands
  <2>5. \A j \in Hands(t) : j = k BY <2>4, Zenon DEF Placed, Place
  <2>6. \A j \in Cpus \ {c} : t \notin cpu'[j].queue BY <2>2, <2>5, <1>2, Zenon DEF Hands
  <2>7. \A j \in Cpus : ~InHand(j, t)'
    <3>1. ASSUME NEW j \in Cpus, InHand(j, t)' PROVE FALSE
      <4>1. InHand(j, t) BY <3>1, <1>2, Zenon DEF InHand
      <4>2. j = k BY <4>1, <2>5, Zenon DEF InHand, Hands
      <4> QED BY <4>1, <4>2, <2>2, Zenon DEF Placed, Place
    <3> QED BY <3>1, Zenon
  <2>8. Hands(t)' = {c} BY <2>2, <2>6, <2>7, Zenon DEF Hands, InHand
  <2>9. thread[t].dom \in {"Building", "Runnable"} => \A j \in Cpus : ~Preempts(j, t)
    BY <2>2, EligibleUnheld, Zenon DEF Parked
  <2> QED BY <2>1, <2>3, <2>4, <2>7, <2>8, <2>9, Carried, Zenon
<1> QED BY <1>1, <1>3, <1>4, <1>5

\* plan claims the thread it chose, and queues the one it leaves when that could go
\* on running.
LEMMA StepClaim ==
  ASSUME TypeOK, Shape, NEW c \in Cpus, Claim(c)
  PROVE  /\ TypeOK' /\ Shape' /\ (NoSleep => NoSleep')
         /\ (IInv => IInv')
<1>1. TypeOK'
  <2>1. cpu[c] \in CpuType BY DEF TypeOK
  <2>2. cpu[c].queue \in SUBSET Threads /\ cpu[c].current \in Threads \cup {Idle}
        /\ cpu[c].arg \in Threads \cup {Idle} BY <2>1, CpuFields, Zenon DEF Shape, Registers, Claim, At
  <2>3. PICK q \in SUBSET Threads :
         cpu' = [cpu EXCEPT ![c].queue = q, ![c].previous = cpu[c].current, ![c].current = cpu[c].arg, ![c].pc = "switch", ![c].arg = None]
    BY <2>2, Zenon DEF Claim, CurrentRuns, IsUser
  <2>5. cpu' \in [Cpus -> CpuType] BY <2>2, <2>3, Names, SetQueue, SetPrevious, SetCurrent, SetPc, SetArg, ZenonT(30) DEF TypeOK
  <2>6. thread' = thread \/ (cpu[c].arg \in Threads /\ thread' = [thread EXCEPT ![cpu[c].arg].on = c, ![cpu[c].arg].state = "Running"])
    BY <2>2, Zenon DEF Claim
  <2>7. thread' \in [Threads -> ThreadType] BY <2>6, StateNames, SetOn, SetState DEF TypeOK
  <2> QED BY <2>5, <2>7, Zenon DEF TypeOK, Claim
<1>2. /\ \A k \in Cpus \ {c} : cpu'[k] = cpu[k]
      /\ cpu[c].pc = "claim" /\ cpu'[c].pc = "switch" /\ machine' = machine
      /\ cpu'[c].ipi = cpu[c].ipi /\ cpu'[c].arg = None
      /\ cpu[c].arg \in Threads \cup {Idle} /\ cpu[c].arg # cpu[c].current
      /\ cpu'[c].previous = cpu[c].current /\ cpu'[c].current = cpu[c].arg
      /\ cpu'[c].queue = IF CurrentRuns(c) THEN cpu[c].queue \cup {cpu[c].current}
                         ELSE cpu[c].queue
      /\ \A t \in Threads \ {cpu[c].arg} : thread'[t] = thread[t]
      /\ cpu[c].arg \in Threads =>
           /\ thread'[cpu[c].arg].on = c /\ thread'[cpu[c].arg].state = "Running"
           /\ thread'[cpu[c].arg].dom = thread[cpu[c].arg].dom
           /\ thread'[cpu[c].arg].stop = thread[cpu[c].arg].stop
           /\ thread'[cpu[c].arg].resume = thread[cpu[c].arg].resume
  <2>1. cpu[c] \in CpuType BY DEF TypeOK
  <2>2. PICK next \in Threads \cup {Idle} : next = cpu[c].arg /\ next # cpu[c].current
    BY <2>1, CpuFields, Zenon DEF Shape, Registers, Claim, At
  <2>3. PICK q : q = IF CurrentRuns(c) THEN cpu[c].queue \cup {cpu[c].current} ELSE cpu[c].queue
    BY Zenon
  <2>4. cpu' = [cpu EXCEPT ![c].queue = q, ![c].previous = cpu[c].current, ![c].current = next,
                           ![c].pc = "switch", ![c].arg = None]
    BY <2>2, <2>3, Zenon DEF Claim
  <2>5. /\ \A k \in Cpus \ {c} : cpu'[k] = cpu[k]
        /\ cpu'[c].pc = "switch" /\ cpu'[c].ipi = cpu[c].ipi /\ cpu'[c].arg = None
        /\ cpu'[c].previous = cpu[c].current /\ cpu'[c].current = next /\ cpu'[c].queue = q
    BY <2>4 DEF TypeOK, CpuType
  <2>6. cpu[c].pc = "claim" /\ machine' = machine BY Zenon DEF Claim, At
  <2>7. CASE next = Idle
    <3>1. thread' = thread /\ Idle \notin Threads BY <2>7, <2>2, DispatchAssumption, Zenon DEF Claim
    <3> QED BY <2>2, <2>3, <2>5, <2>6, <2>7, <3>1
  <2>8. CASE next # Idle
    <3>1. thread' = [thread EXCEPT ![next].on = c, ![next].state = "Running"] BY <2>8, <2>2, Zenon DEF Claim
    <3>2. /\ \A t \in Threads \ {next} : thread'[t] = thread[t]
          /\ thread'[next].on = c /\ thread'[next].state = "Running"
          /\ thread'[next].dom = thread[next].dom
          /\ thread'[next].stop = thread[next].stop
          /\ thread'[next].resume = thread[next].resume
      BY <2>8, <3>1 DEF TypeOK, ThreadType
    <3> QED BY <2>2, <2>3, <2>5, <2>6, <3>2
  <2> QED BY <2>7, <2>8, Zenon
<1>3. Shape'
  <2>1. cpu[c].current # None BY CpuFields, DispatchAssumption DEF TypeOK
  <2>2. /\ \A k \in Cpus \ {c} : cpu'[k] = cpu[k]
        /\ cpu'[c].pc = "switch" /\ cpu'[c].arg = None /\ cpu[c].arg # cpu[c].current
        /\ cpu'[c].previous = cpu[c].current /\ cpu'[c].current = cpu[c].arg
    BY <1>2, Zenon
  <2>3. Registers(c)' BY <2>1, <2>2 DEF Registers, Threaded, Threadless
  <2> QED BY <2>2, <2>3, OwnShape
<1>4. NoSleep => NoSleep'
  BY <1>2, Awake, Zenon
<1>5. IInv => IInv'
  <2> SUFFICES ASSUME IInv PROVE IInv' OBVIOUS
  <2> USE DEF IInv
  <2>1. TypeOK' /\ Shape' BY <1>1, <1>3
  <2>2. PICK next, me : next = cpu[c].arg /\ me = cpu[c].current OBVIOUS
  <2>3. /\ \A k \in Cpus \ {c} : cpu'[k] = cpu[k]
        /\ cpu[c].pc = "claim" /\ cpu'[c].pc = "switch" /\ machine' = machine
        /\ cpu'[c].ipi = cpu[c].ipi /\ cpu'[c].arg = None
        /\ next \in Threads \cup {Idle} /\ next # me
        /\ cpu'[c].previous = me /\ cpu'[c].current = next
        /\ cpu'[c].queue = IF CurrentRuns(c) THEN cpu[c].queue \cup {me} ELSE cpu[c].queue
        /\ \A t \in Threads \ {next} : thread'[t] = thread[t]
        /\ next \in Threads =>
                /\ thread'[next].on = c /\ thread'[next].state = "Running"
                /\ thread'[next].dom = thread[next].dom
                /\ thread'[next].stop = thread[next].stop
                /\ thread'[next].resume = thread[next].resume
    BY <2>2, <1>2, Zenon
  <2>4. cpu[c].previous = None /\ None \notin Threads
    BY <2>3, DispatchAssumption, Zenon DEF Shape, Registers
  <2>5. ASSUME NEW s \in Threads
        PROVE  /\ thread'[s].dom = thread[s].dom /\ thread'[s].stop = thread[s].stop
               /\ thread'[s].resume = thread[s].resume
    BY <2>3
  <2>6. ASSUME NEW s \in Threads, NEW k \in Cpus \ {c}
        PROVE  /\ Holds(k, s)' <=> Holds(k, s)
               /\ Claims(k, s)' <=> Claims(k, s)
               /\ InHand(k, s)' <=> InHand(k, s)
    BY <2>3 DEF Holds, Claims, InHand
  <2>7. ASSUME NEW s \in Threads
        PROVE  /\ Holds(c, s)' <=> s \in {me, next}
               /\ Holds(c, s) <=> s = me
               /\ ~Claims(c, s)' /\ (Claims(c, s) <=> s = next)
               /\ ~InHand(c, s)' /\ (InHand(c, s) <=> s = next)
    BY <2>2, <2>3, <2>4, Zenon DEF Holds, Claims, InHand
  <2>8. ASSUME NEW s \in Threads, NEW k \in Cpus
        PROVE  (Stopping(k, s)' <=> Stopping(k, s)) /\ ~Stopping(c, s)
    BY <2>3 DEF Stopping
  <2>9. ASSUME NEW s \in Threads \ {me, next} PROVE Hands(s)' = Hands(s)
    BY <2>2, <2>3 DEF Hands
  <2>10. next \in Threads =>
           /\ Hands(next)' = {} /\ thread[next].dom # "Empty"
           /\ \A k \in Cpus : Takes(k, next) => k = c
    <3>1. SUFFICES ASSUME next \in Threads
                   PROVE  /\ Hands(next)' = {} /\ thread[next].dom # "Empty"
                          /\ \A k \in Cpus : Takes(k, next) => k = c
      OBVIOUS
    <3>2. c \in Hands(next) BY <2>2, <2>3, Zenon DEF Hands
    <3>3. next \notin cpu[c].queue /\ \A k \in Hands(next) : k = c
      BY <3>1, <3>2, <2>7, Zenon DEF Placed, Place
    <3>4. Hands(next)' = {} BY <3>1, <3>3, <2>3 DEF Hands
    <3>5. thread[next].dom # "Empty" BY <3>1, <3>2 DEF Life, Belongs
    <3>6. \A k \in Cpus : Takes(k, next) => k = c BY <3>1, <2>7 DEF Held, Marked, Takes
    <3> QED BY <3>4, <3>5, <3>6
  <2>11. me \in Threads =>
           /\ Hands(me) = {} /\ Hands(me)' = IF CurrentRuns(c) THEN {c} ELSE {}
           /\ thread[me].dom # "Empty" /\ \A k \in Cpus : Takes(k, me) => k = c
    <3>1. SUFFICES ASSUME me \in Threads
                   PROVE  /\ Hands(me) = {} /\ Hands(me)' = IF CurrentRuns(c) THEN {c} ELSE {}
                          /\ thread[me].dom # "Empty" /\ \A k \in Cpus : Takes(k, me) => k = c
      OBVIOUS
    <3>2. Hands(me) = {} BY <3>1, <2>2, Zenon DEF Placed, Place
    <3>3. Hands(me)' = IF CurrentRuns(c) THEN {c} ELSE {}
      <4>1. \A k \in Cpus : me \notin cpu[k].queue BY <3>2 DEF Hands
      <4>2. \A k \in Cpus : ~(cpu'[k].pc \in {"moving", "stolen", "claim"} /\ cpu'[k].arg = me)
        BY <3>2, <2>3 DEF Hands
      <4> QED BY <4>1, <4>2, <2>3 DEF Hands
    <3>4. thread[me].dom # "Empty" /\ \A k \in Cpus : Takes(k, me) => k = c
      BY <3>1, <2>7, Zenon DEF Held, Marked, Takes
    <3> QED BY <3>2, <3>3, <3>4
  <2>12. CurrentRuns(c) <=> me \in Threads /\ thread[me].dom \notin {"Empty", "Dead"}
                            /\ thread[me].state = "Running"
    BY <2>2 DEF CurrentRuns, IsUser
  <2>13. Life'
    <3>1. ASSUME NEW s \in Threads PROVE Belongs(s)'
      <4>0. Belongs(s) BY DEF Life
      <4>1. CASE s = next BY <4>0, <4>1, <2>3, <2>10 DEF Belongs
      <4>2. CASE s = me BY <4>0, <4>2, <2>3, <2>11 DEF Belongs
      <4>3. CASE s \notin {me, next} BY <4>0, <4>3, <2>3, <2>9 DEF Belongs
      <4> QED BY <4>1, <4>2, <4>3
    <3>2. ASSUME NEW k \in Cpus PROVE Terminates(k)'
      <4>1. SUFFICES ASSUME cpu'[k].pc \in {"sweep", "kick"}
                     PROVE  machine' = k /\ thread'[cpu'[k].arg].stop
        BY Zenon DEF Terminates
      <4>2. k # c /\ cpu'[k] = cpu[k] BY <4>1, <2>3, Zenon
      <4>3. machine = k /\ thread[cpu[k].arg].stop /\ cpu[k].arg \in Threads
        BY <4>1, <4>2 DEF Life, Terminates, Shape, Registers
      <4> QED BY <4>2, <4>3, <2>3, <2>5, Zenon
    <3> QED BY <3>1, <3>2 DEF Life
  <2>14. Held'
    <3>1. ASSUME NEW s \in Threads, NEW k \in Cpus PROVE Takes(k, s)' <=> Takes(k, s)
      BY <2>6, <2>7 DEF Takes
    <3>2. ASSUME NEW s \in Threads PROVE Marked(s)'
      <4>0. Marked(s) BY DEF Held
      <4>1. CASE s = next BY <4>0, <4>1, <3>1, <2>3, <2>5, <2>10 DEF Marked, Takes
      <4>2. CASE s # next BY <4>0, <4>2, <3>1, <2>3, <2>6, <2>7 DEF Marked
      <4> QED BY <4>1, <4>2
    <3> QED BY <3>2 DEF Held
  <2>15. Placed'
    <3>1. ASSUME NEW s \in Threads, NEW k \in Cpus \ {c}, s # next
          PROVE  Preempts(k, s)' <=> Preempts(k, s)
      BY <3>1, <2>3 DEF Preempts
    <3>2. ASSUME NEW s \in Threads PROVE Place(s)'
      <4>0. Place(s) BY DEF Placed
      <4>1. CASE s = next
        <5>1. \A k \in Cpus : ~Preempts(k, s)'
          BY <4>1, <2>3, <2>10 DEF Preempts, Takes, Holds
        <5>2. \A k \in Cpus : InHand(k, s)' => k \in Hands(s)' BY DEF InHand, Hands
        <5> QED BY <4>1, <5>1, <5>2, <2>3, <2>10, Zenon DEF Place
      <4>2. CASE s = me
        <5>1. \A k \in Cpus : ~InHand(k, s)' BY <4>2, <2>6, <2>7, <2>11 DEF InHand, Hands
        <5>2. \A k \in Cpus : cpu'[k].current # s BY <4>2, <2>3, <2>11 DEF Takes, Holds
        <5>3. \A k \in Cpus \ {c} : ~Preempts(k, s)'
          BY <4>2, <2>3, <2>11 DEF Preempts, Takes, Holds
        <5>4. thread[s].dom \in {"Building", "Runnable"} /\ Preempts(c, s)' => CurrentRuns(c)
          BY <4>2, <2>3, <2>12 DEF Preempts
        <5>5. CurrentRuns(c) => s \in cpu'[c].queue BY <4>2, <2>3, Zenon
        <5>6. thread'[s].state = thread[s].state /\ thread'[s].dom = thread[s].dom BY <4>2, <2>3
        <5> QED BY <4>0, <4>2, <5>1, <5>2, <5>3, <5>4, <5>5, <5>6, <2>11, <2>12 DEF Place
      <4>3. CASE s \notin {me, next}
        <5>1. ~Preempts(c, s)' BY <4>3, <2>3, Zenon DEF Preempts
        <5>2. \A k \in Cpus \ {c} : cpu'[k].queue = cpu[k].queue /\ cpu'[k].current = cpu[k].current
          BY <2>3, Zenon
        <5>3. cpu'[c].current # s BY <4>3, <2>3, Zenon
        <5>4. thread'[s] = thread[s] BY <4>3, <2>3, Zenon
        <5> QED BY <4>0, <4>3, <5>1, <5>2, <5>3, <5>4, <3>1, <2>6, <2>7, <2>9 DEF Place
      <4> QED BY <4>1, <4>2, <4>3
    <3> QED BY <3>2 DEF Placed
  <2>16. Stops'
    <3>1. ASSUME NEW s \in Threads PROVE Unstarted(s)' <=> Unstarted(s) BY <2>5, Zenon DEF Unstarted
    <3>2. ASSUME NEW s \in Threads, Unstarted(s)' PROVE thread'[s].state # "Ready"
      BY <3>1, <3>2, <2>3 DEF Stops
    <3>3. ASSUME NEW k \in Cpus, NEW s \in Threads PROVE Reaches(k, s)'
      <4>0. Reaches(k, s) BY DEF Stops
      <4>1. CASE k # c
        <5>1. \A d \in Cpus : cpu[d].pc = "sweep" => cpu'[d] = cpu[d] BY <2>3, Zenon
        <5> QED BY <4>0, <4>1, <5>1, <3>1, <2>3, <2>5, <2>6, <2>8 DEF Reaches
      <4>2. CASE k = c
        <5>1. ~Claims(k, s)' BY <4>2, <2>7
        <5>2. (cpu[k].current = s /\ Unstarted(s) => cpu[k].ipi \/ \E d \in Cpus \ {k} : Stopping(d, s))'
          <6>1. SUFFICES ASSUME s = next, Unstarted(s) PROVE \E d \in Cpus \ {k} : Stopping(d, s)
            BY <4>2, <3>1, <2>3, <2>8, Zenon
          <6> QED BY <6>1, <4>0, <4>2, <2>7, Zenon DEF Reaches, Stopping
        <5>3. (\/ cpu[k].current = s /\ cpu[k].pc \notin {"switch", "publish", "release"}
               \/ Holds(k, s) /\ cpu[k].current # s
               => thread[s].resume # "user" \/ thread[s].dom = "Dead")'
          BY <4>0, <4>2, <2>2, <2>3, <2>5, <2>7, Zenon DEF Reaches
        <5> QED BY <5>1, <5>2, <5>3, Zenon DEF Reaches
      <4> QED BY <4>1, <4>2
    <3>4. StopReaches'
      <4>1. SUFFICES ASSUME NEW k \in Cpus, cpu'[k].pc = "user", thread'[cpu'[k].current].stop
                     PROVE  cpu'[k].ipi \/ \E d \in Cpus \ {k} :
                              cpu'[d].pc \in {"sweep", "kick"} /\ cpu'[d].arg = cpu'[k].current
        BY Zenon DEF StopReaches, At
      <4>2. k # c /\ cpu'[k] = cpu[k] BY <4>1, <2>3, Zenon
      <4>3. At(k, "user") /\ cpu[k].current \in Threads
        BY <4>1, <4>2, Zenon DEF At, Shape, Registers, Threaded
      <4>4. thread[cpu[k].current].stop BY <4>1, <4>2, <4>3, <2>5, Zenon
      <4>5. cpu[k].ipi \/ \E d \in Cpus \ {k} : Stopping(d, cpu[k].current)
        BY <4>3, <4>4, Zenon DEF Stops, StopReaches, Stopping
      <4> QED BY <4>2, <4>3, <4>5, <2>3 DEF Stopping
    <3> QED BY <3>2, <3>3, <3>4, Zenon DEF Stops
  <2> QED BY <2>1, <2>13, <2>14, <2>15, <2>16
<1> QED BY <1>1, <1>3, <1>4, <1>5, Zenon

\* The processor goes on with its thread, and lets go of the one it left: the end of
\* finish_switch.
LEMMA StepResumed ==
  ASSUME TypeOK, Shape, NEW c \in Cpus, Resumed(c), machine' = machine,
         \/ cpu[c].pc = "switch" /\ cpu[c].previous = Idle
         \/ cpu[c].pc = "release"
  PROVE  /\ TypeOK' /\ Shape' /\ (NoSleep => NoSleep')
         /\ (IInv => IInv')
<1>1. TypeOK'
  <2>1. cpu[c] \in CpuType BY DEF TypeOK
  <2>2. cpu[c].rest \in Pcs /\ cpu[c].current \in Threads \cup {Idle}
    BY <2>1, CpuFields, Names, Zenon
  <2>3. Continue(c, cpu[c].current) \in Pcs
    <3>1. CASE cpu[c].current = Idle BY <3>1, <2>2, Zenon DEF Continue
    <3>2. CASE cpu[c].current \in Threads
      <4>1. thread[cpu[c].current].resume \in {"user", "exit", "leave"}
        BY <3>2, ThreadFields, Zenon DEF TypeOK
      <4> QED BY <4>1, <2>2, Names, Zenon DEF Continue
    <3> QED BY <2>2, <3>1, <3>2, Zenon
  <2>4. cpu' \in [Cpus -> CpuType] BY <2>1, <2>3, SetPc, SetPrevious, SetArg, Zenon DEF TypeOK, Resumed
  <2>5. ASSUME NEW t \in Threads
        PROVE  [thread[t] EXCEPT !.resume = IF t = cpu[c].current THEN "leave" ELSE @,
                                 !.on = IF t = cpu[c].arg THEN None ELSE @] \in ThreadType
    <3>1. thread[t] \in ThreadType BY DEF TypeOK
    <3>2. (IF t = cpu[c].current THEN "leave" ELSE thread[t].resume) \in {"user", "exit", "leave"}
      BY <3>1, ThreadFields, Zenon
    <3>3. (IF t = cpu[c].arg THEN None ELSE thread[t].on) \in Cpus \cup {None}
      BY <3>1, ThreadFields
    <3> QED BY <3>1, <3>2, <3>3, SetResume, SetOn, Zenon
  <2>6. thread' \in [Threads -> ThreadType] BY <2>5, Zenon DEF Resumed
  <2> QED BY <2>4, <2>6 DEF TypeOK
<1>2. /\ \A k \in Cpus \ {c} : cpu'[k] = cpu[k]
      /\ cpu'[c].arg = None /\ cpu'[c].previous = None
      /\ cpu'[c].queue = cpu[c].queue /\ cpu'[c].current = cpu[c].current
      /\ cpu'[c].ipi = cpu[c].ipi
      /\ cpu[c].current = Idle => cpu'[c].pc \in {"turn", "poll", "tail"}
      /\ cpu[c].current \in Threads =>
           cpu'[c].pc \in {"user", "exit", "leave"} /\ cpu'[c].pc = thread[cpu[c].current].resume
      /\ \A t \in Threads :
           /\ thread'[t].dom = thread[t].dom /\ thread'[t].state = thread[t].state
           /\ thread'[t].stop = thread[t].stop
           /\ thread'[t].resume = (IF t = cpu[c].current THEN "leave" ELSE thread[t].resume)
           /\ thread'[t].on = (IF t = cpu[c].arg THEN None ELSE thread[t].on)
  <2>1. PICK p : p = Continue(c, cpu[c].current) OBVIOUS
  <2>2. cpu' = [cpu EXCEPT ![c].pc = p, ![c].previous = None, ![c].arg = None] BY <2>1, Zenon DEF Resumed
  <2>3. /\ \A k \in Cpus \ {c} : cpu'[k] = cpu[k]
        /\ cpu'[c].pc = p /\ cpu'[c].arg = None /\ cpu'[c].previous = None
        /\ cpu'[c].queue = cpu[c].queue /\ cpu'[c].current = cpu[c].current
        /\ cpu'[c].ipi = cpu[c].ipi
    BY <2>2 DEF TypeOK, CpuType
  <2>4. cpu[c].current = Idle => p \in {"turn", "poll", "tail"}
    BY <2>1, CpuFields, Zenon DEF Continue, TypeOK
  <2>5. cpu[c].current \in Threads => p \in {"user", "exit", "leave"} /\ p = thread[cpu[c].current].resume
    BY <2>1, ThreadFields, DispatchAssumption, Zenon DEF Continue, TypeOK
  <2>6. ASSUME NEW t \in Threads
        PROVE  /\ thread'[t].dom = thread[t].dom /\ thread'[t].state = thread[t].state
               /\ thread'[t].stop = thread[t].stop
               /\ thread'[t].resume = (IF t = cpu[c].current THEN "leave" ELSE thread[t].resume)
               /\ thread'[t].on = (IF t = cpu[c].arg THEN None ELSE thread[t].on)
    <3>1. PICK r, o : /\ r = IF t = cpu[c].current THEN "leave" ELSE thread[t].resume
                      /\ o = IF t = cpu[c].arg THEN None ELSE thread[t].on
      BY Zenon
    <3>2. thread'[t] = [thread[t] EXCEPT !.resume = r, !.on = o] BY <3>1, Zenon DEF Resumed
    <3>3. thread[t] \in ThreadType BY DEF TypeOK
    <3> QED BY <3>1, <3>2, <3>3 DEF ThreadType
  <2> QED BY <2>3, <2>4, <2>5, <2>6, Zenon
<1>3. Shape'
  <2>1. cpu[c].current \in Threads \cup {Idle} BY CpuFields, Zenon DEF TypeOK
  <2>2. /\ \A k \in Cpus \ {c} : cpu'[k] = cpu[k]
        /\ cpu'[c].previous = None /\ cpu'[c].current = cpu[c].current
        /\ cpu[c].current = Idle => cpu'[c].pc \in {"turn", "poll", "tail"}
        /\ cpu[c].current \in Threads => cpu'[c].pc \in {"user", "exit", "leave"}
    BY <1>2, Zenon
  <2>3. Registers(c)' BY <2>1, <2>2, Zenon DEF Registers, Threaded, Threadless
  <2> QED BY <2>2, <2>3, OwnShape, Zenon
<1>4. NoSleep => NoSleep'
  <2>1. cpu[c].current \in Threads \cup {Idle} BY CpuFields DEF TypeOK
  <2>2. cpu'[c].pc # "asleep" BY <1>2, <2>1, Zenon
  <2> QED BY <1>2, <2>2, Awake, Zenon
<1>5. IInv => IInv'
  <2> SUFFICES ASSUME IInv PROVE IInv' BY Zenon
  <2> USE DEF IInv
  <2>1. cpu[c].current \in Threads \cup {Idle} BY CpuFields, Zenon DEF TypeOK
  <2>2. cpu'[c].pc \in {"user", "exit", "leave", "turn", "poll", "tail"} BY <2>1, <1>2, Zenon
  <2>3. ASSUME NEW s \in Threads PROVE Holds(c, s)' <=> s = cpu[c].current
    BY <2>2, <1>2, DispatchAssumption DEF Holds
  <2>4. ASSUME NEW s \in Threads PROVE ~Preempts(c, s)'
    BY <2>2, <1>2, DispatchAssumption DEF Preempts
  <2>5. ASSUME NEW s \in Threads, s = cpu[c].arg PROVE Holds(c, s) /\ s # cpu[c].current
    BY <2>5, DispatchAssumption, Zenon DEF Holds, Shape, Registers
  <2>6. cpu'[c].pc = "user" => thread[cpu[c].current].resume = "user"
    BY <2>1, <1>2, DispatchAssumption, Zenon
  <2>7. ASSUME NEW s \in Threads
        PROVE  /\ thread'[s].dom = thread[s].dom /\ thread'[s].stop = thread[s].stop
               /\ thread'[s].resume \in {thread[s].resume, "leave"}
               /\ Holds(c, s)' => Holds(c, s)
               /\ thread'[s].on = thread[s].on \/ (Holds(c, s) /\ ~Holds(c, s)')
               /\ thread'[s].state = thread[s].state
               /\ cpu[c].current = s => thread'[s].resume = "leave"
    <3>1. s = cpu[c].current => Holds(c, s) BY Zenon DEF Holds
    <3> QED BY <3>1, <2>3, <2>5, <1>2, Zenon
  <2>8. Leaves(c) BY <2>2, <2>4, <2>6, <2>7, <1>2, Zenon DEF Leaves
  <2> QED BY <1>1, <1>3, <2>8, Left, Zenon
<1> QED BY <1>1, <1>3, <1>4, <1>5

\* finish_switch lets go of the thread it left.
LEMMA StepRelease ==
  ASSUME TypeOK, Shape, NEW c \in Cpus, Release(c)
  PROVE  /\ TypeOK' /\ Shape' /\ (NoSleep => NoSleep')
         /\ (IInv => IInv')
  BY StepResumed, Zenon DEF Release, At

\* finish_switch, on the stack of the next thread: it looks at the one it left.
LEMMA StepFinishSwitch ==
  ASSUME TypeOK, Shape, NEW c \in Cpus, FinishSwitch(c)
  PROVE  /\ TypeOK' /\ Shape' /\ (NoSleep => NoSleep')
         /\ (IInv => IInv')
<1>1. CASE cpu[c].previous = Idle
  BY <1>1, StepResumed DEF FinishSwitch, At
<1>2. CASE cpu[c].previous # Idle
  <2>1. TypeOK'
    <3>1. cpu[c] \in CpuType /\ cpu[c].previous \in Threads \cup {Idle, None} BY CpuFields, Zenon DEF TypeOK
    <3>2. PICK p \in Pcs : cpu' = [cpu EXCEPT ![c].previous = None, ![c].arg = cpu[c].previous, ![c].pc = p]
      BY <1>2, Names DEF FinishSwitch
    <3>3. cpu' \in [Cpus -> CpuType] BY <3>1, <3>2, SetPrevious, SetArg, SetPc, Zenon DEF TypeOK
    <3> QED BY <1>2, <3>3 DEF FinishSwitch, TypeOK
  <2>2. /\ \A k \in Cpus \ {c} : cpu'[k] = cpu[k]
        /\ thread' = thread /\ machine' = machine
        /\ cpu[c].pc = "switch" /\ cpu[c].arg = None
        /\ cpu[c].previous \in Threads /\ cpu[c].previous # cpu[c].current
        /\ cpu'[c].pc = IF thread[cpu[c].previous].state = "Running" THEN "publish" ELSE "release"
        /\ cpu'[c].arg = cpu[c].previous /\ cpu'[c].previous = None
        /\ cpu'[c].queue = cpu[c].queue /\ cpu'[c].current = cpu[c].current
        /\ cpu'[c].ipi = cpu[c].ipi
    <3>1. cpu[c].pc = "switch" /\ machine' = machine /\ thread' = thread BY <1>2, Zenon DEF FinishSwitch, At
    <3>2. PICK out \in Threads : out = cpu[c].previous /\ out # cpu[c].current
      BY <1>2, <3>1, CpuFields, Zenon DEF TypeOK, Shape, Registers
    <3>3. PICK p : p = IF thread[out].state = "Running" THEN "publish" ELSE "release" BY Zenon
    <3>4. cpu' = [cpu EXCEPT ![c].previous = None, ![c].arg = out, ![c].pc = p]
      BY <1>2, <3>2, <3>3, Zenon DEF FinishSwitch
    <3>5. /\ \A k \in Cpus \ {c} : cpu'[k] = cpu[k]
          /\ cpu'[c].pc = p /\ cpu'[c].arg = out /\ cpu'[c].previous = None
          /\ cpu'[c].queue = cpu[c].queue /\ cpu'[c].current = cpu[c].current
          /\ cpu'[c].ipi = cpu[c].ipi
      BY <3>4 DEF TypeOK, CpuType
    <3>6. cpu[c].arg = None BY <3>1, Zenon DEF Shape, Registers
    <3> QED BY <3>1, <3>2, <3>3, <3>5, <3>6, Zenon
  <2>3. Shape'
    <3>1. Registers(c)' BY <1>2, <2>2, Zenon DEF Registers, Threaded, Threadless
    <3> QED BY <3>1, <2>2, OwnShape, Zenon
  <2>4. NoSleep => NoSleep' BY <2>2, Awake, Zenon
  <2>5. IInv => IInv'
    <3> SUFFICES ASSUME IInv PROVE IInv' OBVIOUS
    <3>1. PICK out \in Threads :
            /\ out = cpu[c].previous
            /\ cpu'[c].pc = IF thread[out].state = "Running" THEN "publish" ELSE "release"
      BY <1>2, <2>2, Zenon
    <3>2. ASSUME NEW s \in Threads PROVE Holds(c, s)' <=> Holds(c, s)
      BY <3>1, <1>2, <2>2, DispatchAssumption, Zenon DEF Holds
    <3>3. ASSUME NEW s \in Threads PROVE Preempts(c, s)' => Preempts(c, s)
      BY <3>1, <1>2, <2>2, DispatchAssumption, Zenon DEF Preempts
    <3>4. Leaves(c) BY <3>1, <3>2, <3>3, <1>2, <2>2, Zenon DEF Leaves
    <3> QED BY <2>1, <2>3, <3>4, Left, Zenon
  <2> QED BY <2>1, <2>3, <2>4, <2>5
<1> QED BY <1>1, <1>2, Zenon

\* finish_switch makes the thread it left ready again.
LEMMA StepPublish ==
  ASSUME TypeOK, Shape, NEW c \in Cpus, Publish(c)
  PROVE  /\ TypeOK' /\ Shape' /\ (NoSleep => NoSleep')
         /\ (IInv => IInv')
<1>1. TypeOK'
  <2>2. cpu' \in [Cpus -> CpuType] BY Names, SetPc DEF TypeOK, Publish
  <2>3. thread' \in [Threads -> ThreadType]
    BY StateNames, SetState DEF TypeOK, Shape, Registers, At, Threaded, Publish
  <2> QED BY <2>2, <2>3 DEF TypeOK, Publish
<1>2. /\ \A k \in Cpus \ {c} : cpu'[k] = cpu[k]
      /\ cpu[c].pc = "publish" /\ cpu'[c].pc = "release" /\ machine' = machine
      /\ cpu'[c].ipi = cpu[c].ipi /\ cpu'[c].arg = cpu[c].arg
      /\ cpu'[c].current = cpu[c].current /\ cpu'[c].previous = cpu[c].previous
      /\ cpu'[c].queue = cpu[c].queue
      /\ cpu[c].arg \in Threads /\ cpu[c].arg # cpu[c].current
      /\ \A t \in Threads \ {cpu[c].arg} : thread'[t] = thread[t]
      /\ thread'[cpu[c].arg].state = "Ready"
      /\ thread'[cpu[c].arg].on = thread[cpu[c].arg].on
      /\ thread'[cpu[c].arg].dom = thread[cpu[c].arg].dom
      /\ thread'[cpu[c].arg].stop = thread[cpu[c].arg].stop
      /\ thread'[cpu[c].arg].resume = thread[cpu[c].arg].resume
  <2>1. cpu[c].pc = "publish" /\ machine' = machine BY DEF Publish, At
  <2>2. PICK out \in Threads : out = cpu[c].arg /\ out # cpu[c].current
    BY <2>1, Zenon DEF Shape, Registers
  <2>3. cpu' = [cpu EXCEPT ![c].pc = "release"] BY DEF Publish
  <2>4. thread' = [thread EXCEPT ![out].state = "Ready"] BY <2>2 DEF Publish
  <2>5. /\ \A k \in Cpus \ {c} : cpu'[k] = cpu[k]
        /\ cpu'[c].pc = "release" /\ cpu'[c].ipi = cpu[c].ipi /\ cpu'[c].arg = cpu[c].arg
        /\ cpu'[c].current = cpu[c].current /\ cpu'[c].previous = cpu[c].previous
        /\ cpu'[c].queue = cpu[c].queue
    BY <2>3 DEF TypeOK, CpuType
  <2>6. /\ \A t \in Threads \ {out} : thread'[t] = thread[t]
        /\ thread'[out].state = "Ready"
        /\ thread'[out].on = thread[out].on
        /\ thread'[out].dom = thread[out].dom
        /\ thread'[out].stop = thread[out].stop
        /\ thread'[out].resume = thread[out].resume
    BY <2>4 DEF TypeOK, ThreadType
  <2> QED BY <2>1, <2>2, <2>5, <2>6, Zenon
<1>3. Shape'
  <2>1. Registers(c)' BY <1>2, Own, Zenon DEF Registers, Threaded, Threadless
  <2> QED BY <2>1, <1>2, OwnShape, Zenon
<1>4. NoSleep => NoSleep'
  BY <1>2, Awake, Zenon
<1>5. IInv => IInv'
  <2> SUFFICES ASSUME IInv PROVE IInv' OBVIOUS
  <2> USE DEF IInv
  <2>1. TypeOK' /\ Shape' BY <1>1, <1>3
  <2>2. cpu[c].previous = None BY <1>2, Zenon DEF Shape, Registers
  <2>3. ASSUME NEW s \in Threads PROVE Holds(c, s)' <=> Holds(c, s)
    BY <1>2, Zenon DEF Holds
  <2>4. ASSUME NEW s \in Threads PROVE ~Preempts(c, s)'
    BY <2>2, <1>2, DispatchAssumption, Zenon DEF Preempts
  <2>5. ASSUME NEW s \in Threads
        PROVE  /\ thread'[s].dom = thread[s].dom /\ thread'[s].stop = thread[s].stop
               /\ thread'[s].resume = thread[s].resume /\ thread'[s].on = thread[s].on
               /\ thread'[s].state = thread[s].state \/ (thread'[s].state = "Ready" /\ Preempts(c, s))
    BY <1>2, Zenon DEF Preempts
  <2>6. Leaves(c) BY <2>3, <2>4, <2>5, <1>2, Zenon DEF Leaves
  <2> QED BY <2>1, <2>6, Left
<1> QED BY <1>1, <1>3, <1>4, <1>5

\* stop_thread: the thread is dead, and every queue is still to be swept.
LEMMA StepTerminate ==
  ASSUME TypeOK, Shape, NEW c \in Cpus, NEW t \in Threads, Terminate(c, t)
  PROVE  /\ TypeOK' /\ Shape' /\ (NoSleep => NoSleep')
         /\ (IInv => IInv')
<1>1. TypeOK'
  <2>1. thread' \in [Threads -> ThreadType]
    BY SetDom, SetStop, SetWait, SetState, StateNames, Zenon DEF TypeOK, Terminate
  <2>2. Min(Cpus) \in Cpus BY Least, DispatchAssumption
  <2>3. cpu' \in [Cpus -> CpuType] BY <2>2, Names, SetPc, SetArg, SetAim, Zenon DEF TypeOK, Terminate
  <2> QED BY <2>1, <2>3, Zenon DEF TypeOK, Terminate
<1>2. /\ \A k \in Cpus \ {c} : cpu'[k] = cpu[k]
      /\ cpu[c].pc = "user" /\ machine = None /\ machine' = c
      /\ thread[t].dom \in {"Building", "Runnable"}
      /\ cpu'[c].pc = "sweep" /\ cpu'[c].arg = t /\ cpu'[c].aim = Min(Cpus)
      /\ cpu'[c].queue = cpu[c].queue /\ cpu'[c].current = cpu[c].current
      /\ cpu'[c].previous = cpu[c].previous /\ cpu'[c].ipi = cpu[c].ipi
      /\ \A s \in Threads \ {t} : thread'[s] = thread[s]
      /\ thread'[t].dom = "Stopping" /\ thread'[t].stop /\ thread'[t].state = "Dead"
      /\ thread'[t].on = thread[t].on /\ thread'[t].resume = thread[t].resume
  <2>1. cpu[c].pc = "user" /\ machine = None /\ machine' = c
        /\ thread[t].dom \in {"Building", "Runnable"}
    BY Zenon DEF Terminate, At
  <2>2. cpu' = [cpu EXCEPT ![c].pc = "sweep", ![c].arg = t, ![c].aim = Min(Cpus)] BY Zenon DEF Terminate
  <2>3. thread' = [thread EXCEPT ![t].dom = "Stopping", ![t].stop = TRUE,
                                ![t].wait = FALSE, ![t].state = "Dead"]
    BY Zenon DEF Terminate
  <2>4. PICK m : m = Min(Cpus) OBVIOUS
  <2>5. /\ \A k \in Cpus \ {c} : cpu'[k] = cpu[k]
        /\ cpu'[c].pc = "sweep" /\ cpu'[c].arg = t /\ cpu'[c].aim = m
        /\ cpu'[c].queue = cpu[c].queue /\ cpu'[c].current = cpu[c].current
        /\ cpu'[c].previous = cpu[c].previous /\ cpu'[c].ipi = cpu[c].ipi
    BY <2>2, <2>4 DEF TypeOK, CpuType
  <2>6. /\ \A s \in Threads \ {t} : thread'[s] = thread[s]
        /\ thread'[t].dom = "Stopping" /\ thread'[t].stop /\ thread'[t].state = "Dead"
        /\ thread'[t].on = thread[t].on /\ thread'[t].resume = thread[t].resume
    BY <2>3 DEF TypeOK, ThreadType
  <2> QED BY <2>1, <2>4, <2>5, <2>6, Zenon
<1>3. Shape'
  <2>1. Min(Cpus) \in Cpus BY Least, DispatchAssumption
  <2>2. Registers(c)' BY <2>1, <1>2, Own DEF Registers, Threaded, Threadless
  <2> QED BY <2>2, <1>2, OwnShape, Zenon
<1>4. NoSleep => NoSleep'
  BY <1>2, Awake, Zenon
<1>5. IInv => IInv'
  <2> SUFFICES ASSUME IInv PROVE IInv' OBVIOUS
  <2> USE DEF IInv
  <2>1. TypeOK' /\ Shape' BY <1>1, <1>3
  <2>2. /\ \A k \in Cpus \ {c} : cpu'[k] = cpu[k]
        /\ cpu[c].pc = "user" /\ machine = None /\ machine' = c
        /\ thread[t].dom \in {"Building", "Runnable"}
        /\ cpu'[c].pc = "sweep" /\ cpu'[c].arg = t /\ cpu'[c].aim = Min(Cpus)
        /\ cpu'[c].queue = cpu[c].queue /\ cpu'[c].current = cpu[c].current
        /\ cpu'[c].previous = cpu[c].previous /\ cpu'[c].ipi = cpu[c].ipi
        /\ \A s \in Threads \ {t} : thread'[s] = thread[s]
        /\ thread'[t].dom = "Stopping" /\ thread'[t].stop /\ thread'[t].state = "Dead"
        /\ thread'[t].on = thread[t].on /\ thread'[t].resume = thread[t].resume
    BY <1>2, Zenon
  <2>3. \A k \in Cpus : cpu[k].pc \notin {"sweep", "kick"}
    BY <2>2, DispatchAssumption, Zenon DEF Life, Terminates
  <2>4. ASSUME NEW s \in Threads PROVE Hands(s)' = Hands(s) BY <2>2 DEF Hands
  <2>5. ASSUME NEW s \in Threads, NEW k \in Cpus
        PROVE  /\ Holds(k, s)' <=> Holds(k, s)
               /\ Claims(k, s)' <=> Claims(k, s)
               /\ InHand(k, s)' <=> InHand(k, s)
               /\ ~Stopping(k, s)
               /\ cpu'[k].current = cpu[k].current /\ cpu'[k].ipi = cpu[k].ipi
               /\ cpu'[k].queue = cpu[k].queue
    BY <2>2, <2>3 DEF Holds, Claims, InHand, Stopping
  <2>6. Life'
    <3>1. ASSUME NEW s \in Threads PROVE Belongs(s)' BY <2>2, <2>4 DEF Life, Belongs
    <3>2. ASSUME NEW k \in Cpus PROVE Terminates(k)' BY <2>2, <2>3 DEF Terminates
    <3> QED BY <3>1, <3>2, Zenon DEF Life
  <2>7. Held'
    <3>1. ASSUME NEW s \in Threads PROVE Marked(s)'
      <4>1. Marked(s) BY Zenon DEF Held
      <4>2. /\ thread'[s].on = thread[s].on
            /\ thread[s].dom = "Dead" => thread'[s].dom = "Dead"
            /\ thread'[s].dom = "Empty" => thread[s].dom = "Empty"
        BY <2>2
      <4>3. \A k \in Cpus : (Holds(k, s)' <=> Holds(k, s)) /\ (Claims(k, s)' <=> Claims(k, s))
        BY <2>5, Zenon
      <4> QED BY <4>1, <4>2, <4>3, MarkedKept, Zenon
    <3> QED BY <3>1 DEF Held
  <2>8. Placed'
    <3>1. ASSUME NEW s \in Threads PROVE Place(s)'
      <4>0. Place(s) BY Zenon DEF Placed
      <4>1. CASE s = t
        <5>1. thread'[s].state = "Dead" /\ thread'[s].dom = "Stopping" BY <4>1, <2>2, Zenon
        <5>2. \A k \in Cpus : /\ InHand(k, s)' <=> InHand(k, s)
                              /\ cpu'[k].current = cpu[k].current
                              /\ cpu'[k].queue = cpu[k].queue
          BY <2>5, Zenon
        <5>3. Hands(s)' = Hands(s) BY <2>4
        <5> QED BY <4>0, <5>1, <5>2, <5>3, PlaceDead, Zenon
      <4>2. CASE s # t
        <5>1. \A k \in Cpus : Preempts(k, s)' <=> Preempts(k, s) BY <4>2, <2>2 DEF Preempts
        <5>2. thread'[s] = thread[s] BY <4>2, <2>2, Zenon
        <5>3. Hands(s)' = Hands(s) BY <2>4
        <5> QED BY <4>0, <5>1, <5>2, <5>3, <2>5, PlaceKept, Zenon
      <4> QED BY <4>1, <4>2, Zenon
    <3> QED BY <3>1, Zenon DEF Placed
  <2>9. Stops'
    <3>1. ASSUME NEW s \in Threads \ {t} PROVE Unstarted(s)' <=> Unstarted(s)
      BY <2>2, Zenon DEF Unstarted
    <3>2. ASSUME NEW s \in Threads, Unstarted(s)' PROVE thread'[s].state # "Ready"
      BY <3>1, <3>2, <2>2 DEF Stops
    <3>3. ASSUME NEW k \in Cpus, NEW s \in Threads PROVE Reaches(k, s)'
      <4>0. Reaches(k, s) BY Zenon DEF Stops
      <4>1. (Claims(k, s) /\ Unstarted(s) =>
               \E d \in Cpus \ {k} : cpu[d].pc = "sweep" /\ cpu[d].arg = s /\ cpu[d].aim <= k)'
        <5>1. CASE s # t BY <5>1, <4>0, <3>1, <2>3, <2>5, Zenon DEF Reaches
        <5>2. CASE s = t
          <6>1. Min(Cpus) <= k BY Least, DispatchAssumption, Zenon
          <6>2. Claims(k, s)' => k # c BY <2>2, Zenon DEF Claims
          <6> QED BY <5>2, <6>1, <6>2, <2>2
        <5> QED BY <5>1, <5>2, Zenon
      <4>2. (cpu[k].current = s /\ Unstarted(s) => cpu[k].ipi \/ \E d \in Cpus \ {k} : Stopping(d, s))'
        <5>1. CASE s # t BY <5>1, <4>0, <3>1, <2>5, Zenon DEF Reaches
        <5>2. CASE s = t /\ k # c BY <5>2, <2>2, Zenon DEF Stopping
        <5>3. CASE s = t /\ k = c
          BY <5>3, <4>0, <2>2 DEF Reaches, Unstarted
        <5> QED BY <5>1, <5>2, <5>3, Zenon
      <4>3. (\/ cpu[k].current = s /\ cpu[k].pc \notin {"switch", "publish", "release"}
             \/ Holds(k, s) /\ cpu[k].current # s
             => thread[s].resume # "user" \/ thread[s].dom = "Dead")'
        <5>1. /\ thread'[s].resume = thread[s].resume
              /\ thread[s].dom = "Dead" => thread'[s].dom = "Dead"
          BY <2>2
        <5>2. cpu'[k].pc \notin {"switch", "publish", "release"}
                => cpu[k].pc \notin {"switch", "publish", "release"}
          BY <2>2, Zenon
        <5>3. cpu'[k].current = cpu[k].current /\ (Holds(k, s)' <=> Holds(k, s)) BY <2>5, Zenon
        <5> QED BY <4>0, <5>1, <5>2, <5>3, Zenon DEF Reaches
      <4> QED BY <4>1, <4>2, <4>3, Zenon DEF Reaches
    <3>4. StopReaches'
      <4>1. SUFFICES ASSUME NEW k \in Cpus, cpu'[k].pc = "user", thread'[cpu'[k].current].stop
                     PROVE  cpu'[k].ipi \/ \E d \in Cpus \ {k} :
                              cpu'[d].pc \in {"sweep", "kick"} /\ cpu'[d].arg = cpu'[k].current
        BY Zenon DEF StopReaches, At
      <4>2. PICK s \in Threads : s = cpu'[k].current
        BY <4>1, <2>1, Zenon DEF Shape, Registers, Threaded
      <4>3. k # c /\ cpu'[k] = cpu[k] BY <4>1, <2>2, Zenon
      <4>4. CASE s = t BY <4>2, <4>3, <4>4, <2>2
      <4>5. CASE s # t
        <5>1. thread[s].stop BY <4>1, <4>2, <4>5, <2>2, Zenon
        <5> QED BY <5>1, <4>1, <4>2, <4>3, <2>3, Zenon DEF Stops, StopReaches, At
      <4> QED BY <4>4, <4>5, Zenon
    <3> QED BY <3>2, <3>3, <3>4, Zenon DEF Stops
  <2> QED BY <2>1, <2>6, <2>7, <2>8, <2>9, Zenon
<1> QED BY <1>1, <1>3, <1>4, <1>5, Zenon

\* stop_thread takes the thread out of one processor's queue.
LEMMA StepSweep ==
  ASSUME TypeOK, Shape, NEW c \in Cpus, Sweep(c)
  PROVE  /\ TypeOK' /\ Shape' /\ (NoSleep => NoSleep')
         /\ (IInv => IInv')
<1>1. TypeOK'
  <2> DEFINE t == cpu[c].arg
             k == cpu[c].aim
             later == {j \in Cpus : j > k}
             m == IF later = {} THEN None ELSE Min(later)
             p == IF later = {} THEN "kick" ELSE cpu[c].pc
             aimed == [cpu EXCEPT ![c].aim = m, ![c].pc = p]
  <2>1. k \in Cpus BY Zenon DEF Sweep, Shape, Registers, At
  <2>2. cpu[c] \in CpuType /\ cpu[c].pc \in Pcs BY CpuFields, Zenon DEF TypeOK
  <2>3. m \in Cpus \cup {None} /\ p \in Pcs BY <2>2, Least, Names, Zenon
  <2>4. cpu' = [aimed EXCEPT ![k].queue = @ \ {t},
                  ![k].hint = IF t \in cpu[k].queue /\ @ = t THEN None ELSE @]
    BY Zenon DEF Sweep
  <2> HIDE DEF m, p, later
  <2>5. aimed \in [Cpus -> CpuType] BY <2>2, <2>3, SetAim, SetPc, Zenon DEF TypeOK
  <2> HIDE DEF aimed
  <2>6. aimed[k].queue \ {t} \in SUBSET Threads BY <2>1, <2>5, CpuFields, Zenon
  <2>7. aimed[k].hint \in Threads \cup {None} BY <2>1, <2>5, CpuFields, Zenon
  <2>8. cpu' \in [Cpus -> CpuType] BY <2>1, <2>4, <2>5, <2>6, <2>7, SetQueue, SetHint, Zenon
  <2> QED BY <2>8, Zenon DEF TypeOK, Sweep
<1>2. /\ thread' = thread /\ machine' = machine
      /\ cpu[c].pc = "sweep" /\ cpu[c].aim \in Cpus /\ cpu[c].arg \in Threads
      /\ cpu[cpu[c].aim].pc # "claim"
      /\ cpu'[cpu[c].aim].queue = cpu[cpu[c].aim].queue \ {cpu[c].arg}
      /\ cpu'[c].pc = "sweep" \/ cpu'[c].pc = "kick"
      /\ cpu'[c].pc = "sweep" => cpu'[c].aim \in Cpus
      /\ \A j \in Cpus : j > cpu[c].aim => cpu'[c].pc = "sweep" /\ cpu'[c].aim <= j
      /\ \A k \in Cpus \ {c} :
           /\ cpu'[k].pc = cpu[k].pc /\ cpu'[k].aim = cpu[k].aim
           /\ cpu'[k].throttled = cpu[k].throttled
      /\ \A k \in Cpus :
           /\ k # cpu[c].aim => cpu'[k].queue = cpu[k].queue
           /\ cpu'[k].current = cpu[k].current /\ cpu'[k].previous = cpu[k].previous
           /\ cpu'[k].arg = cpu[k].arg /\ cpu'[k].ipi = cpu[k].ipi
           /\ cpu'[k].idle = cpu[k].idle
  <2> DEFINE t == cpu[c].arg
             k == cpu[c].aim
             later == {j \in Cpus : j > k}
             m == IF later = {} THEN None ELSE Min(later)
             p == IF later = {} THEN "kick" ELSE cpu[c].pc
             aimed == [cpu EXCEPT ![c].aim = m, ![c].pc = p]
  <2>1. cpu[c].pc = "sweep" /\ thread' = thread /\ machine' = machine BY Zenon DEF Sweep, At
  <2>2. t \in Threads /\ k \in Cpus BY <2>1, Zenon DEF Shape, Registers
  <2>3. cpu' = [aimed EXCEPT ![k].queue = @ \ {t},
                  ![k].hint = IF t \in cpu[k].queue /\ @ = t THEN None ELSE @]
    BY Zenon DEF Sweep
  <2>5. cpu[k].pc # "claim" BY Zenon DEF Sweep, RqFree, At
  <2>6. later # {} => Min(later) \in Cpus /\ \A j \in later : Min(later) <= j BY Least, Zenon
  <2>7. p \in {"sweep", "kick"} /\ (p = "sweep" => m \in Cpus)
        /\ \A j \in Cpus : j > k => p = "sweep" /\ m <= j
    BY <2>1, <2>6, Zenon
  <2>8. m \in Cpus \cup {None} /\ p \in Pcs BY <2>6, <2>7, Names, Zenon
  <2> HIDE DEF m, p, later
  <2>9. /\ aimed \in [Cpus -> CpuType]
        /\ aimed[c] = [cpu[c] EXCEPT !.aim = m, !.pc = p]
        /\ \A j \in Cpus \ {c} : aimed[j] = cpu[j]
    BY <2>8, SetAim, SetPc, Zenon DEF TypeOK
  <2> HIDE DEF aimed
  <2>10. aimed[c].pc = p /\ aimed[c].aim = m
         /\ \A j \in Cpus \ {c} : aimed[j].pc = cpu[j].pc /\ aimed[j].aim = cpu[j].aim
                                  /\ aimed[j].throttled = cpu[j].throttled
    BY <2>9 DEF TypeOK, CpuType
  <2>11. ASSUME NEW j \in Cpus
         PROVE  /\ aimed[j].queue = cpu[j].queue /\ aimed[j].current = cpu[j].current
                /\ aimed[j].previous = cpu[j].previous /\ aimed[j].arg = cpu[j].arg
                /\ aimed[j].ipi = cpu[j].ipi /\ aimed[j].idle = cpu[j].idle
    <3>1. CASE j = c BY <3>1, <2>9 DEF TypeOK, CpuType
    <3>2. CASE j # c BY <3>2, <2>9, Zenon
    <3> QED BY <3>1, <3>2, Zenon
  <2>12. PICK h : cpu' = [aimed EXCEPT ![k].queue = @ \ {t}, ![k].hint = h] BY <2>3, Zenon
  <2> HIDE DEF t, k
  <2>13. cpu'[k] = [aimed[k] EXCEPT !.queue = aimed[k].queue \ {t}, !.hint = h]
         /\ \A j \in Cpus \ {k} : cpu'[j] = aimed[j]
    BY <2>2, <2>9, <2>12
  <2>14. /\ cpu'[k].queue = aimed[k].queue \ {t} /\ cpu'[k].current = aimed[k].current
         /\ cpu'[k].previous = aimed[k].previous /\ cpu'[k].arg = aimed[k].arg
         /\ cpu'[k].ipi = aimed[k].ipi /\ cpu'[k].idle = aimed[k].idle
         /\ cpu'[k].pc = aimed[k].pc /\ cpu'[k].aim = aimed[k].aim
         /\ cpu'[k].throttled = aimed[k].throttled
    BY <2>2, <2>9, <2>13 DEF CpuType
  <2>15. \A j \in Cpus : cpu'[j].pc = aimed[j].pc /\ cpu'[j].aim = aimed[j].aim
                         /\ cpu'[j].throttled = aimed[j].throttled
    BY <2>13, <2>14, Zenon
  <2>16. ASSUME NEW j \in Cpus
         PROVE  /\ j # k => cpu'[j].queue = cpu[j].queue
                /\ cpu'[j].current = cpu[j].current /\ cpu'[j].previous = cpu[j].previous
                /\ cpu'[j].arg = cpu[j].arg /\ cpu'[j].ipi = cpu[j].ipi
                /\ cpu'[j].idle = cpu[j].idle
    <3>1. CASE j = k BY <3>1, <2>11, <2>14, Zenon
    <3>2. CASE j # k BY <3>2, <2>11, <2>13
    <3> QED BY <3>1, <3>2, Zenon
  <2>17. cpu'[k].queue = cpu[k].queue \ {t} BY <2>2, <2>11, <2>14, Zenon
  <2>18. \A j \in Cpus \ {c} : cpu'[j].pc = cpu[j].pc /\ cpu'[j].aim = cpu[j].aim
                               /\ cpu'[j].throttled = cpu[j].throttled
    BY <2>10, <2>15
  <2>19. cpu'[c].pc = p /\ cpu'[c].aim = m BY <2>10, <2>15, Zenon
  <2> QED BY <2>1, <2>2, <2>5, <2>7, <2>16, <2>17, <2>18, <2>19, Zenon DEF t, k
<1>3. Shape'
  <2>1. Registers(c)' BY <1>2, Own, Zenon DEF Registers, Threaded, Threadless
  <2>2. \A k \in Cpus \ {c} :
          /\ cpu'[k].pc = cpu[k].pc /\ cpu'[k].current = cpu[k].current
          /\ cpu'[k].previous = cpu[k].previous /\ cpu'[k].arg = cpu[k].arg
          /\ cpu'[k].aim = cpu[k].aim /\ cpu'[k].idle = cpu[k].idle
    BY <1>2, Zenon
  <2> QED BY <2>1, <2>2, SameShape, Zenon
<1>4. NoSleep => NoSleep'
  BY <1>2, Told
<1>5. IInv => IInv'
  <2> SUFFICES ASSUME IInv PROVE IInv' OBVIOUS
  <2> USE DEF IInv
  <2>1. TypeOK' /\ Shape' BY <1>1, <1>3
  <2>2. PICK t \in Threads, k \in Cpus : t = cpu[c].arg /\ k = cpu[c].aim BY <1>2, Zenon
  <2>3. /\ thread' = thread /\ machine' = machine
        /\ cpu[c].pc = "sweep" /\ cpu[k].pc # "claim"
        /\ cpu'[k].queue = cpu[k].queue \ {t}
        /\ cpu'[c].pc \in {"sweep", "kick"}
        /\ \A j \in Cpus : j > k => cpu'[c].pc = "sweep" /\ cpu'[c].aim <= j
        /\ \A j \in Cpus \ {c} : cpu'[j].pc = cpu[j].pc /\ cpu'[j].aim = cpu[j].aim
        /\ \A j \in Cpus :
             /\ j # k => cpu'[j].queue = cpu[j].queue
             /\ cpu'[j].current = cpu[j].current /\ cpu'[j].previous = cpu[j].previous
             /\ cpu'[j].arg = cpu[j].arg /\ cpu'[j].ipi = cpu[j].ipi
    BY <2>2, <1>2, Zenon
  <2>4. machine = c /\ thread[t].dom = "Stopping" BY <2>2, <2>3, Zenon DEF Life, Terminates, Belongs
  <2>5. \A j \in Cpus : cpu[j].pc \in {"sweep", "kick"} => j = c BY <2>4, Zenon DEF Life, Terminates
  <2>6. ASSUME NEW s \in Threads
        PROVE  /\ \A j \in Hands(s)' : j \in Hands(s)
               /\ s # t => Hands(s)' = Hands(s)
    BY <2>3 DEF Hands
  <2>7. ASSUME NEW s \in Threads, NEW j \in Cpus
        PROVE  /\ Holds(j, s)' <=> Holds(j, s)
               /\ Claims(j, s)' <=> Claims(j, s)
               /\ InHand(j, s)' <=> InHand(j, s)
               /\ Stopping(j, s)' <=> Stopping(j, s)
               /\ Preempts(j, s)' <=> Preempts(j, s)
    BY <2>3, Zenon DEF Holds, Claims, InHand, Stopping, Preempts
  <2>8. Life'
    <3>1. ASSUME NEW s \in Threads PROVE Belongs(s)' BY <2>3, <2>4, <2>6, Zenon DEF Life, Belongs
    <3>2. ASSUME NEW j \in Cpus PROVE Terminates(j)' BY <2>3, Zenon DEF Life, Terminates
    <3> QED BY <3>1, <3>2 DEF Life
  <2>9. Held'
    <3>1. ASSUME NEW s \in Threads PROVE Marked(s)'
      <4>1. Marked(s) BY DEF Held
      <4>2. thread' = thread BY <2>3, Zenon
      <4> QED BY <4>1, <4>2, <2>7, MarkedKept, Zenon
    <3> QED BY <3>1 DEF Held
  <2>10. Placed'
    <3>1. ASSUME NEW s \in Threads PROVE Place(s)'
      <4>0. Place(s) BY Zenon DEF Placed
      <4>1. CASE s = t
        <5>1. thread'[s].dom = "Stopping" /\ thread'[s].state = thread[s].state
          BY <4>1, <2>3, <2>4, Zenon
        <5>2. \A j \in Hands(s)' : j \in Hands(s) BY <2>6, Zenon
        <5>3. \A j \in Cpus : /\ InHand(j, s)' => InHand(j, s)
                              /\ s \in cpu'[j].queue => s \in cpu[j].queue
                              /\ cpu'[j].current = cpu[j].current
          BY <2>3, <2>7, Zenon
        <5> QED BY <4>0, <5>1, <5>2, <5>3, PlaceDead, Zenon
      <4>2. CASE s # t
        <5>1. \A j \in Cpus : s \in cpu'[j].queue <=> s \in cpu[j].queue BY <4>2, <2>3, Zenon
        <5>2. Hands(s)' = Hands(s) BY <4>2, <2>6, Zenon
        <5>3. \A j \in Cpus : cpu'[j].current = cpu[j].current BY <2>3, Zenon
        <5>4. thread' = thread BY <2>3
        <5> QED BY <4>0, <5>1, <5>2, <5>3, <5>4, <2>7, PlaceKept, Zenon
      <4> QED BY <4>1, <4>2
    <3> QED BY <3>1, Zenon DEF Placed
  <2>11. Stops'
    <3>1. ASSUME NEW s \in Threads PROVE Unstarted(s)' <=> Unstarted(s) BY <2>3, Zenon DEF Unstarted
    <3>3. ASSUME NEW j \in Cpus, NEW s \in Threads PROVE Reaches(j, s)'
      <4>0. Reaches(j, s) BY Zenon DEF Stops
      <4>1. ASSUME Claims(j, s), Unstarted(s)
            PROVE  \E d \in Cpus \ {j} : cpu'[d].pc = "sweep" /\ cpu'[d].arg = s /\ cpu'[d].aim <= j
        <5>1. c # j /\ s = t /\ k <= j BY <4>0, <4>1, <2>2, <2>5, Zenon DEF Reaches
        <5>2. j # k BY <4>1, <2>3, Zenon DEF Claims
        <5>3. j > k BY <5>1, <5>2, DispatchAssumption
        <5>4. cpu'[c].pc = "sweep" /\ cpu'[c].aim <= j /\ cpu'[c].arg = t BY <5>3, <2>2, <2>3, Zenon
        <5> QED BY <5>1, <5>4, Zenon
      <4>2. (cpu[j].current = s /\ Unstarted(s) => cpu[j].ipi \/ \E d \in Cpus \ {j} : Stopping(d, s))'
        BY <4>0, <3>1, <2>3, <2>7, Zenon DEF Reaches
      <4>3. (\/ cpu[j].current = s /\ cpu[j].pc \notin {"switch", "publish", "release"}
             \/ Holds(j, s) /\ cpu[j].current # s
             => thread[s].resume # "user" \/ thread[s].dom = "Dead")'
        BY <4>0, <2>3, <2>7, Zenon DEF Reaches
      <4> QED BY <4>1, <4>2, <4>3, <2>7, <3>1, Zenon DEF Reaches
    <3>4. StopReaches' BY <2>3 DEF Stops, StopReaches, At
    <3> QED BY <3>1, <3>3, <3>4, <2>3, Zenon DEF Stops
  <2> QED BY <2>1, <2>8, <2>9, <2>10, <2>11, Zenon
<1> QED BY <1>1, <1>3, <1>4, <1>5

\* kick_domain interrupts every processor that runs the thread.
LEMMA StepKickDomain ==
  ASSUME TypeOK, Shape, NEW c \in Cpus, KickDomain(c)
  PROVE  /\ TypeOK' /\ Shape' /\ (NoSleep => NoSleep')
         /\ (IInv => IInv')
<1>1. TypeOK'
  <2>1. ASSUME NEW k \in Cpus, NEW p \in {"plan", "reap"}
        PROVE  /\ cpu[k] \in CpuType
               /\ [cpu[k] EXCEPT !.pc = p, !.arg = None] \in CpuType
               /\ [cpu[k] EXCEPT !.resched = TRUE, !.ipi = TRUE] \in CpuType
    BY Names, SetPc, SetArg, SetResched, SetIpi, Zenon DEF TypeOK
  <2>2. cpu' \in [Cpus -> CpuType] BY <2>1, Zenon DEF KickDomain
  <2> QED BY <2>2, Zenon DEF TypeOK, KickDomain
<1>2. /\ thread' = thread /\ machine' = None
      /\ cpu[c].pc = "kick" /\ cpu[c].arg \in Threads
      /\ cpu'[c].pc \in {"plan", "reap"} /\ cpu'[c].ipi = cpu[c].ipi
      /\ \A k \in Cpus :
           /\ cpu'[k].queue = cpu[k].queue
           /\ cpu'[k].current = cpu[k].current /\ cpu'[k].previous = cpu[k].previous
      /\ \A k \in Cpus \ {c} :
           /\ cpu'[k].pc = cpu[k].pc /\ cpu'[k].aim = cpu[k].aim
           /\ cpu'[k].arg = cpu[k].arg /\ cpu'[k].idle = cpu[k].idle
           /\ cpu'[k].throttled = cpu[k].throttled
           /\ cpu[k].ipi => cpu'[k].ipi
           /\ cpu[k].current = cpu[c].arg => cpu'[k].ipi
  <2>1. cpu[c].pc = "kick" /\ thread' = thread /\ machine' = None BY Zenon DEF KickDomain, At
  <2>2. PICK t \in Threads : t = cpu[c].arg BY <2>1, Zenon DEF Shape, Registers
  <2>3. PICK p \in {"plan", "reap"} : cpu'[c] = [cpu[c] EXCEPT !.pc = p, !.arg = None]
    BY Zenon DEF KickDomain
  <2>4. cpu'[c].pc = p /\ cpu'[c].ipi = cpu[c].ipi /\ cpu'[c].queue = cpu[c].queue
        /\ cpu'[c].current = cpu[c].current /\ cpu'[c].previous = cpu[c].previous
    BY <2>3 DEF TypeOK, CpuType
  <2>5. ASSUME NEW k \in Cpus \ {c}
        PROVE  /\ cpu'[k].pc = cpu[k].pc /\ cpu'[k].aim = cpu[k].aim
               /\ cpu'[k].arg = cpu[k].arg /\ cpu'[k].idle = cpu[k].idle
               /\ cpu'[k].throttled = cpu[k].throttled
               /\ cpu[k].ipi => cpu'[k].ipi
               /\ cpu[k].current = cpu[c].arg => cpu'[k].ipi
               /\ cpu'[k].queue = cpu[k].queue
               /\ cpu'[k].current = cpu[k].current /\ cpu'[k].previous = cpu[k].previous
    <3>1. CASE cpu[k].current = t
      <4>1. cpu'[k] = [cpu[k] EXCEPT !.resched = TRUE, !.ipi = TRUE]
        BY <3>1, <2>2, Zenon DEF KickDomain
      <4> QED BY <4>1 DEF TypeOK, CpuType
    <3>2. CASE cpu[k].current # t
      <4>1. cpu'[k] = cpu[k] BY <3>2, <2>2, Zenon DEF KickDomain
      <4> QED BY <3>2, <4>1, <2>2, Zenon
    <3> QED BY <3>1, <3>2, Zenon
  <2> QED BY <2>1, <2>2, <2>4, <2>5, Zenon
<1>3. Shape'
  <2>1. Registers(c)' BY <1>2, Own DEF Registers, Threaded, Threadless
  <2>2. \A k \in Cpus \ {c} :
          /\ cpu'[k].pc = cpu[k].pc /\ cpu'[k].current = cpu[k].current
          /\ cpu'[k].previous = cpu[k].previous /\ cpu'[k].arg = cpu[k].arg
          /\ cpu'[k].aim = cpu[k].aim /\ cpu'[k].idle = cpu[k].idle
    BY <1>2, Zenon
  <2> QED BY <2>1, <2>2, SameShape
<1>4. NoSleep => NoSleep'
  BY <1>2, Told, Zenon
<1>5. IInv => IInv'
  <2> SUFFICES ASSUME IInv PROVE IInv' OBVIOUS
  <2> USE DEF IInv
  <2>1. TypeOK' /\ Shape' BY <1>1, <1>3
  <2>2. PICK t \in Threads : t = cpu[c].arg BY <1>2, Zenon
  <2>3. /\ thread' = thread /\ machine' = None
        /\ cpu[c].pc = "kick" /\ cpu'[c].pc \in {"plan", "reap"} /\ cpu'[c].ipi = cpu[c].ipi
        /\ \A k \in Cpus :
             /\ cpu'[k].queue = cpu[k].queue
             /\ cpu'[k].current = cpu[k].current /\ cpu'[k].previous = cpu[k].previous
        /\ \A k \in Cpus \ {c} :
             /\ cpu'[k].pc = cpu[k].pc /\ cpu'[k].aim = cpu[k].aim /\ cpu'[k].arg = cpu[k].arg
             /\ cpu[k].ipi => cpu'[k].ipi
             /\ cpu[k].current = t => cpu'[k].ipi
    BY <2>2, <1>2, Zenon
  <2>4. \A j \in Cpus : cpu[j].pc \in {"sweep", "kick"} => j = c BY <2>3, Zenon DEF Life, Terminates
  <2>5. ASSUME NEW s \in Threads PROVE Hands(s)' = Hands(s) BY <2>3, Zenon DEF Hands
  <2>6. ASSUME NEW s \in Threads, NEW j \in Cpus
        PROVE  /\ Holds(j, s)' <=> Holds(j, s)
               /\ Claims(j, s)' <=> Claims(j, s)
               /\ InHand(j, s)' <=> InHand(j, s)
               /\ Preempts(j, s)' <=> Preempts(j, s)
               /\ Stopping(j, s) => j = c /\ s = t
    BY <2>2, <2>3, <2>4, Zenon DEF Holds, Claims, InHand, Stopping, Preempts
  <2>7. Life'
    <3>1. ASSUME NEW s \in Threads PROVE Belongs(s)' BY <2>3, <2>5 DEF Life, Belongs
    <3>2. ASSUME NEW j \in Cpus PROVE Terminates(j)' BY <2>3, <2>4, Zenon DEF Terminates
    <3> QED BY <3>1, <3>2 DEF Life
  <2>8. Held'
    <3>1. ASSUME NEW s \in Threads PROVE Marked(s)'
      <4>1. Marked(s) BY DEF Held
      <4>2. thread' = thread BY <2>3, Zenon
      <4> QED BY <4>1, <4>2, <2>6, MarkedKept, Zenon
    <3> QED BY <3>1 DEF Held
  <2>9. Placed'
    <3>1. ASSUME NEW s \in Threads PROVE Place(s)'
      <4>1. Place(s) /\ Hands(s)' = Hands(s) BY <2>5 DEF Placed
      <4>2. \A j \in Cpus : cpu'[j].current = cpu[j].current /\ cpu'[j].queue = cpu[j].queue
        BY <2>3, Zenon
      <4>3. thread' = thread BY <2>3
      <4> QED BY <4>1, <4>2, <4>3, <2>6, PlaceKept, Zenon
    <3> QED BY <3>1 DEF Placed
  <2>10. Stops'
    <3>1. ASSUME NEW s \in Threads PROVE Unstarted(s)' <=> Unstarted(s) BY <2>3, Zenon DEF Unstarted
    <3>2. ASSUME NEW j \in Cpus, NEW s \in Threads PROVE Reaches(j, s)'
      <4>0. Reaches(j, s) BY Zenon DEF Stops
      <4>1. ~(Claims(j, s) /\ Unstarted(s)) BY <4>0, <2>3, <2>4, Zenon DEF Reaches
      <4>2. (cpu[j].current = s /\ Unstarted(s) => cpu[j].ipi)'
        BY <4>0, <3>1, <2>3, <2>6, Zenon DEF Reaches
      <4>3. (\/ cpu[j].current = s /\ cpu[j].pc \notin {"switch", "publish", "release"}
             \/ Holds(j, s) /\ cpu[j].current # s
             => thread[s].resume # "user" \/ thread[s].dom = "Dead")'
        BY <4>0, <2>3, <2>6, Zenon DEF Reaches
      <4> QED BY <4>1, <4>2, <4>3, <2>6, <3>1, Zenon DEF Reaches
    <3>3. StopReaches'
      <4>1. SUFFICES ASSUME NEW k \in Cpus, cpu'[k].pc = "user", thread'[cpu'[k].current].stop
                     PROVE  cpu'[k].ipi
        BY Zenon DEF StopReaches, At
      <4>2. k # c /\ cpu[k].pc = "user" /\ thread[cpu[k].current].stop BY <4>1, <2>3, Zenon
      <4> QED BY <4>2, <2>2, <2>3, <2>4 DEF Stops, StopReaches, At
    <3> QED BY <3>1, <3>2, <3>3, <2>3, Zenon DEF Stops
  <2> QED BY <2>1, <2>7, <2>8, <2>9, <2>10, Zenon
<1> QED BY <1>1, <1>3, <1>4, <1>5

(******************************** the whole ********************************)

\* The first state: the booted threads are ready, in the queue of the first
\* processor, and every processor is in its idle loop.
LEMMA Starts ==
  Init => IInv /\ NoSleep
<1> SUFFICES ASSUME Init PROVE IInv /\ NoSleep OBVIOUS
<1>1. ASSUME NEW q \in SUBSET Threads PROVE CpuState(q) \in CpuType
  <2>1. <<>> \in Seq(Threads \X BOOLEAN) OBVIOUS
  <2>2. "turn" \in Pcs BY Names
  <2> QED BY <2>1, <2>2, Zenon DEF CpuState, CpuType
<1>2. TypeOK
  <2>1. thread \in [Threads -> ThreadType] BY Cells, StateNames DEF Init
  <2>2. cpu \in [Cpus -> CpuType] BY <1>1, DispatchAssumption DEF Init
  <2> QED BY <2>1, <2>2 DEF TypeOK, Init
<1>3. ASSUME NEW c \in Cpus
      PROVE  /\ cpu[c].pc = "turn" /\ cpu[c].current = Idle /\ cpu[c].previous = None
             /\ cpu[c].queue = IF c = Min(Cpus) THEN Booted ELSE {}
  BY DEF Init, CpuState
<1>4. ASSUME NEW t \in Threads
      PROVE  /\ ~thread[t].stop
             /\ thread[t].dom = IF t \in Booted THEN "Runnable" ELSE "Empty"
             /\ thread[t].state = IF t \in Booted THEN "Ready" ELSE "Empty"
  BY DEF Init, ThreadCell
<1>5. Shape BY <1>3, DispatchAssumption, Zenon DEF Shape, Registers, Threaded, Threadless
<1>6. Min(Cpus) \in Cpus BY Least, DispatchAssumption
<1>7. ASSUME NEW t \in Threads PROVE Hands(t) = IF t \in Booted THEN {Min(Cpus)} ELSE {}
  BY <1>3, <1>6 DEF Hands
<1>8. ASSUME NEW t \in Threads, NEW c \in Cpus
      PROVE  ~Holds(c, t) /\ ~Claims(c, t) /\ ~InHand(c, t) /\ ~Preempts(c, t) /\ cpu[c].current # t
  BY <1>3, DispatchAssumption, Zenon DEF Holds, Claims, InHand, Preempts
<1>9. Life BY <1>3, <1>4, <1>7, Zenon DEF Life, Belongs, Terminates
<1>10. Held BY <1>8, Zenon DEF Held, Marked, Takes
<1>11. Placed BY <1>4, <1>7, <1>8, Zenon DEF Placed, Place
<1>12. Stops BY <1>3, <1>4, <1>8, Zenon DEF Stops, Unstarted, Reaches, StopReaches, At
<1>13. NoSleep BY <1>3, Zenon DEF NoSleep, At
<1> QED BY <1>2, <1>5, <1>9, <1>10, <1>11, <1>12, <1>13 DEF IInv

\* Whatever a processor does on its own in the kernel keeps the invariant.
LEMMA KernelSteps ==
  ASSUME TypeOK, Shape, NEW c \in Cpus, Kernel(c)
  PROVE  /\ TypeOK' /\ Shape' /\ (NoSleep => NoSleep')
         /\ (IInv => IInv')
<1>1. CASE FlushWakes(c) BY <1>1, StepFlushWakes
<1>2. CASE Wake(c) BY <1>2, StepWake
<1>3. CASE Look(c) BY <1>3, StepLook
<1>4. CASE Pick(c) BY <1>4, StepPick
<1>5. CASE Claim(c) BY <1>5, StepClaim
<1>6. CASE FinishSwitch(c) BY <1>6, StepFinishSwitch
<1>7. CASE Publish(c) BY <1>7, StepPublish
<1>8. CASE Release(c) BY <1>8, StepRelease
<1>9. CASE ExitToPlan(c) BY <1>9, StepExitToPlan
<1>10. CASE ExitToThread(c) BY <1>10, StepExitToThread
<1>11. CASE DelegateAgedSync(c) BY <1>11, StepDelegateAgedSync
<1>12. CASE Delegated(c) BY <1>12, StepDelegated
<1>13. CASE DelegateKick(c) BY <1>13, StepDelegateKick
<1>14. CASE LeaveIfDead(c) BY <1>14, StepLeaveIfDead
<1>15. CASE \E t \in Threads : ExpireWait(c, t) BY <1>15, StepExpireWait
<1>16. CASE Expired(c) BY <1>16, StepExpired
<1>17. CASE Sweep(c) BY <1>17, StepSweep
<1>18. CASE KickDomain(c) BY <1>18, StepKickDomain
<1>19. CASE Reaped(c) BY <1>19, StepReaped
<1>20. CASE \E t \in Threads : Reap(c, t) BY <1>20, StepReap
<1>21. CASE Poll(c) BY <1>21, StepPoll
<1>22. CASE Polled(c) BY <1>22, StepPolled
<1>23. CASE PolledOut(c) BY <1>23, StepPolledOut
<1>24. CASE \E k \in Cpus : StealAgedSync(c, k) BY <1>24, StepStealAgedSync, Zenon
<1>25. CASE Stolen(c) BY <1>25, StepStolen
<1>26. CASE \E k \in Cpus, t \in Threads : StealWork(c, k, t) BY <1>26, StepStealWork
<1>27. CASE StealNothing(c) BY <1>27, StepStealNothing
<1>28. CASE Halt(c) BY <1>28, StepHalt
<1>29. CASE HaltCheck(c) BY <1>29, StepHaltCheck
<1>30. CASE HaltTail(c) BY <1>30, StepHaltTail
<1> QED
  BY <1>1, <1>2, <1>3, <1>4, <1>5, <1>6, <1>7, <1>8, <1>9, <1>10, Zenon,
     <1>11, <1>12, <1>13, <1>14, <1>15, <1>16, <1>17, <1>18, <1>19, <1>20,
     <1>21, <1>22, <1>23, <1>24, <1>25, <1>26, <1>27, <1>28, <1>29, <1>30 DEF Kernel

\* Whatever a program asks for keeps the invariant, when no slot of a reaped thread
\* is given out again.
LEMMA UserSteps ==
  ASSUME TypeOK, Shape, NEW c \in Cpus, User(c)
  PROVE  /\ TypeOK' /\ Shape' /\ (NoSleep => NoSleep')
         /\ (IInv /\ ~Reuse => IInv')
<1>1. CASE \E blocks, sync \in BOOLEAN, u \in Threads \cup {None} : Operate(c, blocks, u, sync)
  BY <1>1, StepOperate, Zenon
<1>2. CASE \E t \in Threads : CancelWait(c, t) BY <1>2, StepCancelWait, Zenon
<1>3. CASE \E t \in Threads : Create(c, t) BY <1>3, StepCreate
<1>4. CASE \E t \in Threads : Activate(c, t) BY <1>4, StepActivate
<1>5. CASE \E t \in Threads : Terminate(c, t) BY <1>5, StepTerminate
<1>6. CASE LeaveStopped(c) BY <1>6, StepLeaveStopped
<1> QED BY <1>1, <1>2, <1>3, <1>4, <1>5, <1>6, Zenon DEF User

\* A step of the system, of any processor, keeps the invariant.
LEMMA Steps ==
  ASSUME TypeOK, Shape, [Next]_vars
  PROVE  /\ TypeOK' /\ Shape' /\ (NoSleep => NoSleep')
         /\ (IInv /\ ~Reuse => IInv')
<1>1. CASE UNCHANGED vars
  <2>1. cpu' = cpu /\ thread' = thread /\ machine' = machine BY <1>1 DEF vars
  <2>2. TypeOK' <=> TypeOK BY <2>1 DEF TypeOK
  <2>3. Shape' <=> Shape BY <2>1, Zenon DEF Shape, Registers
  <2>4. NoSleep' <=> NoSleep BY <2>1 DEF NoSleep, At
  <2>5. ASSUME NEW t \in Threads PROVE Hands(t)' = Hands(t) BY <2>1, Zenon DEF Hands
  <2>6. Life' <=> Life BY <2>1, <2>5 DEF Life, Belongs, Terminates
  <2>7. Held' <=> Held BY <2>1 DEF Held, Marked, Takes, Holds, Claims
  <2>8. Placed' <=> Placed BY <2>1, <2>5 DEF Placed, Place, InHand, Preempts
  <2>9. Stops' <=> Stops
    BY <2>1 DEF Stops, Unstarted, Reaches, Claims, Holds, Stopping, StopReaches, At
  <2> QED BY <2>2, <2>3, <2>4, <2>6, <2>7, <2>8, <2>9 DEF IInv
<1>2. ASSUME NEW c \in Cpus, Kernel(c) \/ User(c) \/ Tick(c) \/ OnReschedule(c)
      PROVE  /\ TypeOK' /\ Shape' /\ (NoSleep => NoSleep')
             /\ (IInv /\ ~Reuse => IInv')
  BY <1>2, KernelSteps, UserSteps, StepTick, StepOnReschedule, Zenon
<1> QED BY <1>1, <1>2, Zenon DEF Next

\* The scheduler keeps the inductive invariant, for every number of processors and
\* threads, when no slot of a reaped thread is given out again.
THEOREM Inductive ==
  ASSUME ~Reuse
  PROVE  Spec => []IInv
<1>1. Init => IInv BY Starts
<1>2. IInv /\ [Next]_vars => IInv'
  <2> SUFFICES ASSUME IInv, [Next]_vars PROVE IInv' OBVIOUS
  <2>1. TypeOK /\ Shape BY DEF IInv
  <2> QED BY <2>1, Steps, Zenon
<1> QED BY <1>1, <1>2, PTL DEF Spec

\* eligible, plan and finish_switch: no two processors ever run a thread, or run
\* and leave it, whatever wakes, steals, hand-offs and stops cross.
THEOREM RunsOnce ==
  ASSUME ~Reuse
  PROVE  Spec => []OneRunner
<1>1. IInv => OneRunner BY Zenon DEF IInv, Held, Marked, Takes, OneRunner
<1> QED BY <1>1, Inductive, PTL

\* wake, plan, delegate_aged_sync and the steals: no ready thread is lost or queued
\* twice.
THEOREM NeitherLostNorTwice ==
  ASSUME ~Reuse
  PROVE  Spec => []QueuedOnce
<1>1. IInv => QueuedOnce BY Zenon DEF IInv, Placed, Place, QueuedOnce
<1> QED BY <1>1, Inductive, PTL

\* stop_thread, kick_domain and leave_if_dead: a stopped thread executes user code
\* only until the interrupt of its termination arrives.
THEOREM StopArrives ==
  ASSUME ~Reuse
  PROVE  Spec => []StopReaches
<1>1. IInv => StopReaches BY Zenon DEF IInv, Stops
<1> QED BY <1>1, Inductive, PTL

\* halt, wake and delegate_aged_sync: no processor sleeps on a queued thread without
\* being throttled or about to be told.  It needs only the types and the registers,
\* and holds also when slots are reused.
THEOREM NoWakeIsLost ==
  Spec => []NoSleep
<1>1. Init => TypeOK /\ Shape /\ NoSleep BY Starts DEF IInv
<1>2. TypeOK /\ Shape /\ NoSleep /\ [Next]_vars => (TypeOK /\ Shape /\ NoSleep)' BY Steps
<1> QED BY <1>1, <1>2, PTL DEF Spec
===============================================================================
