# A TLA+ verification of the Thalyx kernel

Thalyx is a capability microkernel for x86-64 multiprocessors, written in Rust. This directory
holds TLA+ models of it and of the services beside it, the TLC runs that check them on small
instances, and TLAPS proofs of the main properties of its concurrent core for every value of the
constants. `PROJECT.json` is the index: components, runs, mutants, the source lines of every
definition, hazards, findings, theorems. Line numbers refer to `src/`.

## 1. The system and its parts

**Scopes** (`kernel/src/scope.rs`, `api/scopeops.rs`) are the perimeters of authority and
resources: a tree in a fixed table. Each scope has ceilings for memory, objects and execution time
that bind its whole subtree, and a life of four states, Open, Fenced, Quiescent, Retired. A retired
entry that nothing names is reused.

**Accounts** (`scope.rs`) are atomic counters. `reserve` walks from a scope to the root without a
lock, adds at each level, and undoes what it added when a level refuses. Execution time has its own
accounts (`reserve_cpu`, `return_cpu`, `commit_excess`), emptied at every window boundary by
`roll_window`, which a sequence counter makes visible to the reservations it overlaps.

**The machine lock** (`sync.rs`, `BrLock`) guards the kernel tables. An operation of the ABI takes
it shared or exclusive for its whole length. The eight operations that wait own their locking, and
hold nothing while they wait.

**Authority** (`obj.rs`, `api/capops.rs`, `api/mod.rs`): a domain has a table of capabilities, each
backed by a grant node. Grants form a lineage that is walked at every use, and each node is
stopped by a fence on itself or on the scope that sponsors it.

**Domains, threads, scheduling** (`domain.rs`, `thread.rs`, `sched.rs`, `percpu.rs`): per-processor
queues, waits that several wakers may claim, work that moves between processors, an idle loop that
reaps dead domains, a timer interrupt that promotes drained scopes and expires waits.

**Memory** (`memobj.rs`, `api/memops.rs`, `api/domainops.rs`, `tlb.rs`, `mm/frame.rs`): objects are
mapped into address spaces; a withdrawal publishes a generation and waits, without the lock, for
the processors that may hold a translation. Frames that may still be reachable pass through a
quarantine.

**IPC** (`ipc.rs`, `api/ipcops.rs`): invocations on endpoints, charged to the caller's scope,
answered, cancelled or discharged. **Events** (`events.rs`, `api/evtops.rs`, `api/logops.rs`):
signals, timers, a log. **Devices** (`device.rs`, `api/devops.rs`): interrupts, regions, DMA.

**Entry and start-up** (`api/mod.rs`, `ucopy.rs`; `boot.rs`, `k2boot.rs`, `smp.rs`, `pci.rs`,
`elf.rs`): one INVOKE copies its descriptor in, resolves a handle and runs a handler; at boot the
other processors are started, devices found, images read and the supervisor given its manifest.

**User level** (`user/`): the K4 store, a log-structured state service with crash recovery
(`k4store`), the block drivers (`k4disk`, `k3driver`), the works of the port and their supervisor
(`k5work`, `k5super`), and programs that exercise the kernel.

How they meet: every table change runs under the machine lock, so an exclusive operation is one
step for the others; what runs *outside* it (the accounts, the CPU windows, the TLB generations,
the lock itself) is where steps of processors interleave. The modules are cut along that line.

## 2. The modules

| module | models | abstract specification | proofs |
|---|---|---|---|
| `BrLock` | `sync.rs`, the machine lock | `SharedLock` | `ControlProofs` |
| `ScopeAccounts` | `scope.rs`: `reserve`, `release`, `set_limits` | `Quota` | `AccountsEventsProofs` |
| `ScopeLifecycle` | the scope table, `api/scopeops.rs`, and the domains and calls its drain waits for | | `ControlProofs` |
| `CpuBudget` | `roll_window`, `reserve_cpu`, `return_cpu`, and the decisions of `sched.rs` that call them | | `BudgetLogProofs` |
| `TlbShootdown` | `tlb.rs`, `map`, `unmap`, the collection of memory objects, the quarantine | | `PartsProofs` |
| `Dispatch` | `sched.rs`, the waits of `thread.rs`, termination and reaping | | `DispatchSteps`, `DispatchProofs` |
| `Invocations` | `ipc.rs`, `api/ipcops.rs` | | `InvocationsSteps`, `InvocationsProofs` |
| `Authority` | `obj.rs`, `api/capops.rs`, the grants of `api/mod.rs` | | |
| `Memory`, `Frames` | `api/memops.rs`, `memobj.rs`; `mm/frame.rs` | | |
| `Domains` | `domain.rs`, `api/domainops.rs`: what is charged, taken and given back | | |
| `Devices`, `Discovery` | `device.rs`, `api/devops.rs`; `pci.rs` | | |
| `Events` | `events.rs`, `api/evtops.rs` | | `AccountsEventsProofs` |
| `ControlLog` | `ctrl.rs`, `api/logops.rs` | | `BudgetLogProofs` |
| `Invoke` | `api/mod.rs`: `invoke`, with `ucopy.rs` | | `PartsProofs` |
| `Boot`, `Smp`, `Elf` | `k2boot.rs`, `boot.rs`; `smp.rs`; `elf.rs` | | `PartsProofs` (`Smp`) |
| `Store` | `user/k4store`: the engine and its recovery | `Versions` | |
| `Workspaces` | `user/k4store`: the request loop and the object index | | |
| `DiskDriver`, `RingDriver` | `user/k4disk`; `user/k3driver`, over `Virtqueue` (external) | | |
| `Works`, `Supervisor` | `user/k5work`; `user/k5super` | | |

The first seven have runs of their own, `BrLock` and `ScopeLifecycle` one together.
`MCKernelParts` and `MCUserParts` put the others together: a behaviour is one of one part, chosen at the start, and the slots `v1`, `v2`, ...
hold that part's variables. They interact through what each module keeps as an input, which the
headers say. `MCControl` does the same for `BrLock` and `ScopeLifecycle`, and `MCEnds` for the two
liveness questions of `TlbShootdown` and `ScopeLifecycle`. The other `MC*.tla` give the constants
values; `MC*.cfg` are the runs. Operators whose comment calls them a mutant, or describes a wrong
variant of the next definition, are used by no specification: each stands for a plausible bug,
named in `PROJECT.json` with the property that catches it.

Several modules have a Boolean constant that lets in an order of events, or a client, for which a
property fails. The runs have it FALSE, section 4 says what happens when it is TRUE: `Crossing`,
`Reuse` (`Dispatch`), `Crossing`, `SharedTickets`, `Overtaken` (`Invocations`), `Untold`,
`Overtaken` (`Authority`), `Registers` (`Frames`), `Retires` (`Memory`), `Rearms`, `Late`
(`Devices`), `Recycled` (`Events`), `Late` (`Smp`, `DiskDriver`), `Rewrites` (`DiskDriver`),
`Replaced`, `Persists`, `ReadFaults` (`Store`), `Foreign`, `Unpublished` (`Workspaces`), `Refuses`
(`Supervisor`); and, the other way round, `Disciplined` and `Answered` (`Works`).

### BrLock

A step is one atomic access. The handshake is sequentially consistent in the code (`SeqCst` on the
flag and the counts), so interleaving its accesses is exact. `readers[c]` is the count of processor
c, 0 or 1 because holds never nest. `pc` is the place in `read` or `write`, `scan` the index of the
loop over the counts. Tickets are taken modulo `TicketMod`, the width of the `u32`, and the model
assumes what the code does: more tickets than processors. `SharedLock` says what the rest of the
kernel relies on: one exclusive holder or any number of shared ones, and exclusive holds in the
order of the requests. `Before(c)`, in the refinement, recovers that order from the tickets.

### ScopeAccounts

A step is one atomic access to one level's account. A reservation is a walk with a program counter:
`charge` up the chain, `over` between the add and the subtraction of the level that refused, `undo`
of the levels below, `held`, `release`. At most `NCpu` walks are under way. The barrier and
`set_limits` hold the machine exclusively, and a walk runs inside a hold, so they need `Busy = {}`.
`Quota` admits a reservation in one step, in an open chain and within every ceiling.

### ScopeLifecycle

Every action is an operation that holds the machine exclusively, or moves a counter that only
exclusive holders judge. `gen` is the generation of an entry, `named` the entries that some handle
names. A domain arrives with a thread (`create_in`) and is modelled with that one; `threads` of a
scope is then the number of the domains it owns, from their creation until `reap_dead`, and
`effects_pending` the number of the effects its calls have begun. `maps_pending` is left out: a
mapping needs a live domain and goes when that domain stops, so it is zero whenever `threads` is.

`invocations_pending` cannot be computed from the records, and is a variable, `calls`. It is raised
by an admission, and by a fault report, for the scope the thread *charges*: its own, or the scope of
the call it is bound to (`bind_worker`; a worker bound to a call of a closed scope stays in its
own). It is lowered by `release_invocation`, which returns early only for an empty record and does
not go below zero. A record is `queued`, `taken` by a receiver, taken with an `effect`, or `spent`:
resolved, kept in the table by a ticket, and to be released a second time by the caller that the
resolution woke. `from` is the domain the end of the call matters to (the one that waits, or that
sent what is still queued), `waits` whether its thread sleeps until then. A death cancels what the
domain sent and nobody received, makes what it waits for nobody's, and ends what it had received:
which records these are is a choice of the action, since the receiver of a record is not state here.

The stop of a domain is one step and its reaping a later one. Inputs rather than state are whether an
account can pay (a creation may be refused at either of its two charges), which handles a dying
domain held, and the objects a scope sponsors, which are those of `Memory`, `Authority` and `Events`.
`set_limits` changes no state of an entry; `ScopeAccounts` has it.

### CpuBudget

One chain of scopes, with the leaf at level 1, and slices of one unit. A step is one atomic access.
A processor goes through a whole decision: read the time (`Plan`), compare it with the published
window (`RollDue`), roll if they differ, settle the last slice, choose, look at the balance, reserve
with the retry loop, or release its credit. The time read may be old by the comparison: the window
is then rolled back, as in the code. Every window but the current one counts as old in the code
(`!=`), so it does in the model. Counters are words (`% Width`), which lets an undo wrap. The order in which the roll visits the scopes is the
order of the table, a constant. `landed[c]` is a history variable: the levels whose current counter
holds the unit of c.

Left out: `charge_cpu` (the overrun a window opens with is an input instead), the recovery account,
which is a second copy of the same counters, and the barrier, since the chain stays open.

### TlbShootdown

One address space, one memory object, several mappings of it, each requested and withdrawn once. A
step is one access to a shared variable; what runs under the machine lock is split only where
another processor looks without the lock, at the page tables, the generation and the live set.
`tlb[c]` is what processor c may have cached. The hardware, action `Fill`, may cache any present
entry while c has the space loaded; a write to CR3 or a flush empties it. `Service` is the refresh
from the interrupt, the idle loop and the spin loops of the lock. `Clashing` are the map requests
that fail half-way. `Closes` and `Retires` say whether the object's last handle is ever closed and
whether its sponsor's perimeter is ever retired; `Patient` turns the timeout of the wait off.

Left out: the kernel half and `shootdown_all`, offline processors, the reuse of a domain's slot
(`forget_space`), and the state of the sponsor that a collection checks (it is open). `Collect` does
not ask for device grants, of which this object has none (`Memory` has them), and the collection
that `withdraw_map` makes for a domain that is gone (`api/memops.rs:317-320`) is left to `Memory`.

### Dispatch

A step is what one processor does between two points where another can look. What the code does
under one run-queue lock is one step, except a decision, whose choice and claim are two (`Pick`,
`Claim`): the state of a thread is a plain atomic that `stop_thread` writes under another lock.
What runs under the machine lock is one step, except a termination (`Terminate`, `Sweep`,
`KickDomain`) and a wake issued while it is held. `thread` is the thread table, each slot with the
state of its domain: a domain is the one thread it is made of. `cpu[c]` is the run queue and the
`CpuState` of processor c, the interrupt pending for it, and where its code is (`pc`). Budgets are
an input (a reservation may be refused on the processors `Refusing`), and so is time; the
round-robin cursor is a free choice among the eligible threads. The interleaving is sequentially
consistent; section 4 names the one place where the code asks for less.

### Invocations

One endpoint, its callers, the threads of the domain that receives on it, and the table of records.
`send`, `call`, `receive`, `reply` and the close of a ticket run under a shared hold, so a step is
one hold of a channel or of a record. Effects, resolutions, bindings, fences and deaths take the
machine exclusively and are one step, when nobody is inside a shared hold. The bytes and handles of
a message, the outcome codes and the marks of a cancellation are left out: a reply is identified by
the call it was made to. `owed` are the threads whose wait was claimed and whose wake is deferred.

### Authority

Two tables and the grant tree. Deriving, copying, moving and closing are one step per hold of a
table or of a node, fences one step. There is one object, so a handle is told from another by its
grant; `kin`, the derivation a node came from, is a history. `Spent` are slots whose generations
are exhausted.

### Memory, Frames, Domains, Devices, Discovery

Each operation is one step of an exclusive hold, except where the code drops it: `seal` and `unmap`
(`Memory`) are cut at their wait, `reset` (`Devices`) at its four stretches of hardware work.
`Memory` keeps a withdrawn translation until some processor flushes it; how that happens is
`TlbShootdown`. `Frames` has the bitmap, the search for runs with its hint, and the quarantine with
its accounts. `Domains` follows every charge, thread, stack and fault cell through each failure of a
construction and through termination, reaping and reuse. `Devices` keeps the hardware's own state
beside what the kernel believes of it. `Discovery` reads registers that may hold any value.

### Events, ControlLog, Invoke

A wait drops the machine to sleep and takes it again to leave the count; the tick compares the
earliest deadline without the lock. A covered admission reserves a cell, may be refused, writes its
receipt later and then wakes the reader. `Invoke` is one entry from the registers to the status:
pages of the descriptor are translated one at a time without the lock, while other threads rewrite
it, withdraw its pages and fence the handle. What the handler does is the counter `acted`.

### Boot, Smp, Elf

The hand-over runs on one processor in program order; what varies is the package, the devices, the
frames and what the limits allow. In `Smp` a processor arrives in its own time and reads the one
parameter block then. `Elf` reads every table of a small format, one header a step.

### Store, Workspaces, Works, Supervisor, drivers

`Store` writes one block or makes one flush per step; a crash keeps, loses or tears each block since
the last flush. A record carries its predecessor, and `life` tells apart records of one sequence
written in different lives. `Versions` says what is promised: one current version that changes only
by being succeeded. `Workspaces` is one request per step over content-addressed objects. `Works` are
a publisher and its rival, asking in one step and being served in another, cut at any point.
`Supervisor` is the sequence of handles each build opens and closes, against a table of 32.
`DiskDriver` has the fault engine and the medium in two sectors per block, `RingDriver` a used ring
that may say anything.

## 3. The runs

| run | bounds | distinct states | shows |
|---|---|---|---|
| `control` | 3 processors, 4 tickets; 3 entries, 2 generations, a domain and a call | 256,605 | exclusion, service of writers, refinement; quiescence is stable, entries change hands only when empty |
| `scope_accounts` | chain of 3, 3 reservations of 1 or 2 units on 2 processors | 148,871 | exact undo and release, refinement |
| `cpu_budget` | 2 processors, 2 scopes, 2 windows | 645,935 | a reported reservation is whole, decisions end |
| `tlb_shootdown` | 2 processors, 3 mappings, one of which fails | 1,434,804 | an acknowledged shootdown leaves nothing, withdrawals are announced, records suffice |
| `ends` | 2 processors and 2 mappings; 2 entries, 2 domains, a call | 174,215 | no shootdown waits for ever, a fenced perimeter drains |
| `dispatch` | 2 processors, 2 threads, one booted | 2,893,509 | a thread runs once, is queued once, is not slept on, and hears a stop |
| `invocations` | 2 callers, 2 receivers, 2 records, a queue of 1 | 2,716,376 | one answer a call, records and accounts agree, a receiver is reached |
| `kernel_parts` | thirteen instances, in `MCKernelParts` | 773,812 | counts, releases, barriers, wakes, copies, searches and tables of the other kernel parts |
| `user_parts` | six instances, in `MCUserParts` | 1,063,256 | durability, staging, honest versions, handle table, drivers |
| `smp_late` | 3 described processors | violation | two processors on one stack |
| `boot_devices` | up to 2 devices | violation | a device in another domain's table |
| `scope_owed` | 2 entries, 2 domains, 2 calls | violation | quiescence declared with a call unresolved |

Why the bounds are enough to be interesting. Four tickets for three processors make the counter
wrap while tickets are out on both sides. Three levels let a refusal at the top undo two, with
another walk between them. Three entries and a second generation are the least in which a child, a
grandchild and the reuse of an entry all occur; the one domain is stopped, reaped and made again,
and its call is received by nobody in particular. The theorems of section 5 have any number of
both. `ends` has two domains, one in
the perimeter and one beside it, and `scope_owed` two calls, because its counterexample takes one's
unit for the other's. In `cpu_budget` the parent is rolled before the child and the leaf's budget is one slice, so that reservations meet a roll in the middle and
ceilings bind; a processor may decide in the first when another has rolled to the second, and roll
it back. `MaxCarry = 0`: with windows that open with an overrun of one slice (`MaxCarry = 1`) TLC
finishes too, on 1.2 million states, in about twice the time. Two processors with two good mappings
let two shootdowns wait for each other; the third mapping fails half-way. In `dispatch` one of two threads is created
while the other runs, so a processor can be leaving a thread, stealing it, waking it and stopping it
at once; the theorems of section 5 cover any number of both. In `invocations` a queue of one blocks
the second caller, and two records make reuse meet a caller that has not left. The parts have two
of whatever contends. The store's arena of ten blocks makes a publication compact first, twice, and
two troubles are a crash within the recovery from a crash.

Symmetry is over sets whose members the module treats alike, in runs without liveness only.
`CHECK_DEADLOCK FALSE` is set where the system may stop: `control` (all scopes retired and the
generations used up; for the lock, `WriterServed` excludes it), `ends` (a finished shootdown),
`invocations` (admissions used up), `kernel_parts`, `user_parts` and the counterexample runs (a parser, a boot or a construction
ends). `scope_accounts`, `cpu_budget`, `tlb_shootdown` and `dispatch` check deadlock.

### Fairness

- `BrLock`: weak fairness of a processor's steps inside `read` and `write`. Interrupts are masked on
  every path that takes the lock and kernel code is not preempted. Asking is never fair.
- `ScopeLifecycle` (`ends`): weak fairness of the timer's promotion, and of the reaping of a domain
  while the handle of a fenced scope is open. The idle loop reaps too, but a busy machine may never
  be idle; what is certain is that `SCOPE_DRAIN_STATUS` and `SCOPE_RETIRE` reap on the way in
  (`api/mod.rs:997-1006`), and `DrainCompletes` is about the client that keeps asking, as
  `drain_and_retire` in `user/k3super` does. None for replies, closes, terminations.
- `CpuBudget`: weak fairness of a decision that has begun, for the same reason as `BrLock`.
- `TlbShootdown` (`ends`): weak fairness of steps inside the kernel; strong fairness of the turn at the
  machine lock (it serves its writers in order, which `control` checks) and of the interrupt, which
  stays pending until it is taken.

## 4. Sentences of the source that the models do not bear out

Three have a run that ends in a counterexample, quoted in `PROJECT.json`:

- `smp_late`: the stack of a processor that did not answer "is never handed to another"
  (`smp.rs:11-14`). There is one parameter block, and a late processor reads what start_one wrote
  for the next.
- `boot_devices`: the manifest's device slots (`abi/src/generated.rs:1268`). The loop variable
  `index` hides the supervisor's domain index (`k2boot.rs:376`, 391), so a device goes to the table
  of the domain with its number.
- `scope_owed`: "Quiescencia nunca se declara con obligaciones locales pendientes dentro de su
  perímetro" (`vault/validation/invariants.md:17`, INV-04). A resolution wakes the caller and lowers
  `invocations_pending`; while the server's ticket is open the record stays, resolved, and the woken
  caller lowers the counter again (`api/ipcops.rs:847`). In the counterexample a domain has sent one
  message and made one call, a server holds both, the perimeter is fenced, the call is resolved and
  its caller goes on: the counter is zero with the message still held. The domain stops (before or
  after that), is reaped, and the perimeter is declared quiescent. What does hold, and is proved, is
  `QuietBelow`: no domain is left in it, and that message can begin no effect any more.

For the others the actions behave as the code does, and the properties of the passing runs are
stated so that they hold, or the order of events is behind a constant that the run has FALSE. Paths
are under `kernel/src` unless they begin with `user`.

**Scopes and accounts.**
- `scope.rs:250`, the account counts what the subtree holds: a child's unit (`api/scopeops.rs:99`)
  is not given back when its entry is collected (`scope.rs:1251-1255`). (Read in the source only: the
  models have no account of what a scope sponsors.)
- `scope.rs:9-10`, a fenced scope never reopens: `walk_lineage` asks by slot number
  (`api/mod.rs:502`), so a grant passes again when the sponsor's entry is reused. Likewise
  `scope.rs:1220-1221`: `collect_grant` credits the next occupant (`api/mod.rs:356`), and a worker
  bound to a call of the old occupant charges the new one. The last is in `ScopeLifecycle`, the
  first two, again, are not in a model.
- `scope.rs:24-26`, a ceiling is never exceeded "not even transiently": `bounded_add` adds, compares
  and subtracts (650-655). `Fits`, in the invariant of `ScopeAccounts`, says what holds: whatever
  *passed* the check is within the ceiling.
- `api/mod.rs:19-20`, a refusal leaves no partial object: `create_child` opens the scope before the
  handle is refused (`api/scopeops.rs:125-139`). Hence the parameter `handle`.

**Execution time.**
- `sched.rs:996`, the window rolls forward: `roll_window` tests for inequality (`scope.rs:749`,
  767), and a processor with an older reading of the time rolls it back.
- `scope.rs:910-911`, a promise never straddles two windows: `reserve_cpu` compares the leaf's window
  only (921). `Whole` says what the sequence check does give.
- `sched.rs:42-44`, a late settlement finds nothing to return: `return_cpu` compares the window (993)
  and then changes the counter (1001-1009).
- `scope.rs:855-856`, committed is charged plus promised: the undo of a reservation that a roll
  overlapped (955) subtracts from a counter that no longer holds its add.

**Translations and frames.**
- `api/memops.rs:482-486`, frames are freed when no translation reaches them: with two mappings
  withdrawn at once, the acknowledgement of one (`api/domainops.rs:366`) frees what the other still
  waits for. `RecordedReclaim` covers the object with one.
- `api/scopeops.rs:434-436`, no other agent holds a reference at retirement: an unmap may still be
  waiting for one. `Retires` in `Memory`: a device's grant may be outstanding too.
- `api/memops.rs:309-311`, no mapping is removed without announcing it: a map that fails half-way
  removes its first pages through the page tables (`api/domainops.rs:212-218`). `Announced` and
  `RecordedReclaim` leave those pages out.
- `Registers` in `Frames`: a dying domain's register windows are in its page tables, and the teardown
  counts them as its data pages. A failed `next_id` (`api/memops.rs:92-94`) keeps its frames.
  `revoke_grant` does not collect an object whose last holder was a device.

**Threads.**
- `thread.rs:574-576`, between a claim and its wake a cancellation finds nothing: `cancel_waits`
  claims with `|_| true` (`api/scopeops.rs:240`). With `Crossing` the thread is woken twice, and two
  processors may wait in `wake` for each other, which `sched.rs:1329-1331` excludes.
- `domain.rs:819-820`, a dead thread is never enqueued again: a decision that chose the thread before
  the stop writes Running over Dead in `Claim`, and the thread may be queued when its slot is reset.
  With `Reuse` the slot's next thread can then run on two processors: `OneRunner` fails. All the
  theorems about `Dispatch` but one therefore assume `~Reuse`.
- `delegate_aged_sync` looks at the target's idle state (1510) without the sequentially consistent
  fence that `wake` has. The model is sequentially consistent, so `NoSleep` does not speak of it.

**Invocations.**
- `domain.rs:647-649`, `api/ipcops.rs:1796-1798`, a fault report is not lost: it is queued with the
  dying domain as its origin, and `on_domain_death` withdraws what that origin has queued.
- `scope.rs:333`, the pending count: a resolution and the caller's own discharge can both lower it.
  `AccountsMatch` says what holds, that the count is never above the unresolved calls; `scope_owed`
  shows what follows from its being below.
- `thread.rs:650-655`, every caller registers its wait under the object's lock: `call` drops the
  channel (`api/ipcops.rs:582`) before `prepare_wait` (785), and a reply in between wakes nobody.
- `api/mod.rs:300-309`, both ways of letting go end in `collect_invocation`: `unbind_worker` does not
  call it. A failed `next_id` (`api/ipcops.rs:411`) comes after moved handles were taken.
- `SharedTickets`: two threads that reply with one ticket both pass the check. `Overtaken`: a late
  discharge ends the record's next invocation. `Crossing`: as for threads.

**Authority.**
- `api/mod.rs:327`, a node nothing refers to is freed: the walk stops after `MAX_DERIVE_DEPTH` (335).
- `api/mod.rs:329-331`: `collect_grant` drops the node's lock between levels, and with `Overtaken`
  it frees a node that was reused meanwhile. With `Untold` a handle closed before its reference is
  counted (213) does the same. `EntryBacked` fails in both.

**Devices and events.**
- `device.rs:410-413`, a late interrupt is not attributed to the next session: with `Late` its vector
  belongs to that session already. `api/devops.rs:632-633`, the driver cannot re-arm the device: with
  `Rearms` it does, through registers it has mapped.
- `events.rs:11-13`: with `Recycled` a waiter that comes back lowers the count of the slot's next
  signal (`api/evtops.rs:270-272`), whose waiters then are not looked for.
- `ControlLog` has one reader: of two, a receipt wakes one.
- `ucopy.rs:12-13`, a bad address is an error before the first byte moves: copies go page by page,
  each page translated when it is reached.
- `k2boot.rs`, `image_object` keeps what it reserved when its allocation fails.

**User level.**
- `user/k4store/src/state.rs:16-19`, recovery resolves every prepare: a second principal's prepare
  takes the place of the first in `pending`, and only the last is resolved. `Replaced`: a service
  replaced between a write and its flush believes what is not on the medium. `Persists`: going on
  after a flush whose outcome is unknown gives one request two outcomes. `ReadFaults`: a block that
  cannot be read ends the log, as if nothing followed.
- `user/k4store/src/state.rs:545-547`: staging what is there already does not pin it. `Foreign`: a
  root that is not the principal's candidate is swept while its publication is prepared.
  `Unpublished`: a compaction that copies staged objects keeps their slots.
- `user/k5work/src/main.rs:874-876`, a program that changes the workspace after validation is
  refused: without `Disciplined` it is not. Without `Answered` a request identity is spent twice.
- `user/k5super/src/surface.rs:169-173`, `launcher.rs:496-499`, handles are closed at their last use:
  with `Refuses` a build refused half-way keeps what it opened.
- `user/k4disk/src/main.rs:307`, nothing further reaches the medium after the latch: with `Late` a
  request that missed its deadline does. With `Rewrites` the held write lands over a later one
  (527-531).
- `user/k3driver/src/main.rs:179`, a three-descriptor request: the header's descriptor links to the
  status (208), so the device never follows the payload's.

## 5. The proofs

Each component's proofs give an inductive invariant, one lemma per action, and from it the
properties. They hold for every value of the constants that satisfies the named assumptions.

- **BrLock** (`NCpuAssumption`, `TicketModAssumption`: at least one processor, more tickets than
  processors). `Exclusion` alone is not inductive: it needs that the tickets out are the interval
  from `serving` to `next`, one each, also across the wrap (`TicketInv`), that only the ticket being
  served is past its turn, and that a processor already scanned cannot be a shared holder while
  the flag is up (`HoldInv`). `ExclusiveIsAlone` and `Refinement` follow.
- **ScopeAccounts** (`PathAssumption`, `BoundAssumption`: chains start at their scope and repeat
  none, reservations are finitely many). `Conserved` says an account is the number of units that
  walks have in it, by the level each walk is at; `Fits` bounds those that passed the check.
  `AccountsSettle` is the case without walks, `Refinement` maps `held` to the abstract grant.
- **ScopeLifecycle** (`BoundsAssumption`: a finite table of records), for any size of the scope
  table and any number of domains. `QuietBelow` is not inductive: that nothing is below a closed
  scope says nothing of a scope that is about to be closed with it. `Nested` orders the states along
  the parent links, and `Clear` says that no domain or effect is in an entry that is neither open nor
  fenced. `Clear` is kept where the steps of domains and calls meet it: an effect begins, and a domain
  is made, only below open ancestors, while binding a worker, a fault, a late reply and a second
  discharge move what is charged and bring neither (`BusyKeeps`). The promotion keeps it because it
  reads the counters of the domains and effects; the counter of calls plays no part, which is why the
  second discharge does not break it. Then a promoted or retired entry has quiet descendants
  (`QuiescenceIsStable`), and entries move as `Forward` says (`LifecycleForward`). Chains are least
  fixed points over the parent links, so their few lemmas need no induction.
- **CpuBudget** (`BudgetAssumption`). `RollOrderly` is the sequence counter's parity, `Climbed` says
  that a reservation whose sequence has not moved still counts at each level below. That gives
  `ReservationWhole`.
- **TlbShootdown** (`ShootdownAssumption`). `Awaited`: a processor with a translation of the mapping
  being shot down owes the generation and is in the mask. `Remembered`: one with a translation of
  any withdrawn mapping owes the generation the object recorded and is in the set it recorded.
  `Orderly` keeps translations inside the live set. They give `AcknowledgedIsGone`,
  `RecordIsEnough`, and `WithdrawalsAnnounced`: a translation outside the page tables is one that a
  shootdown is still owed for.
- **Dispatch** (`DispatchAssumption`: finitely many processors, at least one, told apart from
  `Idle` and `None`), for any number of processors and threads.
  `NoWakeIsLost` (a processor that halts has no work that nobody will tell it of) needs `TypeOK` and
  `Shape` only, with or without reuse. `Shape` says what the registers of a processor hold at each
  of its steps: whether it has a thread, what `arg` and `aim` name, that it shows itself halted
  before its last look. The other three assume `~Reuse` and need more, because "this thread runs on
  one processor" says nothing of a thread that is on its way there. `Life`: a slot nobody was given
  is nowhere, a thread that waits belongs to a domain that is not stopping, and one thread at a time
  is being stopped, by the holder of the machine. `Held`: one processor holds or claims a thread, and
  the thread carries its mark from the claim to the release. `Placed`: a thread is in one queue or in
  one hand (a delegation, a theft, a decision), in none while it runs or waits; a ready thread is
  somewhere, and one that is being left while it could go on is in the queue of the processor that
  leaves it. `Stops`: where a thread that was told to stop is dispatched all the same, its
  termination has that processor still ahead of it, or the interrupt is pending there. `RunsOnce`,
  `NeitherLostNorTwice` and `StopArrives` follow. `~Reuse` is not for convenience: with `Reuse`
  `OneRunner` fails (section 4).
  `DispatchSteps` begins with what the steps share: an update of one field keeps the types
  (`Set...`), a step that touches no place keeps `Placed` (`Quiet`), moves one thread (`Carried`) or
  drops it (`Left`), keeps what a stop is owed (`StopsKept`), keeps every halted processor awake or
  told (`Awake`, `Told`). It goes on with a lemma per action; those that move a thread between
  processors or end it, and the theorems, are in `DispatchProofs`.
- **Invocations** (`InvocationsAssumption`: finitely many records and receiving threads, callers and
  receivers told apart), for any number of callers. All assume `OneUser`, that is `~SharedTickets`
  and `~Overtaken`; `AnsweredOnce` assumes `~Crossing` too, since each of the three lets in an order
  of events for which a property fails (section 4). The properties need one another. That the
  charge of a record is returned once, and the count of pending calls never too high
  (`AccountsStay`), rests on the ticket being of the record's generation; that a ticket stays so (`RecordsStay`) rests on the references, which a close
  returns only once if one thread works on a ticket; that the answer a caller returns with is its own
  (`AnsweredOnce`) rests on the replier's claim and on the wakes that are owed. Hence `IInv` has
  three parts. `Records` joins the queue, the free list, the generation that each ticket and binding
  names, at least as many references as there are names, and the accounts. `Calls` says, thread by
  thread, which ticket, wait and answer it may have at each of its steps: who sleeps and is claimed
  is owed a wake or has a replier about to send it (`Caller`, `Replies`); no two callers are in one
  call and no two receivers on one ticket (`Apart`). `Reached` says that a waiting receiver has its
  bit in the channel, and gives `ReceiverIsReached`. The predicates take the table and the threads
  as arguments, and the lemmas of `InvocationsSteps` are about any table: `Dies`, `Fence` and
  `ServerDies` run several of the code's loops in one hold, and their proofs compose the lemmas over
  the tables in between. `withdraw` is a recursive function along the queue; what it keeps is proved
  by taking a least counterexample (`Counting`, `WalkKeeps`).
- **Invoke** (the descriptor has a first page; `None` is no frame), for any pages, frames and
  operations. `EntryIInv` says that a mapped frame is the caller's and mapped once, and that the
  frame of a copy in progress has not reached the pool: between translation and copy this processor
  masks interrupts, so no flush happens here (`CopiesStayOwned`). Past the check the staged header is
  the accepted one, and a resolution is made and used inside one hold (`HandlersAreChecked`).
- **ControlLog** (finitely many admissions, natural capacities). `LogIInv` counts one promised cell
  for each admission that holds a reservation, and these fit beside the records: so
  `CoveredIsRecorded`. An auditor asleep has its bit set, so whoever completes a batch sees that a
  wake is owed; with the arithmetic of the sequences, `BatchesAreHeard`.
- **Events** (finitely many threads, `~Recycled`), for any signals and timers. Each operation takes a
  shortcut: a raise searches for sleepers only if the count of waiters is not zero, the tick looks at
  timers only past `NEXT_TIMER`. `SignalIInv` says the count is at least the number of threads that
  are in it, the abandoned ones only adding; `TimerIInv` that `NEXT_TIMER` is no later than an armed
  deadline. `SignalsAreHeard` says that neither shortcut misses anyone.
- **Smp** (`~Late`). `SmpIInv`: slots are given in order, once each, and while a processor is being
  started the block names its slot. `SlotsStayApart` is `StacksApart` without late arrivals; with
  them it fails, which is the run `smp_late`.

The last four share a module of proofs with another component, and for that their specifications
are named `EntrySpec`, `LogSpec`, `EventsSpec` and `SmpSpec`, as `BrLock`'s is `LockSpec` beside
`ScopeLifecycle`. Their hypotheses on the constants are in the theorems. TLC checked the invariants
of the components that have a run of their own before they were proved; of these four it checks the
properties, in `kernel_parts`.

Only model-checked:
- liveness (`WriterServed`, `DecisionEnds`, `ShootdownEnds`, `DrainCompletes`), which the prover does
  not reach;
- the other properties of `kernel_parts`, and those of `user_parts`, most of which rest on what a
  fold or a search over data computes (`Store`, `Frames`, `Elf`, `Workspaces`), which the prover does
  not reach by induction.

## 6. What is not modelled

`PROJECT.json` lists every component with its status. Left out:

- `charge_cpu`, the recovery account and the parallelism limit of `scope.rs`; the deadline that
  `sched.rs` computes for the timer (time is an input of `Dispatch`).
- `shootdown_all`, the kernel half of an address space, and `forget_space`.
- The bytes and handles of a message, and the marks of a cancellation, in `Invocations`.
- What a scope sponsors, and the release of it by a retirement (`release_sponsored`), as far as the
  scope's accounts go; `Memory` has the objects.
- The enumeration of buses, ACPI tables, the UEFI loader, the order of hardware set-up in `boot.rs`:
  sequential start-up code. `arch/x86_64` is register access; `TlbShootdown` states what it relies on.
- `SpinLock` and `TicketLock`, of the usual form; `diag.rs`, `panic.rs` and `trap.rs`, which write text
  or decode a frame; `abi`, which is generated.
- Receipts and retained results of the store beyond the last, its wire format; `run_publisher` of
  `user/k5work`; `negative_controls` of `user/k3driver`; the audit reader and the smoke stage of
  `user/k5super`; the other user programs, which exercise the kernel and check it as they run.
- Weak memory: the models are sequentially consistent.

## 7. Running it

    tlc -config MCDispatch.cfg Dispatch
    tlapm DispatchProofs.tla

The module of each run is in `PROJECT.json`. `dispatch`, `scope_owed` and `smp_late` run the
component's module itself. A run takes from twenty seconds to three minutes on two workers, a proof module from
one to twenty minutes.
