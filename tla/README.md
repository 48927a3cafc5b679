# Verification of the compute-mesh extracts

TLA+ models, TLC runs and TLAPS proofs for the parts of this repository that
keep state and run concurrently. Paths such as `libvirt_provider.rs:1022` refer
to the repository's source; `map` in `PROJECT.json` names the lines that each
definition stands for.

    tlc -config LibvirtForwards.cfg MCLibvirtRuntime.tla     # a run
    tlapm LibvirtRuntimeProofs.tla                       # a proof

## 1. Inventory

The repository holds extracts of a larger product. The host application
(`AppState`, the capability router, the workspace service, the LDK node) is not
in it, so a component is modelled from its own code, and what calls it is a set
of callers that may do anything the interface allows.

| component | state it keeps | operations | what is hard | what makes it correct |
|---|---|---|---|---|
| KVM/libvirt runtime, `libvirt_provider.rs` | tenants map, allocated ports; in libvirt: definitions, domains, leases; disks, seeds; socat children | create, start, stop, remove under one `lifecycle_lock` | rollback of half-done creates, children that outlive their timeout, a restart that loses the maps | the port pool is exact, a port is one tenant's, no forward outlives its lease, no tracked tenant loses its disk |
| pause and resume, same file | none of its own; the domain's state and what `virsh domstate` says of it | pause, resume, debounced confirmation | no lock at all, stale reads, late commands, pauses by the hypervisor | Ok means what it says; one bad read is not an error |
| payment timer, `payment_timer.rs` | session to `JoinHandle` | start, stop, stop_all, the tasks | abort against a running poll, a read guard held across `invoke` | one payer per session, a stop ends it, it pays on after failures |
| circuit breaker, `hybrid-signer/src/circuit_breaker.rs` | four shared words, no lock over them | should_allow, record_success, record_failure | interleavings between any two loads and stores | trips when it must, waits, probes, recovers |
| signer adapter, `ldk_signer_adapter.rs` | none | sign_commitment, sign_htlc, sign | records no outcome itself | asks the breaker at or above the threshold |
| SLM lifecycle and budget, `lifecycle.rs`, `memory.rs`, `providers/ollama.rs` | `used_mb`, a semaphore; in Ollama: resident and downloaded models | load, unload, swap, delete, pull, sync | a budget apart from what it counts, calls outside the semaphore, a timeout that drops a call anywhere | `used_mb` never passes the limit, the permit always comes back, every call returns |
| SLM router, `router.rs` | none | route, then the inference | four requests and a reading of the budget, reserving nothing | `used_mb` keeps its limit next to routes and inferences |
| Docker and PTY runtimes, `container.rs` | a terminal id | the same trait | little | maps status words |
| workspace service and billing | sessions, accrued time (only migrations and a test are here) | tick, pause, resume, reconcile | crash between a charge and its record | no double charge |
| workspace HTTP server and VNC proxy, `http_workspace_external.rs` | read guards of the service's `RwLock`; two tasks and two sockets per desktop | list, start, get, stop, attest, vnc | a guard held for the life of a desktop, a detached half, a connection that breaks at any await | the handler and its guard go once either side has gone, a stop ends the desktop, the lock is kept only by a desktop that is watched |
| workspace event handlers, `workspace_credits_handler.rs`, `workspace_payment_handler.rs` | none | one bus event in, one call of the service out | they wait behind the same lock | every event is handled |
| cron bridge, `cron_command_bridge.rs` | none | one command in, one cron call out | the lock it shares with the payment timers, a timeout, no retry | the cron app follows what was answered |
| BOLT12 capabilities, `ldk_bolt12_capabilities.rs` | none; the node's payment history | pay, poll, status, paged history, peers, channels | settlement after the last poll, pages cut out of a moving list | no answer is contradicted, no bill is paid twice, no payment is missed |
| workspace HTTP client, `http_workspace_client.rs` | none | one request per call | errors made into empty answers | a translation |
| TEE foundation, recovery report, metrics | counters | attest, status, classify | none here | pure |
| SEV-SNP verifier | none | verify | none here | pure |
| RK3566 trusted application | one persistent key | open or create the key, sign | first use | the key is stable |
| frontend, infrastructure scripts | fetched records | views, installs | none here | layout |

How they interact: the host's endpoints call the workspace service, which calls
a `ContainerRuntime` (the KVM runtime is one) from many tasks at once; billing
calls pause and resume on the same tenants; renters and the event bus reach the
service through one `RwLock`. The renter's payment timer reaches
the LDK app through the capability router, which sits behind an `RwLock` that
the cron bridge shares. The signer adapter asks the circuit breaker before it
signs; host code reports the outcome. The SLM endpoints call the router and
the lifecycle manager, which share the memory budget and one Ollama server.

`hazards` in `PROJECT.json` lists what a test would hardly reach, each at its
line, with the properties that would notice.

## 2. Plan

The order the modules were written in, the most important behaviour first:

1. `LibvirtRuntime` over the abstract `PortLease`;
2. `CircuitBreaker`;
3. `SlmLifecycle`, and on top of it `SlmRouter`;
4. `DomainPause`;
5. `PaymentTimer`, and next to it on one lock `CronBridge`;
6. `WorkspaceServer`: the service's lock, the VNC proxy, the event handlers;
7. `LdkPayments`.

Three components have an abstract specification that they are shown to
implement: `PortLease` for the runtime's port pool, `AtomicBreaker` for the
circuit breaker, `MemoryBudget` for the account of the SLM manager.
`SlmRouter` and `CronBridge` are compositions: each EXTENDS the module of the
component it interacts with, adds its own variables and interleaves its steps
with the other's.

What would come next: an external billing part written from the migrations and
the test, over `PaymentTimer` and `DomainPause`, to show that a session that is
paid runs; stop and remove of `LibvirtRuntime` while a pause of `DomainPause`
waits for its confirmation.

## 3. The modules

Every module is parameterised by its actors and bounds; each `MC` module only
gives TLC values and symmetry sets. A definition named `X_Y` whose comment
begins "Fault for testing" is a plausible bug of `X`: it shows that the
property next to it in `mutants` can fail. No specification uses it.

### LibvirtRuntime, PortLease

State: `lock` is `lifecycle_lock`; `tenants` and `ports` are the two mutex-held
maps; `defined`, `active`, `leases` are libvirtd's; `overlays`, `seeds` the
files; `forwards` the live socat listeners; `late` the commands whose caller
gave up. `pc` and `call` are the locals of each call.

One action per await: `CreateCheck` to `CreateCommit` with `CreateUndo` and
`Discard` for the error paths of `create_container`; `StartDomain` to
`StartRecord` for `start_container`; `StopKill`, `StopDestroy`, `StopClear` for
`stop_locked`, which remove shares and whose result it ignores;
`RemoveUndefine`, `RemoveForget`. `RunCommand` is `run_cmd_with_timeout`: it
works, finds nothing to do, fails, or times out and leaves its child running.
`LateCommand` is that child reaching libvirtd. `Crash` is a restart: memory is
lost, domains and files stay, the command in flight may go on, socat may live.

`PortLease` is what callers rely on: a name has at most one port, no two names
have the same, a port changes hands only by being given back. `LeaseOf` maps a
state of the runtime to it: the entry's port, or the port the operation under
way still holds.

Left out: removals of files that fail, forked socat children, reuse of process
ids by the kernel, a caller that drops the future of a call, names that
`is_valid_tenant_name` refuses, the VNC port.

### DomainPause

`domain` is what the domain is and `shown` what `virsh domstate` may still
answer; `Read` returns either. A call is `FastPath`, `Command`, `Fallback`,
`Confirm` (one turn of `confirm_domstate_debounced`), `ConfirmTimeout`. The
deadline is counted in reads: `Budget` of them fit, and a slow read uses up the
rest. `Settle`, `OutOfBand` and `LateCommand` are libvirtd, KVM or
an operator who pauses, resumes, stops or starts the domain, and the
children of timed-out calls, at most one of each kind. `seen`, `noise` and
`excuse` are history of a call, for the properties only.

`Budget >= 2 * Consecutive` is the assumption on the constants. In the code it is
10 reads, 200 ms apart in 2 s, against 2 in a row; reads that take long enough
to break it are the fault `slow`.

### PaymentTimer

`timers` is the map of handles, `task` each spawned task at one of its awaits
(`tick`, `lock`, `invoke`) or running a poll, `readers` and `writer` the
router's `RwLock`. `StartTimer`, `StopTimer` and `StopAll` each run in one
critical section of the map's mutex and are one action. `abort` only marks the
task: `Drop` removes it when it waits, and a poll that runs (`poll`) goes on to
its next await, also after the abort. `InvokeReturns` and `InvokeFails` are the
two outcomes of a payment; `invoke` has no timeout, so neither need ever come.
tokio's lock is fair, so a waiting writer keeps new readers out; `AskWrite` and
`Write` are the host's.

Left out of the timers: the clock, so bursts after a long payment are behaviours
but nothing counts payments per interval; a zero interval, which panics.

### CronBridge

Extends `PaymentTimer` with the bridge: `Handle` takes a command off the bus,
`CloneRouter` clones the router and drops its guard in one poll, `Answer` is the
cron app's reply, its refusal, or `BRIDGE_TIMEOUT`. `UpdateJob` and `DeleteJob`
are logged and dropped. `job` is the cron app's, one external reference;
`wanted` is what the publishers asked for, and `trust` whether they may count
on it: not after a lost command (`lost`, until the next create or delete), and
never again after a call that timed out and may still take effect (`late`).

Assumed of the bus: one command at a time, in order. Left out: the fields of a
registration other than its trigger.

### CircuitBreaker, AtomicBreaker

One action per atomic access of `should_allow`, `record_success` and
`record_failure`; `SetState` and `Stamp` are the two halves of `transition_to`.
Time is relative: `since` is the age of `last_state_change`, and stops at
`MaxTimeout`, beyond which no comparison changes. Who records outcomes is not
in the repository; each call that was let through records what the secure
element did. Left out: reorderings between different atomics that
`Ordering::Relaxed` would allow, and the adapter's unchecked hot path.

`AtomicBreaker` is the machine drawn in the file's header, in which an outcome
is one step: closed, open or half open, a count of failures in a row, a timeout
that doubles with each failed probe. `AtomicSpec` maps the words to it for one
thread. The state is the word itself; the count is `failures`, short of the one
that `FailureCount` has just added and `FailureOpen` acts on; the timeout of a
half-open circuit is the one its thread waited out (`timeout`), because
`FailureBackoff` changes the multiplier before the state. So a failure takes
effect in `FailureCount` or in `FailureOpen`, a success in `SuccessReset` or
`SuccessClose`, a probe in `AllowProbe`, and every other access is a stutter.

### SlmLifecycle, MemoryBudget

`used` is `used_mb`; `permit` the semaphore; `loaded` and `disk` Ollama's.
`Reserve`/`ReserveCas`, `Release`/`ReleaseCas`, `GiveBack`/`GiveBackCas` are
the load and the compare-exchange of `memory.rs`; `SyncReset` to `SyncCas` are
`sync_memory_state`, which a failed load runs with its permit. `SwapTimeout`
drops a swap at any await. `Mb` is the size `/api/tags` reports and `RunMb` the
size `/api/ps` reports.

Ollama acts on a request also when its client has given up. A `generate` is
`Answered`, or `GivenUp`: then the model stays in `late`, and `LateLoad` makes
it resident at any later time, before or after the reconciliation, or never.
`Expires` is a model whose keep-alive ends or that Ollama evicts for another,
`OllamaRestart` empties the server. `Resident` is the sum of `RunMb` over
`loaded`, written as the number of pairs of a model and a megabyte of it, which
needs no recursion. `Overlap` FALSE restricts the callers, so that only loads run
side by side: `SlmCalls.cfg` and `CallsComeToAnEnd` use it, no other run does.

`MemoryBudget` is what the manager relies on: reserve, release and reset act on
`used_mb` in one piece. `BudgetSpec` maps to it with the amount of each task,
`call[t].mb`; the load of the value and an exchange that fails are stutters.
It says nothing of what is resident, which the account does not follow (section 4).

### SlmRouter

Extends `SlmLifecycle` with one caller: `RouteLocalOnly`, then each request of
`check_local_availability` as a step (`IsAvailable`, `ListTags`,
`ListRunningNames`, `Decide`), then its inference (`Infer`). Any request may
fail; a failed list of running models marks none as loaded. The inference
follows every route, to a warm model or a cold one, and Ollama loads what it
names: a cold one goes around the budget, whatever `can_load` answered
(`router.rs:136`). Left out: cloud routes, which answer at once.

### WorkspaceServer

`guards` are the handlers that hold the read guard of `workspace_service`,
`writer` the host that waits to install the service. `ReadService` takes the
guard, `ServeStart` to `ServePayment` are the service's answers, `HangUp` is a
broken connection, which drops the handler at its await. `http_stop_session`
clones the service and holds no guard while it works.

A proxy goes through `LookUp`, `Endpoint`, `Connect` to two forwarding tasks
(`input` from the renter to QEMU, `frames` back). A task waits for the next
message of its sender (`Input`, `Frame`) and then until its receiver takes it
(`typing`, `drawing`; `InputSent`, `FrameSent`), both without a timeout. It ends
with its stream (`InputEnds`, `FramesEnd`) or when a send meets a receiver that
has gone (`InputFails`, `FramesFail`). `Return` is `select!`: the first task to
end ends the handler and its guard and detaches the other. A detached task whose
sender stays silent lives on for ever, with both sockets.

External: what the service does to a session (`Provision`, `Bill`), the renters,
QEMU and the host. Left out: the content of answers and frames.

### LdkPayments

`payments` is the node's history, `bill` what the client of a bill was told,
`paying` the thread that polls, `listing` a reader in the middle of its pages.
`SendPayment` and `PayBolt12Offer` send; `PollSucceeded` to `PollsOver` are the
50 polls (`MaxAttempts`); `GetPaymentStatus` asks again by hash;
`StartListing`, `ListPage` are `list_payments` with its filter, stable sort and
page arithmetic. `Resolve` and `Arrive` are the node's.

Assumed: the node lists payments in a fixed order and refuses a second payment
of one BOLT11 invoice unless the first failed; a client has one agent per bill
and pays again only after an answer that says it was not paid. A pending answer
of `pay_bolt12_offer` cannot be followed up, because it names a payment id and
the status is found by hash; page sizes are below 2^32.
Completeness of the history is stated newest first
and without a status filter: in ascending order, or when a status changes
between pages, an offset into the new list may skip an entry, and the code does
not say otherwise. Left out: peers, channels, L402, signing, gossip.

## 4. Runs

| run | question | bounds |
|---|---|---|
| `libvirt_restart` | port pool and disks under failing commands, kills that miss and a restart; the runtime implements `PortLease` | 2 callers, 2 names for one port, 1 spawn, 1 late command, 1 restart |
| `libvirt_forwards` | forwards, the commit of a start and termination when commands time out and take effect later | 2 callers, 1 name, 2 spawns, 1 late command |
| `libvirt_double_start` | finding: start twice loses a socat | 2 names, 2 ports, 2 spawns |
| `libvirt_prefix` | finding: a lease matched by substring | 2 names, one a prefix of the other |
| `breaker_alone` | one thread implements `AtomicBreaker`; what it leaves between calls | threshold 3, backoff 1, 2, 4, 2 outages |
| `breaker_shared` | what survives two threads | threshold 2, 2 outages |
| `slm_limit` | the limit and the semaphore, all calls, all faults; the loops of `memory.rs` implement `MemoryBudget` | 2 tasks, 2 models, limit 3 |
| `slm_unload` | finding: two unloads give one model's memory back twice | 2 tasks, 3 models, limit 2, loads and unloads only, no fault |
| `pause_resume` | what Ok and Err of pause and resume mean | 2 callers, 2 equal reads out of 4, all faults |
| `payment_timers` | one payer, stops end, payments go on after failures, writers wait for no stopped timer, the cron app follows | 2 sessions, 2 tasks, the bridge |
| `workspace_server` | a desktop's handler returns once a side has gone, a stop ends it, the lock is handed on | 2 renters, 1 event task, 1 desktop, 1 session |
| `ldk_payments` | answers hold, nothing is paid twice or missed, calls return | 1 payer, 1 invoice, 1 offer, 1 reader, page sizes 0 and 1, 2 polls, 3 payments, 2 seconds |

Why these bounds are enough to be interesting. Two callers give every pair of
operations and each of them waiting on the other; one port and two names make
the pool run out and a port change hands; one late command is enough to meet a
later operation's command, and one restart with a command in flight to meet an
old domain. For the breaker, a second outage shows what the first left behind,
and a backoff that doubles twice reaches the cap. In `slm_limit` the files just
fit the limit together and the resident sizes do not; in `slm_unload` two small
models or the big one fill the budget. Two pausing callers
and the hypervisor give opposite commands on one domain. Two tasks on two
sessions give a restart of one or a neighbour; `CronBridgeProofs` covers any
number. One payment that settles after the last poll, a retry of it and a
neighbour fill the three payments of `ldk_payments`; page size 1 turns every
page. One desktop is enough for the proxy's two tasks, and two renters to stop
its session while another request waits behind the writer. `MaxSpawns`,
`MaxLate`, `MaxCrashes`, `Outages`, `MaxPayments`, `MaxNow` and `Tasks` of the
timer only bound the behaviours; all are named constants in the guards. A bound on tasks also ends the restarts in
`payment_timers`; its liveness properties are about tasks that exist.
No run that checks a liveness property uses symmetry, and every run checks for
deadlock.

### What the finding runs show

* `libvirt_double_start`: `start_container` overwrites `socat_pid`; after
  start, start, remove the first listener lives on a port of the free pool.
  The documentation calls every operation idempotent.
* `libvirt_prefix`: with `tenant-10` listed first, `tenant-1`'s public port is
  forwarded to `tenant-10`'s machine.

* `slm_unload`: `unload_model` takes no permit, although `lifecycle.rs:28` says
  the semaphore serialises it with loads. Two unloads of one model, the second
  around a load of it, give its megabytes back twice; the next load is admitted
  and Ollama holds more than the limit, with no request failing.
* `payment_timers`, which passes: `PaysAgain` says that a timer pays on after
  failures. `payment_timer.rs:8-9` says that it stops when the payment fails,
  and `cross-node-rental/README.md:21` that it pauses after three failures; the
  code counts none and its comment at line 127 says "Don't break".

`ResidentFits` fails for other reasons too. Two are configurations below. The rest
follow from what `SlmLifecycle` does: `lifecycle.rs:177` ignores a failed eviction
and releases; `lifecycle.rs:196` drops a swap that has reserved and keeps the
reservation, so that `used_mb` is too high until the next reconciliation;
`lifecycle.rs:244` sets the account to zero before it knows what runs; a
reconciliation skips a model that does not fit; a load reserves the file's size
and Ollama uses more.

Further configurations, to run by hand. The first three end in a counterexample:

* `tlc -config BreakerHurried.cfg MCCircuitBreaker.tla`: `transition_to` stores Open
  before its time, so a second thread compares with the time before and probes
  at once, although `circuit_breaker.rs:10` speaks of the timeout.
* `tlc -config SlmLate.cfg MCSlmLifecycle.tla`: a load that timed out and was
  reconciled while Ollama was still loading; the next load is admitted, and
  then both models are resident.
* `tlc -config SlmRoutes.cfg MCSlmRouter.tla`: a route to a cold model that fits,
  a load that takes the room, then the inference.
* `tlc -config SlmCalls.cfg MCSlmLifecycle.tla` passes: under every fault, while
  only loads overlap, every call returns (`EveryCallReturns`).

Met while modelling, and not run: after a timeout, two libvirt commands may
run at once although `libvirt_provider.rs:171-172` speaks of serialised
operations; two threads can be let through one half-open circuit
(`circuit_breaker.rs:6`, `:26`); the signer adapter records no outcome, so the
host must; an outcome recorded late closes or reopens a
circuit it does not belong to; the fast
path of pause answers Ok to one stale read although the debounce was written
against exactly those; `ldk_bolt12_capabilities.rs:757` narrows the page size to
32 bits and divides by it, so that a multiple of 2^32 divides by zero;
`http_workspace_external.rs:335-338` leaves the half of a proxy that lost the
`select!` to wait for a peer that may never speak again;
`http_workspace_external.rs:216` keeps the service's guard for as
long as a desktop is watched, so a host that replaces the service waits that
long and every later request waits behind it; of the HTTP client,
`list_user_sessions` asks with GET a path on which the server registers only
POST, so it never has a session to list although `workspace_endpoint.rs:58`
promises all of them, `get_balance` has no route either and answers 0 on any
failure, and a lost answer to `start_session` leaves a session whose id the
renter never learns; `refresh_peers` disconnects all peers before it connects
any; `payment_timer.rs:59` panics on a zero interval and bursts after a payment
longer than one; a timer whose `invoke` hangs pays no more and keeps the router's
read guard until somebody stops it; the comment at `payment_timer.rs:24` says that
dropping a handle cancels its task, while tokio detaches it (the code aborts).

## 5. Fairness

* `LibvirtRuntime`: weak fairness of each caller's steps, because each await is
  a command with a timeout, a spawn or a file operation; strong fairness of
  `Acquire`, because tokio's mutex queues its waiters. None of `LateCommand`,
  `Crash`, or of callers that begin.
* `SlmLifecycle` (used by `SlmCalls.cfg` only): the same, with the client's timeout
  and the semaphore's queue.
* `CircuitBreaker`: weak fairness of the clock and of each thread, requests
  included; nothing of the secure element. `Recovers` and `Trips` are about a
  device that ends up staying as it is.
* `PaymentTimer`: weak fairness of each task's polls (the interval ticks, an
  aborted task is dropped), strong fairness of the queued read, weak fairness of
  the writer and of the one installation of a router. Nothing is assumed of
  `invoke`, which has no timeout. `StopEnds` holds as it is; `PaysAgain` and
  `WriterServed` suppose `NoTimerHangs`: a timer whose payment hangs is stopped
  at some time, which the code leaves to whoever calls `stop_timer`.
* `CronBridge`: the timers' own; strong fairness of `CloneRouter`, for the
  lock's queue, and weak of `Answer`, for `BRIDGE_TIMEOUT`. None of commands or
  of late effects.
* `SlmRouter`: none; its properties are invariants.
* `WorkspaceServer`: weak fairness of each handler and task, strong of each
  `ReadService` and `LookUp`, because the lock is first in, first out. Of the
  outside: a session being provisioned runs or fails, and QEMU's socket closes
  with its session. Nothing is assumed of what a renter or QEMU sends. That a send
  to them does not wait for ever is no fairness but a condition of the three
  properties (`PeersRead`), because the code puts no timeout on it; `LockServed`
  further supposes that no desktop is watched for ever, which the code does not
  prevent either.
* `LdkPayments`: weak fairness of a polling thread; nothing of the node, whose
  payments may stay pending for ever.
* `DomainPause`: none; its properties are invariants.

## 6. Proofs

All theorems hold for every value of the constants that satisfies the named
assumptions, which are types of the constants, `Budget >= 2 * Consecutive` for
the pause, one thread for the `Alone` theorems, and what a theorem names after
ASSUME.

* `LibvirtRuntimeProofs`. The invariant is `TypeInv` with `LockHeld` (a caller
  inside an operation holds the lock), `Stage` (what a caller knows at its
  step: a create before its commit has an untracked name, a start after
  `StartPort` the tracked port, a remove after `RemoveForget` an untracked
  name) and `PortsAccounted`. Without `Stage` a `Discard` could return another
  tenant's port; without `LockHeld` `Stage` would not survive the steps of
  others. From it: `TypeCorrect`, `PortPoolSound`, `StartNeverRaces`. The
  refinement `RuntimeImplementsLease` shows that each step maps to a grant, a
  return, the restart's forget or a stutter. Three further invariants stand on
  it. `FilesInv`, for `DisksStay`: a create past its overlay step has the disk, and
  past its seed step the seed, of the name it will enter into the map. `ForwardInv`, for `FreePortsSilent`
  and `PublishedForwardsLive`: every listener is on the port of a tenant in the
  map, and the entry has its process id or the start about to record it has.
  That needs `Gentle` (no second start of a tenant with a forward, no kill that
  fails, no restart): `libvirt_double_start` shows what the first excludes.
  `Found`, together with `ForwardInv` for `OwnTenantReached`: the address a
  start has found is its tenant's, and so is that of every live listener on the
  port of a tracked tenant. It supposes `NamesApart` (no name is part of
  another's lease row), which is what `libvirt_prefix` lacks, and `Gentle`, so
  that no listener of an earlier tenant survives on the port; `PortsStay` says
  that a tenant keeps its port while it is tracked.
* `CircuitBreakerProofs`. Types for any number of threads. For one thread the
  invariant `Alone` says what the shared words are at each step: the state it
  read is the present one, and a count short of the threshold. `AloneDocumented`,
  `AloneEarnedTrip` and `AloneSettled` follow. With two threads a late outcome
  breaks them, and a probe need not even wait out the timeout (`WaitsRecovery`,
  `BreakerHurried.cfg`). `AloneIsAtomic` is the refinement. It needs `Waited`, which
  ties the timeout a thread waited out to the multiplier, before and after a
  failed probe has changed it, and the lemma `Doubling` on the clamped product
  of `backoff_multiplier` and `base_recovery_timeout`: a failed probe doubles
  the timeout until it is within one base of the maximum, also where the base
  is zero, passes the maximum or does not divide it.
* `SlmLifecycleProofs`. The invariant joins types, `CallShape` (which locals a
  step has), `Checked` (a pending compare-exchange was checked against the
  limit), `UsedWithinLimit` and `LoadsSerialized`. `Checked` is the point: the
  exchange succeeds only on the value that passed the check. From it also
  `ManagerImplementsBudget`, for every overlap of calls and every fault.
* `DomainPauseProofs`. The invariant `Knows` says for each caller and step what
  it may rely on; `Debounce` is its core: on a domain nobody else touches, the
  streak and the reads left together suffice, also after one bad read. That is
  where `Budget >= 2 * Consecutive` is used.
* `SlmRouterProofs`. The manager's invariant survives routes and inferences,
  which change nothing of the account: hence `RouterBudgetHolds`, for any
  caller of the router. No run is spent on it, because it follows from the
  manager's; `SlmRoutes.cfg` shows what it does not say.
* `CronBridgeProofs`. For the timers the type invariant and `OnlyTimer` are
  inductive together. The bridge changes no variable of theirs
  (`TimersUndisturbed`), so what holds of them alone holds next to it. For
  `AppFollowsCommands` the invariant adds `CallLeads`: the call under way makes
  of the job what is wanted.
* `WorkspaceServerProofs`. The type invariant is inductive; its point is the
  equation for `guards`, which every answer, early return, hang-up and returned
  proxy must keep.
* `LdkPaymentsProofs`. `AnswerInv` says of each bill that all its entries have
  failed but one, and that the thread that polls has that one; `AnswersAreTrue`
  follows. `ListingInv` is about the pages: the set `Newer` of entries that sort
  before an unseen one only grows while the reader pages, because new and
  changed entries carry no earlier seconds, so an unseen entry never moves to a
  page already read (`NoPaymentMissed`). It uses the theorems on cardinalities of finite
  sets.

Five theorems are the half of termination that the prover can reach. Each
states that a call under way never goes round: every step of its own lowers a
measure bounded below, and nothing else moves the call. The rest of liveness is
that the next step comes, which is fairness.

| theorem | a call is over after |
|---|---|
| `LibvirtRuntimeProofs!OperationsEnd` | nine steps under the lock, whichever commands fail; only a restart takes the lock from its holder |
| `CircuitBreakerProofs!CallsComeToAnEnd` | eleven atomic accesses, for any number of threads |
| `SlmLifecycleProofs!CallsComeToAnEnd` | a number of steps that depends on the models Ollama runs; while only loads overlap no compare-exchange is ever retried, because what touches the budget either holds the permit or runs alone |
| `DomainPauseProofs!CallsComeToAnEnd` | `Budget + 3` steps |
| `LdkPaymentsProofs!PollingEnds` | `MaxAttempts + 1` polls |

With unloads or swaps running side by side the loops of `memory.rs` are only
lock-free: an exchange fails because another succeeded.

Only model-checked: the liveness properties (`EveryCallReturns`, `PayReturns`,
`Recovers`, `Trips`, `ProbesAgain`, and those of the timers, the desktops and
the locks), because liveness under fairness and `ENABLED` are beyond the
prover. So are proofs by induction over data; no module that is proved about
declares a `RECURSIVE` operator.

## 7. Not modelled

The components that `PROJECT.json` lists as `not_modelled`, each with its reason:

* the workspace service and its billing are not in the repository, only their
  schema and a test of their formulas; what the other modules need of them is
  external in `WorkspaceServer`;
* the HTTP client, the Docker and PTY runtimes, the SLM setup and endpoints, the
  TEE foundation's traits and mocks keep nothing between two calls and
  forward one request each; their divergences are listed in section 4;
* the recovery report, the signer's metrics and the SEV-SNP verifier are pure
  functions, the last one of library calls;
* the RK3566 trusted application runs one command at a time over OP-TEE's
  storage and cryptography;
* the frontend shows fetched records, the scripts install packages.

Of the modelled components, peers and channels of the BOLT12 capabilities are one
node call each, and the read-only calls of the KVM provider change no state.
