# Formal models of aion

aion is a durable workflow engine: workflow code runs in lightweight processes,
every decision it takes is an event in an append-only history, and a process that
dies is respawned and replays its history up to the point where it stopped. This
directory holds TLA+ models of the parts where that promise is hardest to keep, the
TLC configurations that check them on small instances, and TLAPS proofs for all
instances of the most important claims.

Paths below are relative to the repository root unless they name a module.

## 1. Inventory

### The components, their state and how they meet

| Component | Code | State | Operations |
|---|---|---|---|
| Fan-out collect | `crates/aion/src/runtime/nif_collect.rs`, `nif_collect_settlement.rs` | the run segment of the history, the per-process map of retained outcomes, a pin per await | stage, re-arm, sweep, settle, cancel the rest, return or park |
| Recorder | `crates/aion/src/durability/` | the head sequence a writer expects | conditional append; append with outbox rows; terminal with settle |
| Outbox store | `crates/aion-store-libsql/src/outbox.rs`, `outbox/transitions.rs` | one row per dispatch key | insert, re-arm, claim, complete, retry, fail, settle, stale re-arm |
| Outbox dispatcher | `crates/aion-server/src/worker/outbox_dispatcher.rs` | the claimed batch and the row in progress | claim, dispatch, done, retry with backoff, dead letter |
| Outbox reconciler | `crates/aion-server/src/worker/outbox_reconciler.rs` | none that outlives a sweep | list stale claims, probe, settle, re-arm |
| Worker transports | `crates/aion-server/src/worker/dispatch.rs`, `liminal_transport.rs`, `bridge.rs` | tasks at workers | push, accept, reply, report, give up |
| Completion delivery | `crates/aion/src/runtime/handle/delivery.rs` | the delivery gate of a live process | retain the outcome, then queue a marker |
| Run lifecycle | `crates/aion/src/lifecycle/` | handles with a completion channel | monitor an exit, cancel, pause, resume, reopen, continue, start |
| Registry | `crates/aion/src/registry/table.rs` | entries by (workflow, run), live-pid index | insert, remove, reconcile, replace residency |
| Status projection | `crates/aion-core/src/status.rs` | none | status and lease of a history or a run segment |
| Startup and adoption | `crates/aion/src/engine/startup.rs`, `startup_sweeps.rs`, `api.rs` | none of its own | respawn active runs, rebuild holds, sweep continued runs, adopt shards |
| Paused runs | `crates/aion/src/lifecycle/pause.rs` | in-memory set of held workflows | hold, release, rebuild |
| Timers | `crates/aion/src/time/`, `runtime/nif_timer.rs`, `nif_timeout.rs`, `nif_timer_bridge.rs` | timer rows, wheel tasks, a terminal-update slot per timer, the stack of scopes | arm, fire, cancel, recover, re-arm |
| Deadlines | `crates/aion/src/lifecycle/deadline.rs`, `time/deadline.rs` | the deadline timer of a run | arm, time the run out, tear it down, retire |
| Signals | `crates/aion/src/signal/`, `runtime/nif_signal.rs`, `engine/delegated.rs` | arrivals in the history, the hand-off queue, receive and send counters of a handle | signal, receive, send, defer, flush |
| Children | `crates/aion/src/runtime/nif_child*.rs` | child events of the parent, watcher and spawn-recovery tasks | spawn, watch, record the end, await, sweep |
| Single activities | `crates/aion/src/runtime/nif_activity_*.rs` | the attempt trail in the history, a retry loop per process, retained outcomes | dispatch, retry, stand down, deliver, await |
| Worker bridge | `crates/aion-server/src/worker/bridge.rs`, `registry.rs`, `heartbeat.rs`, `api/worker_grpc.rs` | registry, in-flight tracker, pending map of blocked calls | select, wait, track, send, answer, tear down, expire, drain, park |
| Schedules, shards | `crates/aion/src/schedule/`, `crates/aion/src/engine/fence.rs` | cadence state, ownership | not modelled yet, see section 9 |

A workflow process never talks to a worker. For a fan-out it writes `ActivityScheduled` events and
outbox rows in one transaction and parks. The dispatcher, a task of the server, claims
the rows, hands them to a transport and moves each row on. A completion comes back
through the delivery gate of the process that is alive then, if any; the process
records it. The reconciler and the boot sweep repair rows that a crash or a failed
write left behind. A single activity takes the other road: a retry loop beside the process
makes a blocking call into the worker bridge, which picks a worker and waits for whoever
resolves the call's entry in the pending map. Callers end, pause, resume and reopen workflows at any time, and
the exit monitor of each process records how it ended if nobody else has. All of them
run concurrently, and meet in three places: the history with its expected-sequence
check, the outbox table, and the in-memory registry.

### What is hard here

- **Snapshots.** A collect reads its history once per wake and then appends several
  events on the word of that snapshot; the reconciler probes one batch of rows and
  re-arms another; pause, resume and reopen validate before they lock.
- **Two writes for one fact.** A terminal and the settle of its outbox rows; a
  continued run and the start of its successor; a status and its dispatch hold; a
  delivered reply and `mark_done`.
- **Names that are reused.** Ordinals restart at 0 in every run of a continue-as-new
  chain, while the dispatch key and one dedup scan know only the workflow; a registry
  entry names a run, while a reopened run has a second handle under the same name.
- **Order in the history is the arbiter.** A timed-out await and a late arrival are both
  recorded; which came first decides what a replay answers. Arrivals and sends of one
  signal name share one index space.
- **Tasks that outlive what they serve.** Wheel tasks fire for runs that have ended, a
  watcher records for a parent that is exiting, a spawn-recovery task meets the sweep of a
  reopen, an append lands after the task that asked for it was aborted.
- **Delivery at least once.** Rows are dispatched again after a timeout, a crash or a
  failed write; workers report again after a lost acknowledgement; a late answer meets
  a process that has moved on.
- **Keys without an attempt.** The pending map and the tracker know the activity, not the
  attempt: a late answer, a sweep and a reply router may meet the entry of a later call.
- **Waiting.** A parked process is woken only by a marker, and a blocked call only by an
  answer, a sweep or a router; none of its waits has a timeout. A dispatch lost with a crash
  is re-armed only at the first arrival of the recovered process.

`PROJECT.json` lists these as hazards, each at the line where it bites, with the
properties that would catch it.

### What makes each component correct

- Collect: an ordinal gets one terminal per run; a race has one winner; a replay returns
  what the first execution returned; a result is returned over a complete record; the
  await ends.
- Outbox: no process waits for a completion that nothing will produce; a completion
  resolves an ordinal of its own run only; rows of ended workflows retire and stay
  retired; held rows cost nobody else a claim slot.
- Timers: a timer gets one terminal and a run one end, whoever races; an armed timer is
  driven or settled; nothing fires in an ended run; a timed-out run is torn down
  completely, its deadline retired last; a sleep and a scope replay to the same answer.
- Signals: the k-th receive gets the k-th arrival; accepted means recorded once; nothing is
  recorded behind the end; a parked receive is woken; a send is recorded once.
- Children: a recorded child is started, once; its end is recorded in the parent once and is
  an end it really came to; a parked parent is watched; awaits replay to the same answer.
- Single activities: no two deliveries carry the same attempt; nothing is recorded behind a
  terminal; a loop that delivers nothing leaves something to answer from; awaits replay to the
  same answer and wake.
- Worker bridge: a blocked call can be resolved by somebody, and is, unless a connected worker
  has its task.
- Lifecycle: one terminal per lease; pauses, resumes and reopens only over the status
  they were validated against; the doorbell rings and tells what is recorded; a running
  workflow can be reached; every continued run gets its successor.

## 2. Modules

| Module | What it is |
|---|---|
| `Collect` | one `collect_all` or `collect_race` await of a run, with crashes and replays |
| `Collect_proofs` | type correctness, one terminal per ordinal, one race winner, returns over a complete record, replays that agree, and that `Collect` implements `FanOut`, proved for all constants |
| `FanOut` | what a collect promises, in two actions: resolve an ordinal once, hand out the result of a complete record |
| `Outbox` | recorder, outbox table, dispatcher, transport, delivery gate, reconciler, boot sweep |
| `Outbox_proofs` | completions of the own run only, buried rows stay buried, nobody stranded |
| `RunLifecycle` | one workflow id: its runs and handles, monitors, callers, startup and its sweep |
| `RunLifecycle_proofs` | doorbells tell what is recorded, one terminal per lease, legal transitions, a running workflow is reached |
| `MCRunLifecycle` | `RunLifecycle` with the symmetry of the callers for TLC |
| `Timers` | one run with a declared timeout: its program's timers, the deadline, wheel, recovery, a client's cancel, the exit monitor |
| `Timers_proofs` | armed timers are driven, one terminal per timer, one end per run, sleeps and scopes replay alike |
| `MCTimers` | `Timers` with the instants at which its timers elapse |
| `Signals` | one run that receives, sends and receives a signal name: router, hand-off, pause, replay |
| `Signals_proofs` | accepted is recorded once, no wake lost, receives in order and replayed alike |
| `Children` | one parent with two children: spawn, recovery task, watcher, sweeps, reopen |
| `Children_proofs` | one end per child and a true one, awaits replay alike, no child started twice, nobody parked unwatched |
| `Activity` | one activity outside a fan-out: dispatch, retry loops, await, with restarts and reopens |
| `Activity_proofs` | awaits replay alike, nothing behind a terminal, attempts are new, stand-downs are safe |
| `Bridge` | the blocking dispatch calls of one activity: registry, tracker, pending map, both transports, drain |
| `Bridge_proofs` | a blocked call can be resolved by somebody |

The modules cut the system at its durable interfaces. `Collect` sees the outbox as the
set `outstanding` of members whose dispatch will still be delivered, possibly more than
once; that this is a fair picture is what `NoMemberStranded` and `MembersSettle` of
`Outbox` say (the first as a part of its `Inv`). `Outbox` sees a collect as "record a retained completion or cancel a
member", and a pause as a change of status; `RunLifecycle` has the pauses in detail.
`Signals` and `Children` take the race for the terminal of a scope's timer as one step;
`Timers` has it in detail and shows that it comes to one recorded terminal
(`FirstRecordedWins`). `Children` starts a child and follows its continuations as
`RunLifecycle` does in detail. `Activity` takes a call of the dispatcher as one step,
`Return`, fair unless the server drains; `Bridge` has the call in detail, and `CallsReturn`
says when it comes back.

An invariant `Inv` of a module is its type invariant with the parts that say that nothing
is dropped and nothing done twice: `NoMemberStranded` (`Outbox`), `ToldIsRecorded`
(`RunLifecycle`), `RowedTimersAreDriven`, `RetiredLast` and `NoOrphanedDeadlineAfterBoot`
(`Timers`), `ToldIsRecorded`, `WakeNotLost`, `SentOnce` and `NothingAfterTheEnd` (`Signals`),
`ParkedIsWatched`, `StartedOnce` and `NoArrivalAfterTheEnd` (`Children`),
`StoodDownIsSettled` and `AttemptsAreNew` (`Activity`), `BlockedIsOwned` (`Bridge`).

### Collect

One action per piece of `collect_step` between two store appends: `Wake` is the entry
(read the segment, stage the batch or re-arm at first arrival), `TakeAndRecord(o)` and
`SkipMember(o)` are one turn of the sweep, `Settle` computes the settlement,
`RecordCancelled(o)` is one turn of the cancellation loop, `Return` hands out the
result. `snapshot`, `pos`, `states` and `verdict` are the locals of the invocation;
`pc = "call"` is a process that has not arrived at the await in this epoch, so that a
wake from it is a first arrival. `Deliver` is
`retain_activity_outcome_and_deliver_marker`, `TimerFires` the scope deadline of
`with_timeout`, `Crash` and `Restart` the loss of the engine and its recovery; a crash
may take any subset of the dispatches in flight with it. `outcomes` is a history
variable: every result the call has returned in any epoch.

Two details of the code matter and are kept. The recorder's own dedup
(`ordinal_is_resolved`) looks at the whole history of the workflow, because the collect
passes no run id; everything else looks at the run segment. And a cancellation has no
dedup at all: a race cancels by the snapshot, an all-collect by its state vector.

Left out: payloads (only success or failure counts), `ActivityStarted` (always written
right behind `ActivityScheduled`), determinism checks on names, queries answered while
parked, the dispatch path with the outbox switched off.

### FanOut, and how Collect implements it

`FanOut` has two variables: `record`, the terminal each ordinal has, and `result`, what
workflow code was given. `Resolve` gives an open ordinal a terminal, and `HandOut` gives
out a result that the record justifies (`Justified`): every ordinal resolved; an all-collect reports
its first failure in member order, else that all completed, else that its scope expired;
a race reports the one member that was not cancelled, or the expiry if all were. There are no processes, snapshots, sweeps, crashes
or replays in it. `Collect` instantiates it with `record` as `recorded_terminal` of every
ordinal in the current segment and `result` as the set of results returned, and
`Implements` says that every behaviour of the collect is one of `FanOut`: a crash, a
redelivery, a sweep that finds nothing new and a replay that returns the known result are
all stutters.

### Outbox

Every store transaction is one action, and each transition has the WHERE clause of its
SQL: `complete_outbox_row`, `retry_outbox_row` and `fail_outbox_row` address the row by
its key whatever its status; the settles and the stale re-arm are guarded; the insert is
`INSERT OR IGNORE`; the re-arm is an upsert that keeps attempt and run. A row's instants
are reduced to `ripe`: its fence is over (pending) or its claim is stale (claimed);
`Tick` makes it so. A terminal is two actions inside the recorder lock, the append
(`RecordTerminal`) and the settle (`SettleRows`), so a crash or a failing write may fall
between them. `Write` is a write that succeeds or fails; failures are bounded by
`MaxFaults`. A failed settle leaves the row as it is; behind a terminal it is logged, behind a
cancellation the collect returns the error to its program (`durability/recorder.rs:726-743`),
whose later steps the module leaves open.

`Claim` takes up to a batch of due rows that are not held and keeps a copy of each;
`BeginDispatch`, `Push`, `Reply`, `DispatchFails`, `mark_done` and
`handle_dispatch_error` take one row through its dispatch. Over gRPC acceptance by the
worker is success and the answer comes later (`Report`, possibly again) or never
(`WorkerDies`); over liminal the dispatcher waits for the correlated reply, which is
delivered before the row is done. `outbox_delivery_pid` is the run-aware gate: a
completion of another run is dropped, one without a run goes to the live run.
`ReconcilerList`, `ReconcilerProbe`, `ReconcilerRearm` and `ReconcilerAborts` are a
sweep; its cutoff is fixed when it starts, and a row claimed later leaves its scope.
`Boot` respawns, settles (all workflows in one step, where the code goes from one to the next)
and opens the dispatcher; a run that was paused at the crash, and
the successor of a continued run, become resident later, by `Spawn`.

The table is the libsql store's. The haematite store
(`crates/aion-store-haematite/src/store.rs`) has the same transitions with the same
missing guards.

Left out: how a collect settles its members (module `Collect`), placement, namespaces,
task queues, backpressure (they narrow a claim), the length of a backoff, reopening of an
ended workflow, and adoption of shards.

### RunLifecycle

The history is a sequence of lifecycle events; `handles` are the `WorkflowHandle`s of
the engine epoch with the head of their recorder, the state of their process and what
their completion channel last published; `registry` and `index` are the table and the
live-pid index; `agent` says what each monitor, caller and the startup sweep has read
and has left to do. A section under the recorder lock is one action (`MonitorRecords`,
`CallRecords`); what happens between two awaits outside a lock is one action each. A
recorder appends only if its head is the head of the history (`HeadIsCurrent`), as in
`Recorder::append_one`. Run ids are fresh; the model counts them (`NextRun`).

`Begin` is the validation and the registry lookup of an operation, made before any lock;
a refused operation is not a step. Cancel goes on to record, kill, deregister, release;
pause to record and hold; resume to record and release, or, for a run that is not
resident, to append, release and respawn; reopen to evict, append and respawn; continue
to record and then start the successor (`StartReadsHead`, `StartAppends`,
`StartPublishes`), as the monitor and the sweep do.

Left out: events that are not lifecycle events, visibility records, timeouts (module
`Timers`), failing spawns, store errors other than a sequence conflict, adoption.

### Timers

The run executes `with_timeout(scope) { sleep }` or `start_timer; sleep; cancel_timer`, and
its package declares a timeout. The code decides by the last event of a timer and by the
end of the run, so the history is kept as `last` and `outcome`. `slot` is the
terminal-update slot of `TimerService`, held from the liveness check to the append, with the
step its holder is at; `lock` is the recorder lock where a section appends twice. `rows` is
the timer table, `wheel` the tasks of the live wheel.

`start_timer`, `arm_scope` and `sleep` record first and write the row in a second step
(`ScheduleRow`). `CancelCheck` and `CancelRecord` are `TimerService::cancel`, by the
process or by a client's cancel of the run; `FireCheck`, `FireRecord` and `FireDeliver`
are `fire_timer`, from the wheel or from recovery. A deadline goes to its handler:
`decide_disposition`, `RetireOrdinary`, `KillTimedOut`, `ShowTimedOut`, `RetireDeadline`,
`Deregister`, with `WheelFireFails` its retry. `handle_process_exit` and `MonitorRetires`,
`ClientTerminates` and `ClientRetires` are the two writes of the other ends, `RetireFails`
the second one failing. A boot is `BootSweep`, `Repopulate`, the fires of recovery, and
`RearmRead`, `Rearm`, `BootDone`; `RecoveryFails` ends it early.

Left out: durations, other runs of the workflow, reopen, the periodic recovery tick, and
failures of appends other than those named.

### Signals

`history` holds the arrivals, the send, the scope's timer and the end; `toggles` counts
pauses and resumes, whose place among the other events matters only for sequence numbers
(`LastSeq`). `Lookup` is the registry read of `Engine::signal`, with the residency it saw;
`RouteRecord` and `RouteDeliver` are the router, `OneShot` the append to a paused run that
is not resident, at the head read before. `resolve_command`, `NthOccurrenceIndex` and
`signal_occurrence_index` are the keyspace of the cursor. `Suspend`, `resume_workflow` and
`deliver_deferred` are the residency flip and the flush of the hand-off; `Pause`,
`ResumePaused` and `Revive` are the durable pause. The target of the send is another run or
the run itself.

Left out: payload encoding, other names, a mailbox of a live process that refuses a marker,
the wait of the birth window (a run that is neither registered, paused nor ended is
refused).

### Children

A recorder is `head`, what it believes the history's length to be; an append succeeds only
if that is true (`InStep`). `spawn_child` and `SpawnStarts` are the record and the start,
`run_spawn_retry` the recovery task, `SweepChecks`, `SweepReads`, `SweepStarts` and
`SweepDone` the sweep of a boot or of a reopen. `start_workflow` may fail before or behind
the child's `WorkflowStarted`. The watcher is `wait_for_child_terminal`,
`record_parent_child_terminal`, `WatchAppends`, `WatchWakes`; an abort in the middle of the
append leaves it to the store (`detached`, `DetachedLands`), as the haematite store runs it
on the blocking pool. `await_child` is one evaluation of `await_child_step`.

Left out: what the forgotten child does, queries, search attributes and namespaces, the
reopen of a cancelled parent, and a live parent that refuses the watcher's marker until the
retries of its delivery are used up. The watcher then logs and ends
(`runtime/nif_child_watch.rs:133-148`), on the ground that "the parent is gone or crashing"; a
parent that is neither would stay parked until something else wakes it. `ParkedIsWatched` and `AwaitsReturn`
hold of parents that take the marker.

### Activity

The program is `with_timeout { dispatch_activity; await_activity_result }`. A life is one
process of the run: the first, one per restart, one per reopen. Each life has its retry loop,
`loop[l]`, a task of the server that goes on when the process is killed; its recorder belongs
to the life, so behind a reopen its appends conflict, and it fails the activity instead
(`record_retry_event`). `dispatch_activity` resolves the recorded trail or records the next
attempt and spawns the loop; `Return`, `failure_stand_down`, `AttemptFailed`,
`AttemptStarted` and `deliver_activity_message` are one turn of `dispatch_with_retries`.
`await_activity_step`, `take_runtime_completion`, `NothingRetained`, `ScopeExpires` and
`Suspends` are one evaluation of the await, apart, because outcomes and fires arrive in
between; `seen` is the snapshot it decides on. `deliver_outbox` is a completion that found no
entry in the pending map: it reaches whatever process is alive and carries no attempt.
`answers` is a history variable: the events the await has answered from since the last reopen
that re-drives the activity.

Left out: `ActivityScheduled` (a trail of it alone resolves like an empty one), the length of
a backoff, store errors, and the details of ends and timers that `RunLifecycle` and `Timers`
have.

### Bridge

`call[c]` is one `dispatch_blocking`: `select_worker`, `wait_for_worker`,
`track_worker_task`, `send_activity_task` (with the check that the worker is still
registered), `await_activity_result`. A second call may begin before the first returned, as
after a reopen. `registered`, `tracked` and `pending` are the registry, the in-flight tracker
and the pending map, whose one entry holds the sender of the call that inserted last; taking
it out drops the sender, and `Dropping` fails the receiver. A sweep deregisters (`Sweep`, from
`teardown_worker_stream`, `fail_expired_workers` or `park_all_in_flight_workers`), then
collects (`remove_worker_tasks`), then resolves (`complete`), in three steps, since a call
may come between any two. Over liminal the end of a connection only deregisters
(`on_worker_unregistered`); the reply router of each push resolves (`Answer`, `Fabricates`)
or gives up (`Abandons`). A gRPC worker reports an unacknowledged result again over a later
session (`ReReport`). A drain refuses new calls and tells each gRPC worker that is registered
as it begins (`broadcast_drain`, one step per worker, in the order of their ids); its end parks
what is tracked at that moment (`wait_for_drain_or_timeout`).

Two places deregister a worker and leave its tasks in the tracker: `broadcast_drain`, when the
worker's channel is full or closed, and `send_to_candidates`, when the gRPC dispatch of
another activity finds the stream closed or the worker not to have one. The first can hit a
worker that is still connected. A call blocked on such a worker is resolved by its answer, by
the teardown of its stream, which collects whether or not the worker is registered, by the
expiry of its heartbeat window or by the park at the end of the drain. `BlockedIsOwned`
therefore does not ask that the worker be registered: a gRPC worker's stream must be open, or
its end not handled yet.

Left out: namespaces, task queues and nodes (one pool), payloads, progress reports, how full a
worker's channel is (it may be full at any time), poisoned locks, the exit of the server behind
a drain.

## 3. Runs

"States" are distinct states. Times are with two workers.

| Run | Configuration | What it shows | States |
|---|---|---|---|
| `collect_all` | 2 members, a scope, 2 crashes | one terminal per member, one result for all replays, a complete record at return, the await ends | 288 k |
| `collect_race` | same, a race | a single recorded winner; the collect implements `FanOut` | 95 k |
| `outbox_liminal` | 1 workflow, 1 member, 2 attempts, 2 crashes, 2 failing writes | no stranded member; members end; rows of an ended workflow retire and stay buried after a boot | 46 k |
| `outbox_grpc` | 2 runs, 1 crash, 1 failing write, re-reports, dying workers | an outcome is recorded only in the run whose task produced it | 102 k |
| `outbox_hold` | 2 workflows, batch 1, one of them pausable | a paused workflow's due rows do not starve the other | 187 k |
| `run_lifecycle` | 2 callers, all operations, 3 operations, 2 runs, 1 crash | one terminal per lease, legal transitions, truthful doorbells | 1.7 M |
| `run_lifecycle_live` | 2 callers, 2 of cancel, pause, resume, 2 runs, 1 crash | a running workflow is registered, resident and indexed once nothing is in progress; every exit is published; a continued chain goes on | 37 k |
| `timers` | both programs, a client, 1 crash, 1 failing write, 2 attempts, 3 instants | one terminal per timer and one end per run; nothing fires in an ended run; armed timers are driven and settle; a timed-out run is torn down and its deadline retired last; no deadline is orphaned across a boot; sleeps and scopes replay alike | 412,596 |
| `signals` | 2 signals, 1 pause or suspension, 1 crash, both targets | receives in order, once; sends recorded once; accepted is recorded; nothing behind the end; no lost wake; receives return and replay alike | 155,637 |
| `children` | 2 children, 2 failures, 1 continuation, 1 reopen, 1 crash | recorded children start, once; a true end is recorded once, never behind the parent's end; a parked parent is watched; awaits return and replay alike | 272,632 |
| `activity` | 2 attempts, 1 restart, 1 reopen, 1 stray completion | attempt numbers are new; a loop that stands down leaves something to answer from; nothing behind a terminal; awaits wake and replay alike | 379 k |
| `bridge` | 2 calls, 2 workers, gRPC only or one of each transport, a drain | a blocked call has its sender in the map and somebody to use it, also when its worker is deregistered without a sweep; it returns unless a connected worker has its task | 1.07 M |

`CHECK_DEADLOCK FALSE` is set everywhere because the modelled systems may stop: the
await has returned, the rows are retired, the workflow has ended and nobody calls.

### Gaps: what the code does not have

The properties of the runs are stated around these. With the constants given TLC finds a
behaviour of the model, within seconds, that violates the formula named; a formula that is
not a definition of the module is written out here.

- Ordinals restart after continue-as-new, and the recorder's dedup scans the whole history of
  the workflow. A completion whose ordinal an earlier run resolved is taken from the map,
  counted by the sweep and dropped by the dedup; the result is returned, and after a crash the
  replay finds no terminal for it and can return another, although
  `runtime/nif_collect.rs:22-23` says the result is "a total function of the per-ordinal
  recorded terminal set". `Collect`, `Count = 2`,
  `Kind = "All"`, `Scoped = FALSE`, `Prior = {0}`, `MaxCrashes = 1`: `ReplayAgrees`.
- The continue call and the exit monitor of the killed process both start the successor of one
  run: the duplicate check and the head read are two reads, so the loser need not conflict, as
  `engine/startup_sweeps.rs:203-204` expects of it. `RunLifecycle`, one caller,
  `Ops = {"continue"}`, `MaxOps = 1`, `MaxRuns = 3`, no crash: `OneSuccessor`. It also fails
  between the monitor and the startup sweep, without a continue call (`MaxCrashes = 1`).
- In a chain that has forked in this way the run segments overlap. Run 2 is paused, its twin
  run 3 starts behind the pause, the engine crashes, and a resume brings run 2 back. Both are
  active; what run 2 records now lies in run 3's segment. Two terminals can then stand without a
  start or a reopen between them (`OneTerminalPerLease` without its `OneSuccessor =>`), and the
  monitor of run 3 takes run 2's `Completed` for its own and rings its doorbell with it, although
  `lifecycle/completion.rs` resolves waiters "from the recorded store truth" (`ToldIsRecorded`
  without its `OneSuccessor =>`). `RunLifecycle`, one caller,
  `Ops = {"continue", "pause", "resume"}`, `MaxOps = 3`, `MaxRuns = 3`, `MaxCrashes = 1` for
  both. With a cancel and `MaxOps = 4` the two terminals can be of the same run. Both came up as
  proof obligations that could not be met.
- Reopening a cancelled run names no activity (`lifecycle/reopen.rs:316`), so a later retryable
  failure finds the old `WorkflowCancelled` and the retry loop stands down with nothing
  recorded: the await stays parked, although `runtime/nif_activity_retry_dispatch.rs:62-64`
  says the activity or the workflow "reached a recorded terminal while the loop ran". `Activity`, the constants of its run with
  `Reopenable = {"RunCancelled"}`: `StoodDownIsSettled`.
- A worker that registers between the selection and the wait of a call is missed:
  `notify_waiters` (`worker/registry.rs:633`) stores no permit, although
  `wait_for_worker` (`:646`) is documented to return "immediately if a registration occurred
  since the last call". Nor does a drain wake the wait, as the doc of `select_worker_or_wait`
  (`worker/bridge.rs:453-455`) has it. `Bridge`, the constants of its run:
  `\A c \in Calls : call[c].pc = "waiting" => registered = {}`.
- After continue-as-new the fan-out of the new run meets the old run's row under the same
  key (`crates/aion-store/src/outbox.rs:206`) and `INSERT OR IGNORE` keeps it: the new member
  is scheduled and has no row of its own run, although `durability/recorder/fan_out.rs:86-87`
  says the append records the events "AND the matching `N` outbox rows in one store
  transaction". `Outbox`, one workflow and ordinal, `MaxRuns = 2`, one attempt, gRPC, no
  crash: `activity[Now(w, o)] # "None" => rows[<<w, o>>].run = run[w]`.
- A cancel records and kills; a reopen evicts the entry, records and registers a new
  process; the cancel's deregistration (`lifecycle/terminate.rs:142`) or the old monitor's
  reconcile then hits the new handle, and a live run is unregistered.
  `RunLifecycle`, two callers, `Ops = {"cancel", "reopen"}`, `MaxOps = 2`, one run, no crash:
  `RunningIsReachable`.
- Nothing releases the dispatch hold of a paused run that ends or continues as new
  (`lifecycle/pause.rs:210`), although `lifecycle/pause.rs:56-57` calls the set "a cache of the
  durable projection": the rows of the successor are held until a restart. A pause and a
  resume of two callers may also change the hold in the order opposite to their events.
  `RunLifecycle`, `Ops = {"pause"}`, one caller, `MaxRuns = 3`: the hold is set if and only
  if the status is Paused, while no call is in progress.

The others:

- A call that passes the drain check before the drain begins and tracks its task after the
  drain counted or parked (`shutdown.rs:98-188`) is not parked: `CallsReturn` excuses a
  connected worker that has the task even in a drain.
- The pending map's key has no attempt. A reply that comes within one poll of the sweep of its
  entry, and a re-reported result, can resolve the call of the next attempt, although
  `worker/bridge.rs:748-749` says it "can never resolve a newer attempt's entry". After a reopen the
  new call's entry replaces that of the earlier loop's call, whose cleanup then takes out the
  new one: the new call fails with "activity response channel dropped", which is not retried.
- During a drain a lost liminal connection or an expiry yields a retryable failure, and the
  next attempt is refused with a reason that is not retried: the activity fails instead of
  being parked.
- With the outbox on, a late retryable failure of an earlier attempt that finds no entry is
  delivered to the process and recorded as terminal.
- The attempt of a re-dispatch continues the recorded trail and may exceed the policy's
  maximum after crashes and reopens.
- Only the boot's catch-up drives schedules: `handle_schedule_timer_fired` has no caller
  outside tests.
- A dispatch in flight when its workflow ends returns the settled row to pending when it
  fails: `RETRY_ROW_SQL` has no status guard. `TerminalRowsRetire` shows that the row does
  not stay in flight, but it may be dispatched once more.
- The reconciler lists one batch of stale rows and re-arms another: the rows it settled
  make room for rows whose workflows it has not probed. The next sweep settles those.
- A resume of a run that crashed while paused releases the hold before the process is
  respawned. A row claimed and answered in between has its reply dropped, is re-armed by
  the run's first arrival, and is marked done by key. `NoMemberStranded` is therefore
  checked without pauses. Adoption of a shard has the same order of steps.
- `cancel_timer` resolves the `StartTimer` command of the timer it is to cancel, which is
  recorded: the live branch (`runtime/nif_timer.rs:201-208`) is not reached, and the call
  reports a history mismatch. The action `cancel_timer` of `Timers` therefore changes nothing.
- A crash between `TimerStarted` and the row, and a boot after the timer's instant: recovery
  fires rows, and re-arms only what is still in the future. The timer never fires.
  `DueTimersSettle` and `RowedTimersAreDriven` speak of timers that have a row.
- A client's cancel that is cut off after its timers and before its terminal
  (`engine/api.rs:517-565`) leaves a running run without timers. A cancel during the backoff
  of a deadline's retry takes the retrying task down. The exceptions stand in
  `RowedTimersAreDriven` and `TimedOutIsTornDown`. A failed fire of an ordinary timer is
  dropped until the next boot.
- A marker deferred behind the flush of a resume stays in the queue until another resume:
  the exception `deferred > 0` of `ReceivesReturn`.
- A reopen's sweep and a spawn-recovery task that still runs can both start a child:
  `StartedOnce` is stated without reopens. (`MaxReopens = 1`, `MaxFailures = 1`, no crash, and
  `reopens = 0 =>` left out; `engine/startup_sweeps.rs:26-28` says "no path starts a
  duplicate".)
- A watcher aborted in the middle of an append: the event lands, the recorder does not count
  it, and the next append through it conflicts. If that is the exit monitor's, the error is
  logged (`lifecycle/start.rs:553`) and the run has neither process nor end until a restart
  (`pc = "wedged"` in `Children`).
- A child recorded and not started whose parent ended, or continued, before a crash is not
  started: the sweep looks at active parents only. `RecordedChildrenStart` makes the
  exception.
- A child start that fails in the sweep of a boot fails the boot. A start that fails behind
  `WorkflowStarted` leaves the child without a process until the next boot.

## 4. Bounds, and why they are enough

- *Two members.* The collect treats a member apart from the winner or the first failure
  by its state only; two members give every pair of states at every position of the
  loops. The proofs remove the bound for safety.
- *Two crashes.* One crash cuts an execution, the second cuts its replay.
- *Two attempts.* One retry and the last attempt: both branches of the budget.
- *Two failing writes.* A settle and the repair of it, or `mark_done` and the retry.
- *Batch 1 with two workflows.* The smallest window that a held row could fill.
- *Three operations, two callers, two runs.* Every pair of operations in every
  interleaving with the monitors of both processes, and a third after or during it,
  over a chain that is continued.
- *One crash in the lifecycle.* A second crash finds nothing that the first did not:
  all but the history is lost, and the history after one restart is one the first crash
  could also have met.

- *Timers.* The clock runs from 0 to 2: the sleep and the scope elapse together at
  instant 1, the named timer and the deadline at 2. One failing write and one crash, because every repair
  (retry, boot sweep, recovery) is of one cut; two attempts, so that one retry happens and
  the budget can run out.
- *Signals.* Two arrivals for two receives and one send between them; one pause or
  suspension and one crash in any order.
- *Children.* One child that is awaited and one that is not; two failures, so that a start
  and its repair, or two appends of the watcher, fail; one continuation; a reopen and a
  crash in either order.

- *Activity.* Two attempts, so that one retry happens and the budget can run out, or is
  exceeded by a re-dispatch; a restart and a reopen in either order, so that two loops of the
  same activity are alive; a stray completion against each of them.
- *Bridge.* Two calls, so that one meets the entry of the other; two workers, so that a call
  has another one to go to and a result another session to be reported over; the first over
  liminal or not, the second over gRPC. Workers act while some call is to return and until the
  drain is over (`Heard`).

Actions that would begin something beyond a bound are disabled by it (`MaxOps`,
`MaxRuns`, `MaxCrashes`, `MaxFaults`, `MaxFailures`, `MaxSignals`, `MaxHolds`,
`MaxContinues`, `MaxReopens`, `MaxRestarts`, `MaxStrays`, `MaxClock`); `MaxAttempts`, `BatchSize` and `StaleBatch` are
configuration of the program itself.

The safety runs of `MCRunLifecycle` use the symmetry of the callers: no action and no
invariant tells one caller from another. The liveness run has no symmetry.

## 5. Fairness

Safety is checked without fairness. For liveness:

- `Collect`: the scheduler runs a process that can run; a supervisor restarts the
  engine; a dispatch held by the outbox is eventually delivered. The last is the
  at-least-once promise of the outbox, checked as `MembersSettle` in `Outbox`. Timers
  need not fire, and crashes need not happen.
- `Outbox`: the tokio tasks of the dispatcher and of the reconciler, the workflow
  processes, the clock and the restart. No worker is obliged to answer and no dispatch
  to succeed; the reply timeout (`DispatchFails`) ends every wait, and retries end in a
  dead letter. Terminals, pauses and continuations are never forced.
- `RunLifecycle`: monitor threads, the tasks of callers, the sweep and the startup run
  to their end. No process is forced to exit and nobody to call.
- `Timers`: one fairness for all tasks of the engine and for its restart: every task is
  finite, so none starves another for ever. Time need not pass, nobody need cancel.
- `Signals`: the process, its monitor, calls and flushes under way, the wake behind a fire,
  the restart. No client calls, no timer fires, nobody resumes by duty.
- `Children`: the parent, the watcher, each spawn-recovery task, the store's pending append,
  the boot with its sweep, and the successor of a continued child, each by itself, since a
  retry loop must not starve the others. The child need not end.

- `Activity`: the process, the retry loops, the kill behind a cancel, and calls of the
  dispatcher that return. The last is `CallsReturn` of `Bridge`, for workers that answer.
  Nobody need cancel, reopen or restart, no scope need fire.
- `Bridge`: the server's tasks, the reply routers, and the expiry of a tracked worker whose
  link is down, since it sends no more heartbeats. No worker need come, answer or leave, and
  nobody need dispatch or drain.

All of it is weak fairness of a component as a whole: which of its enabled steps a
component takes is left open.

## 6. What is proved

`Collect_proofs` proves, for every `Count`, `Kind`, `Scoped`, `Prior` and `MaxCrashes`
that satisfies the assumptions of `Collect` (at least one member, a known kind, a bound
on crashes that is a natural number):

- `TypeCorrect == Spec => []TypeOK`. Every event that is recorded and every result that
  is settled on is well formed; the work is in the settlements, whose `CHOOSE` of a
  first failure or first winner has to be shown to choose something
  (`FirstIsMember`, `RaceWinnerType`, `SettlementType`).
- `OneTerminalPerOrdinal == Spec => []AtMostOneTerminal`. No ordinal of a run ever gets
  a second terminal.

`AtMostOneTerminal` is not inductive. A completion is guarded by a read of the history,
but a cancellation is appended on the word of the state vector (all) or of the snapshot
(race), both read before other appends were made. The strengthening `IInv` adds why
this is enough: whatever was recorded since the snapshot, this very sweep recorded, and
it has marked it.

- `AllSweepAccounts`: in an all-collect a terminal behind `pos` is in `states`, one
  ahead of `pos` is in the snapshot.
- `RaceSweepAccounts`: in a race every terminal is in the snapshot, but for the one of
  the winner that this sweep has just recorded.
- `SweepHasNoVerdict`: only a race stops its sweep early, and only with a winner.
- `AbortCancelsOpen`: in the cancellation loop a member from `pos` on that must be
  cancelled is open.

The proof has one lemma per action that touches the record or the locals (`IInvWake`,
`IInvTake`, `IInvSkip`, `IInvSettle`, `IInvCancel`, `IInvTimer`) and a frame lemma for
the others. The lemmas about histories (`AppendTerminal`, `ConcatTerminal`,
`AppendResolved`, `ConcatResolved`, `AppendKeepsOne`) say what an append does to the
terminals of an ordinal. 
- `OneRaceWinner == Spec => []RaceHasOneWinner`. A race never records a second outcome.
  The guard of the sweep reads the snapshot, so the invariant `WInv` adds
  `SweepSeesWinner`: while a race sweeps, a winner in the record is one in the snapshot.
- `ReturnOverCompleteRecord`: if `Prior = {}` then `Spec => []ReturnedIsResolved`. The
  invariant `RInv` follows a terminal from the snapshot (`SnapshotRecorded`) through
  the state vector (`StatesRecorded`) to the verdict (`VerdictRecorded`), and says that
  the cancellation loop leaves nothing open behind `pos` (`AbortCloses`).

On top of these, if `Prior = {}`:

- `ReplayIsDeterministic`: `Spec => []ReplayAgrees`. Whatever result a collect has
  handed to workflow code, every replay hands out again. `FinalResult` is the result as
  a function of the record; `Agreement` says that the snapshot is a prefix of the
  record, that the state vector repeats it, that a verdict is the result the record will
  have once the cancellations are in, and that a result handed out is the one of a
  complete record. A complete record gets no further terminal (`IInv`), so the result
  does not change.
- `CollectImplementsFanOut`: `Spec => Implements`. The mapping reads the record through
  `recorded_terminal`. Appends other than of terminals, and everything that appends nothing,
  leave it alone (`HiddenStep`); `TakeAndRecord` and `RecordCancelled` resolve one ordinal
  that was open (`ResolvingStep`, from `IInv`); a `Return` hands out a result that `Agreement`
  makes the `FinalResult` of a complete record, which `AllJustified` and `RaceJustified` show
  to be `Justified`, or repeats the one handed out before (`ReturnStep`). The steps are put
  together in `RefinedStep`, the initial states in `RefinedInit`.

The assumption `Prior = {}` (no ordinal resolved by an earlier run of the id) is needed:
without it `ReplayAgrees` fails (section 3), and TLC finds `ReturnedIsResolved` violated on
the same constants. The assumption stands in
the theorems, not in the modules. `IInv`, `WInv`, `RInv` and `Agreement` were also
checked by TLC, for both kinds, on the constants of `collect_all` and `collect_race`.

The other modules are proved in the same way: a safety property is seldom inductive, and what
has to be added says why the code is right. Each inductive invariant was checked by TLC before
it was proved, on the constants of the module's run or on larger ones.

### Bridge

`BlockedCallsAreOwned`: `Spec => []Inv`, for any number of calls and workers and any mix of
transports. `BlockedIsOwned` speaks of a call that blocks; the registry is looked at once more
between inserting the entry and blocking, so the invariant reaches back to the moment the entry
is in the map: `SenderInMap`, `OpenIsTracked` (the worker is in the tracker, or a verdict is on
its way) and `RouterIsThere` hold from the insert on. A sweep that deregisters before the insert
is the case that the second look is for. `StreamIsOpen` says what the second look is worth: a
gRPC worker is in the registry only while its stream has a teardown to come, so a call that
found it there is swept whoever deregisters the worker later, `broadcast_drain` and
`send_to_candidates` included.

### Activity

For every retry policy, any number of restarts, reopens and stray completions:

- `AwaitReplays`: `Spec => []ReplayAgrees`;
- `TerminalsAreLast`: `Spec => []NothingBehindTheTerminal`;
- `AttemptsAreUnique`: `Spec => [](TypeOK /\ AttemptsAreNew)`;
- `StandDownsAreSafe`: if `"RunCancelled" \notin Reopenable` then `Spec => []Inv`. With reopened
  cancelled runs `StoodDownIsSettled` is false (section 3); the other parts of `Inv` do not need
  the hypothesis.

`Sound` says of a history that a terminal no reopen has set aside is the last of the trail, that
a completion is never set aside, and that a program that ended had its answer. An append keeps
it if the event fits (`Fits`), and every appender reads what makes its event fit under the lock
or before a recorder that conflicts. `LoopsAreSpawned` and `LoopIsLatest` tie the loops to the
lives: only the current life's loop can append, and it has the newest attempt. `AwaitIsTrue` and
`AnswersStand` carry the answer from the snapshot to the history.

### Timers

For any instants, any number of crashes and failing writes and any retry budget of the deadline:

- `TimersAreDriven`: `Spec => []Inv` (`RowedTimersAreDriven`, `RetiredLast`,
  `NoOrphanedDeadlineAfterBoot`);
- `TimerAnswersReplay`: `Spec => []ReplayAgrees`;
- `FirstTerminalWins`: `Spec => FirstRecordedWins`, and `EndsOnce`:
  `Spec => NothingFiresAfterTheEnd`, the two action properties.

`SlotsAreTrue` is the reason the races are safe: while somebody is between the liveness check
and the append of a timer, the timer is live or the run has ended. `LocksAreTrue` does the same
for the two ends that append twice. `RowsAreDriven` extends `RowedTimersAreDriven` into a boot:
what recovery and re-arm still have in hand counts. `AttemptsCounted` says that the deadline is
on the wheel at most once per engine epoch. `AnswersAreTrue` relates every answer to the
terminal in the history; an answer that found none was given by the last process of an ended
run.

### Outbox

For any workflows, ordinals, chain length, batches, retry budget, crashes and failing writes:

- `CompletionsAreOwn`: `Spec => []ResolvedByOwnRun`, over either transport. What is retained for
  a process is of its run (`RetainedIsOwn`), because the gate compares runs and every row, claim
  and task has one (`RowsKnowTheirRun`): the one insert without a run, the re-arm of a row that
  is absent, cannot happen, since what is staged has a row.
- `BuriedForGood`: `Spec => []BuriedStaysBuried`. `complete`, `retry` and `fail` have no status
  guard; what keeps a buried row retired is that no claim of it is left (`BuriedIsOver`).
- `NobodyIsStranded`: if `Transport = "liminal"` and `Pausable = {}` then `Spec => []Inv`. A
  member waits while its row is in flight, its outcome is retained, or a write that will settle
  it is pending; `OkIsDelivered` carries this over the point where the row is done but the
  process has not looked. The two hypotheses are the gaps of section 3.

### RunLifecycle

For any callers, operations, runs and crashes:

- `OutcomesAreRecorded`: `Spec => []Inv`;
- `LeasesEndOnce`: `Spec => []OneTerminalPerLease`;
- `TransitionsStayLegal`: `Spec => []TransitionsAreLegal`;
- `RunningIsReached`: if `"reopen" \notin Ops` then `Spec => []RunningIsReachable`.

All rest on one description of the history: as long as no run has two successors, the
events follow each other as in `Follows` (`UnforkedIsLinear`). A writer reads only the segment
of its own run; it appends correctly because its run is the newest, whose segment is the end of
the history, or is turned away, because every other segment ends with `ContinuedAsNew`
(`SegmentTells`, `CurrentRunIsLast`). A call that validated before it locked appends at the head
it read (`StillValid`): if the head is still the head, what it read still holds. `AgentsAreTrue`
keeps what an agent in the middle of its work knows, `RegistryIsTrue` and `HandlesAreStarted`
that handles are of the run they are filed under. `HandlesAreEnough` counts: handles, spawns
promised and respawns under way together never exceed crashes, operations and runs, so that the
bound on handles in the model excludes no behaviour.

`RunningIsReachable` speaks of states in which nothing is in progress; `RInv` extends it to all
states. A run that has not ended is carried by exactly one handle, which is in the registry and in
the index, writes at the end of the history and has a monitor that has seen nothing (`Carrier`); or
it is paused and startup gave it no process (`Asleep`); or somebody is between the record that set
it going and the insert of its handle (`InFlight`), and nobody else can be, for what that agent
recorded is the end of the history (`FlightsAreTrue`). Everybody who removes or suspends an entry
does so for a run whose terminal is recorded, and without reopens such a run is not the newest one
unless the history has ended (`EndedIsOver`). This is the step that fails with reopens: the run
comes back, and the cancel or the monitor that is still on its way hits the new handle (section 3);
hence the hypothesis, which stands in the theorem only.

Three statements had to be corrected: `OneTerminalPerLease`, the own-run part of
`ToldIsRecorded` and `RunningIsReachable` are false in a chain that has forked (section 3), which
the smaller instance of the runs (`MaxRuns = 2`) does not reach. In a fork the sweep and the
monitor can publish their two successors in the order opposite to their starts, and the index
then points to the older one. The largest element of a finite set of positions
(`LastIsGreatest`) is found as a least counterexample, with `WFMin`, since induction over an
operator is not available.

### Signals

For any number of signals, pauses, suspensions and crashes:

- `SignalsAreSafe`: `Spec => []Inv` (`ToldIsRecorded`, `WakeNotLost`, `SentOnce`,
  `NothingAfterTheEnd`);
- `ReceivesReplay`: `Spec => []ReplayAgrees`;
- `ReceivesAreOrdered`: `Spec => []ReceivesInOrder`.

What a receive was told is a statement about the past; it becomes one about the history because
the two ways the first receive can end, `FirstReceived` and `FirstTimedOut`, are stable under
every append and exclude each other. `AnswersAreTrue` says which arrival each answer was,
`CountersAreTrue` that the counters of the handle say where the program is and that the index a
parked receive is pinned to is the one it would be given now: this is why an arrival between the
look at the history and the park is not lost. `OneShotsAreTrue` and `RevivalIsTrue` are about the
two writers without a handle, the append to a paused run and the resume of one: their sequence
check can succeed only while what they read still holds. `SendsAreTrue` counts deliveries against
crashes, `CallsAreTrue` follows each call to what it has recorded.

### Children

For any number of failing starts and appends, continuations, reopens and crashes:

- `ChildrenAreSafe`: `Spec => []Inv` (`ParkedIsWatched`, `StartedOnce`, `NoArrivalAfterTheEnd`);
- `AwaitsReplay`: `Spec => []ReplayAgrees`;
- `EndsAreRecordedOnce`: `Spec => []RecordedOnceAndTrue`.

The lock covers the watcher's check and its append, but an aborted watcher leaves an append that
lands when the store gets to it, without lock or task. `DetachedIsTrue` says why it does no harm:
it carries the sequence it was made at, and if that is still the end of the history then the
history is still open (`Open`: no end of the child recorded, the parent running); a registered
recorder is never behind it. `WatchIsTrue` says the same of a watcher between check and append, as
long as its recorder is in step. `EndsAreTrue` ties what they carry to what the child came to, and
a child that has ended keeps its outcome. `StartsAreTrue` is the argument for `StartedOnce`: the
process, the recovery task and the sweep may each start a child, and before the first reopen each
comes to its turn only when the others are out (`Exclusive`). `Sound` describes the history, and
an append keeps it if the history was open to it.

## 7. What is model-checked only

- Liveness, in all modules: the prover has no rules for fairness and `ENABLED`.
  Every invariant and every action property that a passing run checks is proved, and so is
  `Implements`; `EventuallyReturns`, `MembersSettle`, `TerminalRowsRetire`,
  `HeldRowsDoNotStarve`, `DoorbellRings`, `SuccessorStarts`, `DueTimersSettle`,
  `TimedOutIsTornDown`, `ReceivesReturn`, `AwaitsReturn`, `RecordedChildrenStart`,
  `AwaitReturns` and `CallsReturn` are model-checked only.
- `Implements` is checked by TLC on a race; on an all-collect of the same size it holds too,
  and takes several times as long.
- `NoMemberStranded` speaks of the first run of a chain, and is checked and proved for liminal
  and without pauses. A later run may have no row of its own (section 3), and over gRPC a worker
  that dies with an accepted task leaves a row that is done; both are listed as hazards.
- `TransitionsAreLegal`, `OneTerminalPerLease`, `RunningIsReachable` and the own-run part of
  `ToldIsRecorded` are stated for chains that have not forked: `OneSuccessor` can fail, and the segments of two
  successors then overlap.

## 8. Each property has a mutant

For every property of a passing run `PROJECT.json` names a mutated form of one
definition, the change a plausible mistake would make: a race that sweeps on past its
winner, a first arrival that trusts the dispatches of the engine before it, a claim
window cut before held rows are filtered out, a delivery gate that ignores the run, a
boot sweep that passes over pending rows, a retry that does not persist its attempt, a
monitor that records or publishes without looking, a reopen that appends at a head it
did not validate, a fire that does not re-read liveness, a boot that re-arms only timers
without a row, a receive that counts arrivals alone, a hand-off that drops its queue, a replay that ignores a scope's expiry, a
watcher that takes continue-as-new for an end or gives up on a failed append, a failed
spawn that nobody takes over, a re-dispatch that repeats its attempt, a failure recorded with
the kind it was reported with, a backoff after which nobody looks again, a marker taken as the
process suspends, a reply router's gate inverted, a call that blocks without looking
at the registry again. Each makes TLC report the property it is listed with. The mutated
forms stand before the definition they belong to and are used nowhere else.

## 9. Plan

The order follows what the durable promise rests on.

1. Adoption and fencing in `RunLifecycle`; the shutdown gate; backpressure ceilings.
2. `Schedules`: catch-up at boot, overlap policies; a trigger fires once.
3. Pools in `Bridge`: task queues and nodes, where a call waits for one worker and others
   register.

## 10. Not modelled

| Part | Why |
|---|---|
| AWL language, packager, language server | text processing without concurrent state |
| Wire protocol crates | generated code and conversions |
| Clients, worker SDKs | remote parties; the models treat them as the environment |
| Package loader, catalog | sequential file handling |
| Schedules, fencing, shutdown gate, backpressure | left for later, section 9 |
| Queries | read-only, answered between steps |
| Console, command line, toolchain, integrations | glue and I/O |
| Replication inside haematite | the storage engine's own; its outbox transitions are those of section 2 |

## 11. Running

```
tlc -workers 2 -config CollectAll.cfg Collect
tlc -workers 2 -config OutboxLiminal.cfg Outbox
tlc -workers 2 -config RunLifecycle.cfg MCRunLifecycle
tlc -workers 2 -config Timers.cfg MCTimers
tlc -workers 2 -config Signals.cfg Signals
tlc -workers 2 -config Children.cfg Children
tlc -workers 2 -config Activity.cfg Activity
tlc -workers 2 -config Bridge.cfg Bridge
tlapm Collect_proofs.tla
tlapm Outbox_proofs.tla
tlapm RunLifecycle_proofs.tla
tlapm Timers_proofs.tla
tlapm Signals_proofs.tla
tlapm Children_proofs.tla
tlapm Activity_proofs.tla
tlapm Bridge_proofs.tla
```

`PROJECT.json` lists every run with its module, configuration and properties, the map
from definitions to source lines, the hazards and the mutants.
