------------------------------- MODULE Outbox -------------------------------
(***************************************************************************)
(* The durable fan-out outbox of aion, end to end:                         *)
(*                                                                         *)
(*  - the Recorder stages a fan-out (events and rows in one transaction),  *)
(*    re-arms rows at the first arrival after a restart, records the       *)
(*    completions delivered to the live process and settles the rows of a  *)
(*    workflow that reached a terminal (crates/aion/src/durability);       *)
(*  - the store keeps one row per dispatch key, with the guards its SQL    *)
(*    really has (crates/aion-store-libsql/src/outbox.rs, transitions.rs); *)
(*  - the OutboxDispatcher claims a batch and drives each row to done,     *)
(*    retry or dead letter (crates/aion-server/src/worker);                *)
(*  - the transport, gRPC or liminal, carries a task to a worker and its   *)
(*    completion back through the run-aware delivery gate;                 *)
(*  - the OutboxReconciler repairs stale claims, and the boot sweep        *)
(*    retires the rows of terminal workflows before the first claim.       *)
(*                                                                         *)
(* The dispatcher, the reconciler, the workflow processes and the callers  *)
(* that end a workflow run concurrently and meet only in the store.  Every *)
(* store transaction is one action.  One process crash takes all of them   *)
(* down; gRPC workers survive it.                                          *)
(*                                                                         *)
(* Abstracted: a workflow runs one fan-out over Ordinals per run (how its  *)
(* terminals are settled is module Collect); instants are reduced to       *)
(* whether they have passed (`ripe`); payloads, namespaces, task queues,   *)
(* placement and backpressure only narrow a claim and are left out.        *)
(***************************************************************************)
EXTENDS Integers, FiniteSets

CONSTANTS
    Workflows,     \* workflow ids
    Ordinals,      \* activity ordinals of a run's fan-out
    MaxRuns,       \* bound on the runs of a continue-as-new chain
    MaxAttempts,   \* dispatcher config: max_attempts
    BatchSize,     \* dispatcher config: batch_size
    StaleBatch,    \* reconciler config: batch_size, 0 when not configured
    Transport,     \* "grpc" or "liminal"
    Pausable,      \* workflows an operator may pause
    MaxCrashes,    \* bound on server crashes
    MaxFaults      \* bound on failing store writes

ASSUME MaxRunsAssumption == MaxRuns \in Nat \ {0}
ASSUME MaxAttemptsAssumption == MaxAttempts \in Nat \ {0}
ASSUME BatchSizeAssumption == BatchSize \in Nat \ {0}
ASSUME StaleBatchAssumption == StaleBatch \in Nat
ASSUME TransportAssumption == Transport \in {"grpc", "liminal"}
ASSUME PausableAssumption == Pausable \subseteq Workflows
ASSUME BoundsAssumption == MaxCrashes \in Nat /\ MaxFaults \in Nat

Runs == 1 .. MaxRuns

\* dispatch_key_for: workflow id and ordinal.  The run is not part of it.
Keys == Workflows \X Ordinals

(***************************************************************************)
(* OutboxRow.  `ripe` is visible_after <= now for a pending row and        *)
(* claimed_at < now - stale_after for a claimed one.  Run 0 is "no row".   *)
(***************************************************************************)
Row(status, attempt, run, ripe) ==
    [status |-> status, attempt |-> attempt, run |-> run, ripe |-> ripe]
NoRow == Row("absent", 0, 0, FALSE)
Rows == [status : {"absent", "pending", "claimed", "done", "failed", "cancelled"},
         attempt : 0 .. (MaxAttempts - 1), run : 0 .. MaxRuns, ripe : BOOLEAN]

\* A claimed row as the dispatcher holds it, and a task on its way to a worker.
Claims == [key : Keys, run : 0 .. MaxRuns, attempt : 0 .. (MaxAttempts - 1)]
Tasks == [key : Keys, run : 0 .. MaxRuns]
TaskOf(claim) == [key |-> claim.key, run |-> claim.run]

VARIABLES
    status,     \* durable: workflow status projected from its history
    run,        \* durable: the current run of the chain
    activity,   \* durable: recorded state of <<workflow, run, ordinal>>
    rows,       \* durable: the outbox table
    up,         \* the server process is running
    live,       \* workflows with a resident process
    pinned,     \* processes past their first arrival at the collect
    lock,       \* what a writer inside the recorder lock has left to do
    retained,   \* completions retained for the live process: <<ordinal, run>>
    batch,      \* claims of the sweep still to be dispatched
    current,    \* the claim being dispatched: at most one
    phase,      \* how far its dispatch has come
    tasks,      \* tasks at workers
    recon,      \* the reconciler's sweep in progress
    origins,    \* history variable: <<workflow, run, run whose task was answered>>
    buried,     \* history variable: workflows the last boot sweep settled
    crashes, faults

engine == <<live, pinned, lock, retained>>
dispatcher == <<batch, current, phase>>
history == <<status, run, activity>>
ghosts == <<origins, buried>>
vars == <<history, rows, up, engine, dispatcher, tasks, recon, ghosts, crashes,
          faults>>

Terminal(w) == status[w] = "Terminal"
Now(w, o) == <<w, run[w], o>>

(***************************************************************************)
(* PausedRuns as the claim reads it.  Module RunLifecycle models how this  *)
(* in-memory set follows the durable status.                               *)
(***************************************************************************)
Held == {w \in Workflows : status[w] = "Paused"}

Free == [at |-> "free", ordinals |-> {}]
NoSweep == [at |-> "idle", stale |-> {}, listed |-> {}, todo |-> {}]

Init ==
    /\ status = [w \in Workflows |-> "Running"]
    /\ run = [w \in Workflows |-> 1]
    /\ activity = [a \in Workflows \X Runs \X Ordinals |-> "None"]
    /\ rows = [k \in Keys |-> NoRow]
    /\ up = TRUE
    /\ live = Workflows
    /\ pinned = {}
    /\ lock = [w \in Workflows |-> Free]
    /\ retained = [w \in Workflows |-> {}]
    /\ batch = {}
    /\ current = {}
    /\ phase = "idle"
    /\ tasks = {}
    /\ recon = NoSweep
    /\ origins = {}
    /\ buried = {}
    /\ crashes = 0
    /\ faults = 0

-----------------------------------------------------------------------------
(***************************************************************************)
(* The store's transitions, each with the WHERE clause it has.             *)
(***************************************************************************)
InFlight == {"pending", "claimed"}

\* INSERT OR IGNORE: a key that is already in the table is left as it is.
insert_outbox_row(table, keys, r) ==
    [k \in Keys |-> IF k \in keys /\ table[k].status = "absent"
                    THEN Row("pending", 0, r, TRUE) ELSE table[k]]

\* Upsert: any status becomes pending; attempt and run survive a conflict,
\* and an inserted row carries no run.
rearm_outbox_pending(table, keys) ==
    [k \in Keys |-> IF k \in keys
                    THEN Row("pending", table[k].attempt, table[k].run, TRUE)
                    ELSE table[k]]

claim_outbox_rows(table, keys) ==
    [k \in Keys |-> IF k \in keys
                    THEN Row("claimed", table[k].attempt, table[k].run, FALSE)
                    ELSE table[k]]

\* A retry that does not persist the attempt it used up.
MutantRetry(table, key, attempt, visible) ==
    [table EXCEPT ![key] = Row("pending", @.attempt, @.run, visible)]

\* complete, retry and fail address the row by key alone, whatever its status.
complete_outbox_row(table, key) ==
    [table EXCEPT ![key] = Row("done", @.attempt, @.run, FALSE)]
retry_outbox_row(table, key, attempt, visible) ==
    [table EXCEPT ![key] = Row("pending", attempt, @.run, visible)]
fail_outbox_row(table, key) ==
    [table EXCEPT ![key] = Row("failed", @.attempt, @.run, FALSE)]

\* The settles touch pending and claimed rows only.
settle_cancelled(table, keys) ==
    [k \in Keys |-> IF k \in keys /\ table[k].status \in InFlight
                    THEN Row("cancelled", table[k].attempt, table[k].run, FALSE)
                    ELSE table[k]]

rearm_stale_claimed(table, keys) ==
    [k \in Keys |-> IF k \in keys /\ table[k].status = "claimed"
                    THEN Row("pending", table[k].attempt, table[k].run, TRUE)
                    ELSE table[k]]

KeysOf(w) == {w} \X Ordinals

StoreFails == /\ faults < MaxFaults
              /\ faults' = faults + 1

\* A store write that succeeds with the given table, or fails and changes nothing.
Write(table) ==
    \/ rows' = table /\ UNCHANGED faults
    \/ StoreFails /\ UNCHANGED rows

\* Time passes for one row: its fence is over, or its claim has gone stale.
Tick(k) ==
    /\ up
    /\ rows[k].status \in InFlight
    /\ ~rows[k].ripe
    /\ rows' = [rows EXCEPT ![k].ripe = TRUE]
    /\ UNCHANGED <<history, up, engine, dispatcher, tasks, recon, ghosts,
                   crashes, faults>>

-----------------------------------------------------------------------------
(***************************************************************************)
(* Workflow processes and the recorder.                                    *)
(***************************************************************************)
Unlocked(w) == up /\ w \in live /\ lock[w].at = "free"

Unscheduled(w) == {o \in Ordinals : activity[Now(w, o)] = "None"}
Unresolved(w) == {o \in Ordinals : activity[Now(w, o)] = "Scheduled"}

(***************************************************************************)
(* dispatch_unscheduled at the first arrival of a process.  A run that has *)
(* recorded nothing stages its batch with record_fan_out_dispatch; a       *)
(* recovered one re-arms the rows of its unresolved members.               *)
(***************************************************************************)
record_fan_out_dispatch(w) ==
    /\ Unscheduled(w) # {}
    /\ activity' = [a \in DOMAIN activity |->
                      IF a[1] = w /\ a[2] = run[w] /\ activity[a] = "None"
                      THEN "Scheduled" ELSE activity[a]]
    /\ rows' = insert_outbox_row(rows, {w} \X Unscheduled(w), run[w])

\* A recovered process forgets its unresolved members.
MutantRearmStale(w) ==
    /\ Unscheduled(w) = {}
    /\ UNCHANGED <<rows, activity>>

RearmStale(w) ==
    /\ Unscheduled(w) = {}
    /\ rows' = rearm_outbox_pending(rows, {w} \X Unresolved(w))
    /\ UNCHANGED activity

FirstArrival(w) ==
    /\ Unlocked(w)
    /\ w \notin pinned
    /\ record_fan_out_dispatch(w) \/ RearmStale(w)
    /\ pinned' = pinned \cup {w}
    /\ UNCHANGED <<status, run, up, live, lock, retained, dispatcher, tasks,
                   recon, ghosts, crashes, faults>>

\* take_and_record: the retained completion is recorded in the run segment.
RecordCompletion(w, o) ==
    /\ Unlocked(w)
    /\ w \in pinned
    /\ activity[Now(w, o)] = "Scheduled"
    /\ \E producer \in 0 .. MaxRuns :
          /\ <<o, producer>> \in retained[w]
          /\ retained' = [retained EXCEPT ![w] = @ \ {<<o, producer>>}]
          /\ origins' = origins \cup {<<w, run[w], producer>>}
    /\ activity' = [activity EXCEPT ![Now(w, o)] = "Resolved"]
    /\ UNCHANGED <<status, run, rows, up, live, pinned, lock, dispatcher, tasks,
                   recon, buried, crashes, faults>>

\* record_activity_cancelled_and_settle_outbox: the append, then the settle
\* of the member's row, both inside the recorder lock.
CancelActivity(w, o) ==
    /\ Unlocked(w)
    /\ w \in pinned
    /\ activity[Now(w, o)] = "Scheduled"
    /\ activity' = [activity EXCEPT ![Now(w, o)] = "Cancelled"]
    /\ lock' = [lock EXCEPT ![w] = [at |-> "settle", ordinals |-> {o}]]
    /\ UNCHANGED <<status, run, rows, up, live, pinned, retained, dispatcher,
                   tasks, recon, ghosts, crashes, faults>>

\* A workflow terminal: the append, then settle_terminal_outbox_rows_nonfatal.
RecordTerminal(w) ==
    /\ Unlocked(w)
    /\ ~Terminal(w)
    /\ status' = [status EXCEPT ![w] = "Terminal"]
    /\ lock' = [lock EXCEPT ![w] = [at |-> "settle", ordinals |-> Ordinals]]
    /\ UNCHANGED <<run, activity, rows, up, live, pinned, retained, dispatcher,
                   tasks, recon, ghosts, crashes, faults>>

\* The settle half of both.  If it fails the row stays: behind a workflow terminal
\* that is logged, behind a cancellation the collect returns the error to its program.
SettleRows(w) ==
    /\ up
    /\ lock[w].at = "settle"
    /\ Write(settle_cancelled(rows, {w} \X lock[w].ordinals))
    /\ lock' = [lock EXCEPT ![w] = Free]
    /\ UNCHANGED <<history, up, live, pinned, retained, dispatcher, tasks,
                   recon, ghosts, crashes>>

\* The process of a terminal workflow is stopped after its terminal is
\* durable: until then it may still stage, record and cancel.
StopProcess(w) ==
    /\ Unlocked(w)
    /\ Terminal(w)
    /\ live' = live \ {w}
    /\ pinned' = pinned \ {w}
    /\ retained' = [retained EXCEPT ![w] = {}]
    /\ UNCHANGED <<history, rows, up, lock, dispatcher, tasks, recon, ghosts,
                   crashes, faults>>

\* The continue_as_new NIF: no settle, no check for pending work; the
\* replacement run starts with fresh ordinals once the process has exited.
ContinueAsNew(w) ==
    /\ Unlocked(w)
    /\ status[w] = "Running"
    /\ run[w] < MaxRuns
    /\ run' = [run EXCEPT ![w] = @ + 1]
    /\ live' = live \ {w}
    /\ pinned' = pinned \ {w}
    /\ retained' = [retained EXCEPT ![w] = {}]
    /\ UNCHANGED <<status, activity, rows, up, lock, dispatcher, tasks, recon,
                   ghosts, crashes, faults>>

\* A run that is Running but not resident is spawned: the replacement of a
\* continued run, or a resumed run.
Spawn(w) ==
    /\ up
    /\ w \notin live
    /\ status[w] = "Running"
    /\ live' = live \cup {w}
    /\ UNCHANGED <<history, rows, up, pinned, lock, retained, dispatcher, tasks,
                   recon, ghosts, crashes, faults>>

PauseOrResume(w) ==
    /\ up
    /\ w \in Pausable
    /\ ~Terminal(w)
    /\ lock[w].at = "free"
    /\ status' = [status EXCEPT ![w] = IF @ = "Paused" THEN "Running" ELSE "Paused"]
    /\ UNCHANGED <<run, activity, rows, up, engine, dispatcher, tasks, recon,
                   ghosts, crashes, faults>>

-----------------------------------------------------------------------------
(***************************************************************************)
(* OutboxDispatcher: one sweep claims, then processes its claims in turn.  *)
(***************************************************************************)
Claimable == {k \in Keys : rows[k].status = "pending" /\ rows[k].ripe}

\* The window is cut before the held rows are filtered out of it.
MutantClaimExcluding ==
    {{k \in c : k[1] \notin Held} : c \in
        {d \in SUBSET Claimable :
            /\ Cardinality(d) = IF Cardinality(Claimable) < BatchSize
                                THEN Cardinality(Claimable) ELSE BatchSize
            /\ \A k \in d, l \in Claimable \ d : l[1] \in Held => k[1] \in Held}}

\* select_and_claim_excluding: held rows cost no claim slot.
claim_outbox_rows_excluding ==
    {c \in SUBSET {k \in Claimable : k[1] \notin Held} :
        Cardinality(c) =
          LET n == Cardinality({k \in Claimable : k[1] \notin Held})
          IN  IF n < BatchSize THEN n ELSE BatchSize}

Claim ==
    /\ up
    /\ batch = {} /\ current = {}
    /\ \E keys \in claim_outbox_rows_excluding :
          /\ keys # {}
          /\ rows' = claim_outbox_rows(rows, keys)
          /\ batch' = {[key |-> k, run |-> rows[k].run, attempt |-> rows[k].attempt] :
                          k \in keys}
          \* A row claimed now is newer than the cutoff of a sweep in progress.
          /\ recon' = [recon EXCEPT !.stale = @ \ keys]
    /\ UNCHANGED <<history, up, engine, current, phase, tasks, ghosts, crashes,
                   faults>>

\* process_row takes the next claim of the batch.
BeginDispatch(c) ==
    /\ up
    /\ current = {}
    /\ c \in batch
    /\ batch' = batch \ {c}
    /\ current' = {c}
    /\ phase' = "ready"
    /\ UNCHANGED <<history, rows, up, engine, tasks, recon, ghosts, crashes,
                   faults>>

\* The task is pushed.  gRPC takes acceptance for success; liminal awaits
\* the worker's reply.
Push(c) ==
    /\ up
    /\ c \in current
    /\ phase = "ready"
    /\ tasks' = tasks \cup {TaskOf(c)}
    /\ phase' = IF Transport = "grpc" THEN "ok" ELSE "awaiting"
    /\ UNCHANGED <<history, rows, up, engine, batch, current, recon, ghosts,
                   crashes, faults>>

\* No worker, a closed stream, a reply timeout, or an engine that refused
\* the delivery ("err"); a connection that broke before the reply ("lost").
\* A liminal worker's reply to an abandoned push has nobody waiting for it.
DispatchFails(c, failure) ==
    /\ up
    /\ c \in current
    /\ phase \in {"ready", "awaiting"}
    /\ failure = "lost" => Transport = "liminal"
    /\ phase' = failure
    /\ tasks' = IF phase = "awaiting" THEN tasks \ {TaskOf(c)} ELSE tasks
    /\ UNCHANGED <<history, rows, up, engine, batch, current, recon, ghosts,
                   crashes, faults>>

\* The gate as it was before completions carried a run.
MutantDeliveryPid(task) == task.key[1] \in live

(***************************************************************************)
(* deliver_outbox_completion: only the live run the task belongs to gets   *)
(* the completion; otherwise it is dropped and recovery re-arms it.  A     *)
(* task without a run (0) goes to whichever run is live.                   *)
(***************************************************************************)
outbox_delivery_pid(task) ==
    /\ task.key[1] \in live
    /\ task.run \in {0, run[task.key[1]]}

DeliverOutbox(task) ==
    retained' = IF outbox_delivery_pid(task)
                THEN [retained EXCEPT ![task.key[1]] = @ \cup {<<task.key[2], task.run>>}]
                ELSE retained

\* The correlated liminal reply: delivered first, then the dispatch is ok.
Reply(c) ==
    /\ up
    /\ c \in current
    /\ phase = "awaiting"
    /\ tasks' = tasks \ {TaskOf(c)}
    /\ DeliverOutbox(TaskOf(c))
    /\ phase' = "ok"
    /\ UNCHANGED <<history, rows, up, live, pinned, lock, batch, current, recon,
                   ghosts, crashes, faults>>

\* A gRPC result frame.  The worker re-reports it in its next session when
\* the acknowledgement was lost (`acked` is FALSE).
Report(task, acked) ==
    /\ up
    /\ Transport = "grpc"
    /\ task \in tasks
    /\ tasks' = IF acked THEN tasks \ {task} ELSE tasks
    /\ DeliverOutbox(task)
    /\ UNCHANGED <<history, rows, up, live, pinned, lock, dispatcher, recon,
                   ghosts, crashes, faults>>

\* A gRPC worker dies with an accepted task.  The outbox transport does not
\* track it for heartbeats: nothing tells the server.
WorkerDies(task) ==
    /\ Transport = "grpc"
    /\ task \in tasks
    /\ tasks' = tasks \ {task}
    /\ UNCHANGED <<history, rows, up, engine, dispatcher, recon, ghosts,
                   crashes, faults>>

EndDispatch == current' = {} /\ phase' = "idle"

mark_done(c) ==
    /\ up
    /\ c \in current
    /\ phase = "ok"
    /\ Write(complete_outbox_row(rows, c.key))
    /\ EndDispatch
    /\ UNCHANGED <<history, up, engine, batch, tasks, recon, ghosts, crashes>>

\* The retry budget is judged on the claimed copy of the row.
Exhausted(c) == c.attempt + 1 >= MaxAttempts

handle_dispatch_error(c) ==
    /\ up
    /\ c \in current
    /\ phase \in {"err", "lost"}
    /\ Write(IF Exhausted(c) THEN fail_outbox_row(rows, c.key)
             ELSE retry_outbox_row(rows, c.key, c.attempt + 1, phase = "lost"))
    /\ EndDispatch
    /\ UNCHANGED <<history, up, engine, batch, tasks, recon, ghosts, crashes>>

-----------------------------------------------------------------------------
(***************************************************************************)
(* OutboxReconciler::sweep_once: list the stale claims, probe and settle   *)
(* each workflow among them, then re-arm.  The cutoff is fixed at the      *)
(* start: `stale` is what it covers.  Both queries order rows the same way *)
(* and cut at the same batch size.                                         *)
(***************************************************************************)
AtMost(n, S) == IF Cardinality(S) < n THEN Cardinality(S) ELSE n

ReconcilerList ==
    /\ up
    /\ recon.at = "idle"
    /\ StaleBatch > 0
    /\ LET stale == {k \in Keys : rows[k].status = "claimed" /\ rows[k].ripe}
       IN  /\ stale # {}
           /\ \E listed \in SUBSET stale :
                 /\ Cardinality(listed) = AtMost(StaleBatch, stale)
                 /\ recon' = [at |-> "probe", stale |-> stale, listed |-> listed,
                              todo |-> {k[1] : k \in listed}]
    /\ UNCHANGED <<history, rows, up, engine, dispatcher, tasks, ghosts,
                   crashes, faults>>

\* Project one candidate workflow; settle its rows if it is terminal.
ReconcilerProbe(w) ==
    /\ up
    /\ recon.at = "probe"
    /\ w \in recon.todo
    /\ rows' = IF Terminal(w) THEN settle_cancelled(rows, KeysOf(w)) ELSE rows
    /\ recon' = [recon EXCEPT !.todo = @ \ {w}]
    /\ UNCHANGED <<history, up, engine, dispatcher, tasks, ghosts, crashes,
                   faults>>

\* Any store error of the gate aborts the whole sweep.
ReconcilerAborts ==
    /\ up
    /\ recon.at = "probe"
    /\ StoreFails
    /\ recon' = NoSweep
    /\ UNCHANGED <<history, rows, up, engine, dispatcher, tasks, ghosts, crashes>>

StillStale == {k \in recon.stale : rows[k].status = "claimed"}

\* rearm_stale_claimed_outbox_rows selects afresh under the same order and
\* limit: the listed rows that are left come first.
Rearmed ==
    {r \in SUBSET StillStale :
        /\ Cardinality(r) = AtMost(StaleBatch, StillStale)
        /\ recon.listed \cap StillStale \subseteq r}

ReconcilerRearm ==
    /\ up
    /\ recon.at = "probe"
    /\ recon.todo = {}
    /\ \E r \in Rearmed : rows' = rearm_stale_claimed(rows, r)
    /\ recon' = NoSweep
    /\ UNCHANGED <<history, up, engine, dispatcher, tasks, ghosts, crashes,
                   faults>>

-----------------------------------------------------------------------------
(***************************************************************************)
(* Crash and boot.                                                         *)
(***************************************************************************)
Crash ==
    /\ up
    /\ crashes < MaxCrashes
    /\ crashes' = crashes + 1
    /\ up' = FALSE
    /\ live' = {}
    /\ pinned' = {}
    /\ lock' = [w \in Workflows |-> Free]
    /\ retained' = [w \in Workflows |-> {}]
    /\ batch' = {}
    /\ current' = {}
    /\ phase' = "idle"
    /\ tasks' = IF Transport = "grpc" THEN tasks ELSE {}
    /\ recon' = NoSweep
    /\ buried' = {}
    /\ UNCHANGED <<history, rows, origins, faults>>

\* A boot sweep that passes over rows waiting to be claimed.
MutantSettledAtBoot ==
    {w \in Workflows : Terminal(w) /\ \A k \in KeysOf(w) : rows[k].status # "pending"}

\* settle_terminal_outbox_rows.
SettledAtBoot == {w \in Workflows : Terminal(w)}

(***************************************************************************)
(* A restart: repopulate_active_workflows respawns the runs that project   *)
(* Running, then the boot sweep settles, then the dispatcher starts.       *)
(***************************************************************************)
Boot ==
    /\ ~up
    /\ up' = TRUE
    /\ live' = {w \in Workflows : status[w] = "Running"}
    /\ \/ /\ rows' = settle_cancelled(rows, SettledAtBoot \X Ordinals)
          /\ buried' = {w \in Workflows : Terminal(w)}
          /\ UNCHANGED faults
       \/ StoreFails /\ UNCHANGED <<rows, buried>>
    /\ UNCHANGED <<history, pinned, lock, retained, dispatcher, tasks, recon,
                   origins, crashes>>

-----------------------------------------------------------------------------
Process(w) ==
    \/ FirstArrival(w)
    \/ \E o \in Ordinals : RecordCompletion(w, o)
    \/ SettleRows(w)
    \/ StopProcess(w)
    \/ Spawn(w)

Dispatch ==
    \/ Claim
    \/ \E c \in batch : BeginDispatch(c)
    \/ \E c \in current :
          \/ Push(c)
          \/ Reply(c)
          \/ \E failure \in {"err", "lost"} : DispatchFails(c, failure)
          \/ mark_done(c)
          \/ handle_dispatch_error(c)

Reconcile ==
    \/ ReconcilerList
    \/ \E w \in Workflows : ReconcilerProbe(w)
    \/ ReconcilerAborts
    \/ ReconcilerRearm

Next ==
    \/ \E k \in Keys : Tick(k)
    \/ \E w \in Workflows :
          \/ Process(w)
          \/ RecordTerminal(w)
          \/ ContinueAsNew(w)
          \/ PauseOrResume(w)
          \/ \E o \in Ordinals : CancelActivity(w, o)
    \/ Dispatch
    \/ \E task \in tasks :
          \/ \E acked \in BOOLEAN : Report(task, acked)
          \/ WorkerDies(task)
    \/ Reconcile
    \/ Crash
    \/ Boot

Spec == Init /\ [][Next]_vars

(***************************************************************************)
(* Fairness.  The tokio tasks of the dispatcher and the reconciler and the *)
(* scheduler's processes keep running, time passes, and a supervisor       *)
(* restarts a crashed server.  Nothing obliges a worker to answer: the     *)
(* dispatcher's own reply timeout ends every wait.                         *)
(***************************************************************************)
Fairness ==
    /\ \A w \in Workflows : WF_vars(Process(w))
    /\ WF_vars(Dispatch)
    /\ WF_vars(Reconcile)
    /\ \A k \in Keys : WF_vars(Tick(k))
    /\ WF_vars(Boot)

FairSpec == Spec /\ Fairness

-----------------------------------------------------------------------------
(***************************************************************************)
(* Properties.                                                             *)
(***************************************************************************)

\* Every variable keeps its type; in particular no row's attempt ever
\* reaches max_attempts: the last attempt dead-letters.
TypeOK ==
    /\ status \in [Workflows -> {"Running", "Paused", "Terminal"}]
    /\ run \in [Workflows -> Runs]
    /\ activity \in [Workflows \X Runs \X Ordinals ->
                       {"None", "Scheduled", "Resolved", "Cancelled"}]
    /\ rows \in [Keys -> Rows]
    /\ up \in BOOLEAN
    /\ live \in SUBSET Workflows
    /\ pinned \in SUBSET Workflows
    /\ lock \in [Workflows -> [at : {"free", "settle"}, ordinals : SUBSET Ordinals]]
    /\ retained \in [Workflows -> SUBSET (Ordinals \X (0 .. MaxRuns))]
    /\ batch \in SUBSET Claims
    /\ current \in SUBSET Claims
    /\ phase \in {"idle", "ready", "awaiting", "ok", "err", "lost"}
    /\ tasks \in SUBSET Tasks
    /\ recon \in [at : {"idle", "probe"}, stale : SUBSET Keys,
                  listed : SUBSET Keys, todo : SUBSET Workflows]
    /\ origins \in SUBSET (Workflows \X Runs \X (0 .. MaxRuns))
    /\ buried \in SUBSET Workflows
    /\ crashes \in 0 .. MaxCrashes
    /\ faults \in 0 .. MaxFaults

\* OBX-011 (delivery.rs:303-307): after continue-as-new a late completion of
\* the superseded run "must NOT resolve the new run's reused ordinal".
\* Every outcome recorded in a run was produced by a task of that run.
ResolvedByOwnRun == \A x \in origins : x[3] = x[2]

\* The zombie-round incident (outbox_settle.rs:7-12): a workflow whose rows
\* the boot sweep retired never has a row that could be claimed again.
BuriedStaysBuried ==
    \A w \in buried, o \in Ordinals : rows[<<w, o>>].status \notin InFlight

\* A pinned process never waits for a completion that nothing will produce:
\* the row of each unresolved member is still to be dispatched or is a dead
\* letter for the operator, or its outcome is already in the runtime map.
\* Holds for the liminal transport, whose dispatcher holds a claim until the
\* reply was delivered, and as long as no run is made resident while the
\* dispatcher may already claim its rows (resume of a run that crashed while
\* paused releases the hold first, pause.rs).
NoMemberStranded ==
    \A w \in pinned, o \in Ordinals :
        (activity[Now(w, o)] = "Scheduled" /\ run[w] = 1) =>
            \/ rows[<<w, o>>].status \in InFlight \cup {"failed"}
            \/ Terminal(w) /\ rows[<<w, o>>].status = "cancelled"
            \/ \E r \in Runs : <<o, r>> \in retained[w]

\* Types, attempts within the retry budget among them, and no member of a
\* pinned process left without a row, an outcome or a dead letter.
Inv == TypeOK /\ NoMemberStranded

\* run.rs:379-381 on a terminal workflow whose rows a failed settle missed:
\* the hook, the boot sweep and the reconciler gate together leave no row of
\* a terminal workflow in flight for ever, "never a re-arm loop".
TerminalRowsRetire ==
    \A k \in Keys :
        [](Terminal(k[1]) /\ k[1] \notin live => <>(rows[k].status \notin InFlight))

\* Every staged member of a workflow that is neither paused, ended nor
\* continued is resolved, cancelled or dead-lettered, in spite of crashes,
\* failing writes, lost connections and reply timeouts.
MembersSettle ==
    \A k \in Keys :
        (activity[<<k[1], 1, k[2]>>] = "Scheduled" /\ status[k[1]] = "Running")
          ~> \/ activity[<<k[1], 1, k[2]>>] # "Scheduled"
             \/ rows[k].status = "failed"
             \/ status[k[1]] # "Running"
             \/ run[k[1]] > 1

\* The claim comment (libsql outbox.rs): a paused workflow's due rows must
\* not "permanently occupy the whole window and starve every other workflow".
HeldRowsDoNotStarve ==
    \A k \in Keys :
        (rows[k].status = "pending" /\ k[1] \notin Pausable)
          ~> (rows[k].status # "pending" \/ ~up)

=============================================================================
