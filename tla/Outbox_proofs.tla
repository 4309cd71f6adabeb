---------------------------- MODULE Outbox_proofs ----------------------------
(***************************************************************************)
(* Proofs about module Outbox, for any workflows, ordinals, runs of a      *)
(* chain, batch sizes, retry budgets, crashes and failing writes.          *)
(***************************************************************************)
EXTENDS Outbox, TLAPS

-----------------------------------------------------------------------------
(* The inductive invariant.                                                *)

(***************************************************************************)
(* A row knows its run.  Only a re-arm of an absent row would insert one   *)
(* without a run, and whatever is staged has a row; complete, retry and    *)
(* fail address a row by its key, and the key of a claim is in the table.  *)
(***************************************************************************)
RowsKnowTheirRun ==
    /\ \A w \in Workflows, r \in Runs, o \in Ordinals :
           activity[<<w, r, o>>] # "None" => rows[<<w, o>>].status # "absent"
    /\ \A k \in Keys : rows[k].status # "absent" => rows[k].run \in 1 .. run[k[1]]
    /\ \A c \in batch \cup current : /\ rows[c.key].status # "absent"
                                     /\ c.run \in 1 .. run[c.key[1]]
    /\ \A task \in tasks : task.run # 0

\* What is retained for a live process came from a task of its own run.
RetainedIsOwn == \A w \in Workflows : \A x \in retained[w] : x[2] = run[w]

\* Nothing that could bring a row back is left of a workflow the boot sweep settled.
BuriedIsOver ==
    /\ \A w \in buried : Terminal(w) /\ w \notin live
    /\ \A c \in batch \cup current : c.key[1] \notin buried

\* A dead server hosts nothing; the dispatcher works on one claim at a time.
HostIsTrue ==
    /\ ~up => live = {} /\ batch = {} /\ current = {}
    /\ pinned \subseteq live
    /\ \A c, d \in current : c = d

IInv ==
    /\ TypeOK
    /\ RowsKnowTheirRun
    /\ RetainedIsOwn
    /\ ResolvedByOwnRun
    /\ BuriedIsOver
    /\ HostIsTrue
    /\ BuriedStaysBuried

(***************************************************************************)
(* For NoMemberStranded.  The members of the first run are staged all at   *)
(* once, onto keys that were not in use.                                   *)
(***************************************************************************)
StagedTogether ==
    \A w \in Workflows : run[w] = 1 =>
        /\ \A o, p \in Ordinals :
               activity[<<w, 1, o>>] = "None" => activity[<<w, 1, p>>] = "None"
        /\ \A o \in Ordinals :
               activity[<<w, 1, o>>] = "None" => rows[<<w, o>>].status = "absent"

\* Without a pause the first run of a workflow is resident until it ends.
FirstRunIsLive ==
    \A w \in Workflows :
        /\ status[w] # "Paused"
        /\ up /\ status[w] = "Running" /\ run[w] = 1 => w \in live

\* What is settled behind an append is not waited for.
SettlesTheSettled ==
    \A w \in Workflows : lock[w].at = "settle" =>
        Terminal(w) \/ \A o \in lock[w].ordinals : activity[Now(w, o)] # "Scheduled"

\* The dispatcher holds a claim until its reply was delivered.
OkIsDelivered ==
    phase = "ok" =>
        \A c \in current : \A w \in live, o \in Ordinals :
            (c.key = <<w, o>> /\ run[w] = 1 /\ activity[<<w, 1, o>>] = "Scheduled")
                => \E r \in Runs : <<o, r>> \in retained[w]

IInvStranded ==
    /\ StagedTogether
    /\ FirstRunIsLive
    /\ SettlesTheSettled
    /\ OkIsDelivered
    /\ NoMemberStranded

-----------------------------------------------------------------------------
USE MaxRunsAssumption, MaxAttemptsAssumption

\* The table keeps its type under every transition of the store.
LEMMA RowType ==
    ASSUME NEW s \in {"absent", "pending", "claimed", "done", "failed", "cancelled"},
           NEW a \in 0 .. (MaxAttempts - 1), NEW r \in 0 .. MaxRuns, NEW b \in BOOLEAN
    PROVE  Row(s, a, r, b) \in Rows
  BY DEF Row, Rows

LEMMA RowFields ==
    ASSUME NEW x \in Rows
    PROVE  x.attempt \in 0 .. (MaxAttempts - 1) /\ x.run \in 0 .. MaxRuns
  BY DEF Rows

LEMMA TableWrites ==
    ASSUME NEW table \in [Keys -> Rows], NEW keys
    PROVE  /\ \A r \in 0 .. MaxRuns : insert_outbox_row(table, keys, r) \in [Keys -> Rows]
           /\ rearm_outbox_pending(table, keys) \in [Keys -> Rows]
           /\ claim_outbox_rows(table, keys) \in [Keys -> Rows]
           /\ settle_cancelled(table, keys) \in [Keys -> Rows]
           /\ rearm_stale_claimed(table, keys) \in [Keys -> Rows]
  <1>1. \A k \in Keys : /\ table[k] \in Rows
                        /\ table[k].attempt \in 0 .. (MaxAttempts - 1)
                        /\ table[k].run \in 0 .. MaxRuns
    BY RowFields
  <1>2. 0 \in 0 .. (MaxAttempts - 1)
    OBVIOUS
  <1>3. \A r \in 0 .. MaxRuns : insert_outbox_row(table, keys, r) \in [Keys -> Rows]
    BY <1>1, <1>2, RowType DEF insert_outbox_row
  <1>4. rearm_outbox_pending(table, keys) \in [Keys -> Rows]
    BY <1>1, RowType DEF rearm_outbox_pending
  <1>5. claim_outbox_rows(table, keys) \in [Keys -> Rows]
    BY <1>1, RowType DEF claim_outbox_rows
  <1>6. settle_cancelled(table, keys) \in [Keys -> Rows]
    BY <1>1, RowType DEF settle_cancelled
  <1>7. rearm_stale_claimed(table, keys) \in [Keys -> Rows]
    BY <1>1, RowType DEF rearm_stale_claimed
  <1>8. QED
    BY <1>3, <1>4, <1>5, <1>6, <1>7

LEMMA RowWrites ==
    ASSUME NEW table \in [Keys -> Rows], NEW key \in Keys
    PROVE  /\ complete_outbox_row(table, key) \in [Keys -> Rows]
           /\ fail_outbox_row(table, key) \in [Keys -> Rows]
           /\ \A a \in 0 .. (MaxAttempts - 1), b \in BOOLEAN :
                  retry_outbox_row(table, key, a, b) \in [Keys -> Rows]
  <1>1. /\ table[key] \in Rows
        /\ table[key].attempt \in 0 .. (MaxAttempts - 1)
        /\ table[key].run \in 0 .. MaxRuns
    BY RowFields
  <1>2. complete_outbox_row(table, key) \in [Keys -> Rows]
    BY <1>1, RowType DEF complete_outbox_row
  <1>3. fail_outbox_row(table, key) \in [Keys -> Rows]
    BY <1>1, RowType DEF fail_outbox_row
  <1>4. \A a \in 0 .. (MaxAttempts - 1), b \in BOOLEAN :
            retry_outbox_row(table, key, a, b) \in [Keys -> Rows]
    BY <1>1, RowType DEF retry_outbox_row
  <1>5. QED
    BY <1>2, <1>3, <1>4

RowsType == rows \in [Keys -> Rows]

\* No step takes a row out of its type, or its attempt past the retry budget.
LEMMA RowsStep ==
    ASSUME TypeOK, [Next]_vars
    PROVE  RowsType'
  <1> USE DEF RowsType, history, engine, dispatcher, ghosts
  <1> rows \in [Keys -> Rows]
    BY DEF TypeOK
  <1>1. ASSUME NEW k \in Keys, Tick(k) PROVE RowsType'
    <2>1. rows[k] \in Rows /\ [rows[k] EXCEPT !.ripe = TRUE] \in Rows
      BY DEF Rows
    <2>2. rows' = [rows EXCEPT ![k] = [rows[k] EXCEPT !.ripe = TRUE]]
      BY <1>1 DEF Tick
    <2>3. QED
      BY <2>1, <2>2
  <1>2. ASSUME NEW w \in Workflows, FirstArrival(w) PROVE RowsType'
    <2>1. run[w] \in 0 .. MaxRuns
      BY DEF TypeOK, Runs
    <2>2. CASE record_fan_out_dispatch(w)
      BY <2>1, <2>2, TableWrites DEF record_fan_out_dispatch
    <2>3. CASE RearmStale(w)
      BY <2>3, TableWrites DEF RearmStale
    <2>4. QED
      BY <1>2, <2>2, <2>3 DEF FirstArrival
  <1>3. ASSUME NEW w \in Workflows, NEW o \in Ordinals, RecordCompletion(w, o)
        PROVE  RowsType'
    BY <1>3 DEF RecordCompletion, Unlocked
  <1>4. ASSUME NEW w \in Workflows, SettleRows(w) PROVE RowsType'
    BY <1>4, TableWrites DEF SettleRows, Write
  <1>5. ASSUME NEW w \in Workflows, StopProcess(w) PROVE RowsType'
    BY <1>5 DEF StopProcess, Unlocked
  <1>6. ASSUME NEW w \in Workflows, Spawn(w) PROVE RowsType'
    BY <1>6 DEF Spawn
  <1>7. ASSUME NEW w \in Workflows, RecordTerminal(w) PROVE RowsType'
    BY <1>7 DEF RecordTerminal, Unlocked
  <1>8. ASSUME NEW w \in Workflows, ContinueAsNew(w) PROVE RowsType'
    BY <1>8 DEF ContinueAsNew, Unlocked
  <1>9. ASSUME NEW w \in Workflows, PauseOrResume(w) PROVE RowsType'
    BY <1>9 DEF PauseOrResume
  <1>10. ASSUME NEW w \in Workflows, NEW o \in Ordinals, CancelActivity(w, o)
         PROVE  RowsType'
    BY <1>10 DEF CancelActivity, Unlocked
  <1>11. CASE Claim
    BY <1>11, TableWrites DEF Claim
  <1>12. ASSUME NEW c \in batch, BeginDispatch(c) PROVE RowsType'
    BY <1>12 DEF BeginDispatch
  <1>13. ASSUME NEW c \in current, Push(c) PROVE RowsType'
    BY <1>13 DEF Push
  <1>14. ASSUME NEW c \in current, Reply(c) PROVE RowsType'
    BY <1>14 DEF Reply, DeliverOutbox
  <1>15. ASSUME NEW c \in current, NEW failure \in {"err", "lost"}, DispatchFails(c, failure)
         PROVE  RowsType'
    BY <1>15 DEF DispatchFails
  <1>16. ASSUME NEW c \in current, mark_done(c) PROVE RowsType'
    <2>1. c.key \in Keys
      BY DEF TypeOK, Claims
    <2>2. QED
      BY <1>16, <2>1, RowWrites DEF mark_done, Write
  <1>17. ASSUME NEW c \in current, handle_dispatch_error(c) PROVE RowsType'
    <2>1. c.key \in Keys /\ c.attempt \in 0 .. (MaxAttempts - 1)
      BY DEF TypeOK, Claims
    <2>2. CASE Exhausted(c)
      BY <1>17, <2>1, <2>2, RowWrites DEF handle_dispatch_error, Write
    <2>3. CASE ~Exhausted(c)
      <3>1. c.attempt + 1 \in 0 .. (MaxAttempts - 1)
        BY <2>1, <2>3 DEF Exhausted
      <3> DEFINE visible == phase = "lost"
      <3>2. visible \in BOOLEAN
        OBVIOUS
      <3>3. \/ rows' = rows
            \/ rows' = retry_outbox_row(rows, c.key, c.attempt + 1, visible)
        BY <1>17, <2>3 DEF handle_dispatch_error, Write
      <3> HIDE DEF visible
      <3>4. QED
        BY <2>1, <3>1, <3>2, <3>3, RowWrites
    <2>4. QED
      BY <2>2, <2>3
  <1>18. ASSUME NEW task \in tasks, NEW acked \in BOOLEAN, Report(task, acked)
         PROVE  RowsType'
    BY <1>18 DEF Report, DeliverOutbox
  <1>19. ASSUME NEW task \in tasks, WorkerDies(task) PROVE RowsType'
    BY <1>19 DEF WorkerDies
  <1>20. CASE ReconcilerList
    BY <1>20 DEF ReconcilerList
  <1>21. ASSUME NEW w \in Workflows, ReconcilerProbe(w) PROVE RowsType'
    BY <1>21, TableWrites DEF ReconcilerProbe
  <1>22. CASE ReconcilerAborts
    BY <1>22 DEF ReconcilerAborts, StoreFails
  <1>23. CASE ReconcilerRearm
    BY <1>23, TableWrites DEF ReconcilerRearm
  <1>24. CASE Crash
    BY <1>24 DEF Crash
  <1>25. CASE Boot
    BY <1>25, TableWrites DEF Boot
  <1>26. CASE UNCHANGED vars
    BY <1>26 DEF vars
  <1> HIDE DEF RowsType, history, engine, dispatcher, ghosts
  <1>27. QED
    BY <1>1, <1>2, <1>3, <1>4, <1>5, <1>6, <1>7, <1>8, <1>9, <1>10, <1>11, <1>12, <1>13,
       <1>14, <1>15, <1>16, <1>17, <1>18, <1>19, <1>20, <1>21, <1>22, <1>23, <1>24, <1>25,
       <1>26
       DEF Next, Process, Dispatch, Reconcile

\* TypeOK without the table.
RestType ==
    /\ status \in [Workflows -> {"Running", "Paused", "Terminal"}]
    /\ run \in [Workflows -> Runs]
    /\ activity \in [Workflows \X Runs \X Ordinals ->
                       {"None", "Scheduled", "Resolved", "Cancelled"}]
    /\ up \in BOOLEAN
    /\ live \in SUBSET Workflows
    /\ pinned \in SUBSET Workflows
    /\ lock \in [Workflows -> [at : {"free", "settle"}, ordinals : SUBSET Ordinals]]
    /\ retained \in [Workflows -> SUBSET (Ordinals \X (0 .. MaxRuns))]
    /\ batch \in SUBSET Claims
    /\ current \in SUBSET Claims
    /\ phase \in {"idle", "ready", "awaiting", "ok", "err", "lost"}
    /\ tasks \in SUBSET Tasks
    /\ recon \in [at : {"idle", "probe"}, stale : SUBSET Keys,
                  listed : SUBSET Keys, todo : SUBSET Workflows]
    /\ origins \in SUBSET (Workflows \X Runs \X (0 .. MaxRuns))
    /\ buried \in SUBSET Workflows
    /\ crashes \in 0 .. MaxCrashes
    /\ faults \in 0 .. MaxFaults

\* A delivery retains the ordinal and the run of the task.
LEMMA DeliveryType ==
    ASSUME retained \in [Workflows -> SUBSET (Ordinals \X (0 .. MaxRuns))],
           NEW task \in Tasks, DeliverOutbox(task)
    PROVE  retained' \in [Workflows -> SUBSET (Ordinals \X (0 .. MaxRuns))]
  <1>1. /\ task.key[1] \in Workflows /\ task.key[2] \in Ordinals /\ task.run \in 0 .. MaxRuns
    BY DEF Tasks, Keys
  <1>2. QED
    BY <1>1 DEF DeliverOutbox

\* The rest of the state keeps its types.
LEMMA TypeStep ==
    ASSUME TypeOK, [Next]_vars
    PROVE  RestType'
  <1> USE DEF RestType, history, engine, dispatcher, ghosts
  <1> RestType
    BY DEF TypeOK, RestType
  <1> USE BoundsAssumption
  <1>1. ASSUME NEW k \in Keys, Tick(k) PROVE RestType'
    BY <1>1 DEF Tick
  <1>2. ASSUME NEW w \in Workflows, FirstArrival(w) PROVE RestType'
    BY <1>2 DEF FirstArrival, Unlocked, record_fan_out_dispatch, RearmStale
  <1>3. ASSUME NEW w \in Workflows, NEW o \in Ordinals, RecordCompletion(w, o)
        PROVE  RestType'
    <2>1. PICK producer \in 0 .. MaxRuns :
              /\ retained' = [retained EXCEPT ![w] = @ \ {<<o, producer>>}]
              /\ origins' = origins \cup {<<w, run[w], producer>>}
      BY <1>3 DEF RecordCompletion
    <2>2. retained' \in [Workflows -> SUBSET (Ordinals \X (0 .. MaxRuns))]
      BY <2>1
    <2>3. origins' \in SUBSET (Workflows \X Runs \X (0 .. MaxRuns))
      BY <2>1
    <2>4. activity' \in [Workflows \X Runs \X Ordinals ->
                           {"None", "Scheduled", "Resolved", "Cancelled"}]
      BY <1>3 DEF RecordCompletion, Now
    <2>5. QED
      BY <1>3, <2>2, <2>3, <2>4 DEF RecordCompletion
  <1>4. ASSUME NEW w \in Workflows, SettleRows(w) PROVE RestType'
    <2>1. Free \in [at : {"free", "settle"}, ordinals : SUBSET Ordinals]
      BY DEF Free
    <2>2. lock' \in [Workflows -> [at : {"free", "settle"}, ordinals : SUBSET Ordinals]]
      BY <1>4, <2>1 DEF SettleRows
    <2>3. faults' \in 0 .. MaxFaults
      BY <1>4 DEF SettleRows, Write, StoreFails
    <2>4. QED
      BY <1>4, <2>2, <2>3 DEF SettleRows
  <1>5. ASSUME NEW w \in Workflows, StopProcess(w) PROVE RestType'
    BY <1>5 DEF StopProcess, Unlocked
  <1>6. ASSUME NEW w \in Workflows, Spawn(w) PROVE RestType'
    BY <1>6 DEF Spawn
  <1>7. ASSUME NEW w \in Workflows, RecordTerminal(w) PROVE RestType'
    BY <1>7 DEF RecordTerminal, Unlocked
  <1>8. ASSUME NEW w \in Workflows, ContinueAsNew(w) PROVE RestType'
    <2>1. run' \in [Workflows -> Runs]
      BY <1>8 DEF ContinueAsNew, Runs
    <2>2. retained' \in [Workflows -> SUBSET (Ordinals \X (0 .. MaxRuns))]
      BY <1>8 DEF ContinueAsNew
    <2>3. live' \in SUBSET Workflows /\ pinned' \in SUBSET Workflows
      BY <1>8 DEF ContinueAsNew
    <2>4. QED
      BY <1>8, <2>1, <2>2, <2>3 DEF ContinueAsNew
  <1>9. ASSUME NEW w \in Workflows, PauseOrResume(w) PROVE RestType'
    BY <1>9 DEF PauseOrResume
  <1>10. ASSUME NEW w \in Workflows, NEW o \in Ordinals, CancelActivity(w, o)
         PROVE  RestType'
    BY <1>10 DEF CancelActivity, Unlocked
  <1>11. CASE Claim
    <2>1. PICK keys \in SUBSET Keys :
              /\ batch' = {[key |-> k, run |-> rows[k].run, attempt |-> rows[k].attempt] :
                              k \in keys}
              /\ recon' = [recon EXCEPT !.stale = @ \ keys]
      BY <1>11 DEF Claim, claim_outbox_rows_excluding, Claimable
    <2>2. \A k \in keys : /\ k \in Keys
                          /\ rows[k].attempt \in 0 .. (MaxAttempts - 1)
                          /\ rows[k].run \in 0 .. MaxRuns
      BY RowFields DEF TypeOK
    <2>3. batch' \in SUBSET Claims
      BY <2>1, <2>2 DEF Claims
    <2>4. recon' \in [at : {"idle", "probe"}, stale : SUBSET Keys,
                   listed : SUBSET Keys, todo : SUBSET Workflows]
      BY <2>1
    <2>5. QED
      BY <1>11, <2>3, <2>4 DEF Claim
  <1>12. ASSUME NEW c \in batch, BeginDispatch(c) PROVE RestType'
    BY <1>12 DEF BeginDispatch
  <1>13. ASSUME NEW c \in current, Push(c) PROVE RestType'
    <2>1. TaskOf(c) \in Tasks
      BY DEF TaskOf, Tasks, Claims
    <2>2. QED
      BY <1>13, <2>1 DEF Push
  <1>14. ASSUME NEW c \in current, Reply(c) PROVE RestType'
    <2>1. TaskOf(c) \in Tasks
      BY DEF TaskOf, Tasks, Claims
    <2>2. retained' \in [Workflows -> SUBSET (Ordinals \X (0 .. MaxRuns))]
      BY <1>14, <2>1, DeliveryType DEF Reply
    <2>3. QED
      BY <1>14, <2>2 DEF Reply
  <1>15. ASSUME NEW c \in current, NEW failure \in {"err", "lost"}, DispatchFails(c, failure)
         PROVE  RestType'
    BY <1>15 DEF DispatchFails
  <1>16. ASSUME NEW c \in current, mark_done(c) PROVE RestType'
    BY <1>16 DEF mark_done, Write, StoreFails, EndDispatch
  <1>17. ASSUME NEW c \in current, handle_dispatch_error(c) PROVE RestType'
    BY <1>17 DEF handle_dispatch_error, Write, StoreFails, EndDispatch, Exhausted
  <1>18. ASSUME NEW task \in tasks, NEW acked \in BOOLEAN, Report(task, acked)
         PROVE  RestType'
    <2>1. retained' \in [Workflows -> SUBSET (Ordinals \X (0 .. MaxRuns))]
      BY <1>18, DeliveryType DEF Report
    <2>2. QED
      BY <1>18, <2>1 DEF Report
  <1>19. ASSUME NEW task \in tasks, WorkerDies(task) PROVE RestType'
    BY <1>19 DEF WorkerDies
  <1>20. CASE ReconcilerList
    <2>1. PICK stale \in SUBSET Keys, listed \in SUBSET Keys :
              recon' = [at |-> "probe", stale |-> stale, listed |-> listed,
                        todo |-> {k[1] : k \in listed}]
      BY <1>20 DEF ReconcilerList
    <2>2. {k[1] : k \in listed} \subseteq Workflows
      BY DEF Keys
    <2>3. recon' \in [at : {"idle", "probe"}, stale : SUBSET Keys,
                   listed : SUBSET Keys, todo : SUBSET Workflows]
      BY <2>1, <2>2
    <2>4. QED
      BY <1>20, <2>3 DEF ReconcilerList
  <1>21. ASSUME NEW w \in Workflows, ReconcilerProbe(w) PROVE RestType'
    BY <1>21 DEF ReconcilerProbe
  <1>22. CASE ReconcilerAborts
    <2>1. NoSweep \in [at : {"idle", "probe"}, stale : SUBSET Keys,
                   listed : SUBSET Keys, todo : SUBSET Workflows]
      BY DEF NoSweep
    <2>2. QED
      BY <1>22, <2>1 DEF ReconcilerAborts, StoreFails
  <1>23. CASE ReconcilerRearm
    <2>1. NoSweep \in [at : {"idle", "probe"}, stale : SUBSET Keys,
                   listed : SUBSET Keys, todo : SUBSET Workflows]
      BY DEF NoSweep
    <2>2. QED
      BY <1>23, <2>1 DEF ReconcilerRearm
  <1>24. CASE Crash
    <2>1. NoSweep \in [at : {"idle", "probe"}, stale : SUBSET Keys,
                   listed : SUBSET Keys, todo : SUBSET Workflows]
      BY DEF NoSweep
    <2>2. [w \in Workflows |-> Free]
              \in [Workflows -> [at : {"free", "settle"}, ordinals : SUBSET Ordinals]]
      BY DEF Free
    <2>3. [w \in Workflows |-> {}] \in [Workflows -> SUBSET (Ordinals \X (0 .. MaxRuns))]
      OBVIOUS
    <2>4. up' \in BOOLEAN
      BY <1>24 DEF Crash
    <2>5. QED
      BY <1>24, <2>1, <2>2, <2>3, <2>4 DEF Crash
  <1>25. CASE Boot
    BY <1>25 DEF Boot, StoreFails
  <1>26. CASE UNCHANGED vars
    BY <1>26 DEF vars
  <1> HIDE DEF RestType, history, engine, dispatcher, ghosts
  <1>27. QED
    BY <1>1, <1>2, <1>3, <1>4, <1>5, <1>6, <1>7, <1>8, <1>9, <1>10, <1>11, <1>12, <1>13,
       <1>14, <1>15, <1>16, <1>17, <1>18, <1>19, <1>20, <1>21, <1>22, <1>23, <1>24, <1>25,
       <1>26
       DEF Next, Process, Dispatch, Reconcile

\* Two tables with the same rows, of the same runs.
SameRows(table, new) ==
    \A k \in Keys : new[k].run = table[k].run
                    /\ (new[k].status = "absent" <=> table[k].status = "absent")

\* Apart from an insert, no transition of the store adds a row, loses one or changes its run.
LEMMA TablesKeep ==
    ASSUME NEW table \in [Keys -> Rows], NEW keys
    PROVE  /\ SameRows(table, settle_cancelled(table, keys))
           /\ SameRows(table, rearm_stale_claimed(table, keys))
           /\ (\A k \in keys \cap Keys : table[k].status # "absent") =>
                  /\ SameRows(table, rearm_outbox_pending(table, keys))
                  /\ SameRows(table, claim_outbox_rows(table, keys))
  <1>1. SameRows(table, settle_cancelled(table, keys))
    BY DEF SameRows, settle_cancelled, Row, InFlight
  <1>2. SameRows(table, rearm_stale_claimed(table, keys))
    BY DEF SameRows, rearm_stale_claimed, Row
  <1>3. ASSUME \A k \in keys \cap Keys : table[k].status # "absent"
        PROVE  SameRows(table, rearm_outbox_pending(table, keys))
    BY <1>3 DEF SameRows, rearm_outbox_pending, Row
  <1>4. ASSUME \A k \in keys \cap Keys : table[k].status # "absent"
        PROVE  SameRows(table, claim_outbox_rows(table, keys))
    BY <1>4 DEF SameRows, claim_outbox_rows, Row
  <1>5. QED
    BY <1>1, <1>2, <1>3, <1>4

LEMMA RowKeeps ==
    ASSUME NEW table \in [Keys -> Rows], NEW key \in Keys, table[key].status # "absent"
    PROVE  /\ SameRows(table, complete_outbox_row(table, key))
           /\ SameRows(table, fail_outbox_row(table, key))
           /\ \A a, b : SameRows(table, retry_outbox_row(table, key, a, b))
  BY DEF SameRows, complete_outbox_row, fail_outbox_row, retry_outbox_row, Row


\* No step loses the run of a row.
LEMMA RowsKnowStep ==
    ASSUME TypeOK, RowsKnowTheirRun, [Next]_vars
    PROVE  RowsKnowTheirRun'
  <1> USE DEF RowsKnowTheirRun, TypeOK, Keys, Runs, Claims, Rows, history, engine,
              dispatcher, ghosts
  <1>1. ASSUME NEW k \in Keys, Tick(k) PROVE RowsKnowTheirRun'
    BY <1>1 DEF Tick
  <1>2. ASSUME NEW w \in Workflows, FirstArrival(w) PROVE RowsKnowTheirRun'
    <2>1. CASE record_fan_out_dispatch(w)
      <3>1. \A k \in Keys :
                /\ k \in {w} \X Unscheduled(w) /\ rows[k].status = "absent"
                   => rows'[k].status = "pending" /\ rows'[k].run = run[w]
                /\ ~(k \in {w} \X Unscheduled(w) /\ rows[k].status = "absent")
                   => rows'[k] = rows[k]
        BY <2>1 DEF record_fan_out_dispatch, insert_outbox_row, Row
      <3>2. run[w] \in Nat \ {0} /\ UNCHANGED <<run, batch, current, tasks>>
        BY <1>2 DEF FirstArrival
      <3>3. \A v \in Workflows, r \in Runs, o \in Ordinals :
                activity'[<<v, r, o>>] # "None" => rows'[<<v, o>>].status # "absent"
        <4> SUFFICES ASSUME NEW v \in Workflows, NEW r \in Runs, NEW o \in Ordinals,
                            activity'[<<v, r, o>>] # "None"
                     PROVE  rows'[<<v, o>>].status # "absent"
          OBVIOUS
        <4>1. <<v, o>> \in Keys /\ <<v, r, o>> \in Workflows \X Runs \X Ordinals
          OBVIOUS
        <4>2. CASE activity[<<v, r, o>>] # "None"
          BY <3>1, <4>1, <4>2
        <4>3. CASE activity[<<v, r, o>>] = "None"
          <5>1. v = w /\ r = run[w]
            BY <2>1, <4>1, <4>3 DEF record_fan_out_dispatch
          <5>2. o \in Unscheduled(w)
            BY <4>3, <5>1 DEF Unscheduled, Now
          <5>3. QED
            BY <3>1, <4>1, <5>1, <5>2
        <4>4. QED
          BY <4>2, <4>3
      <3>4. \A k \in Keys : rows'[k].status # "absent" => rows'[k].run \in 1 .. run'[k[1]]
        <4> SUFFICES ASSUME NEW k \in Keys, rows'[k].status # "absent"
                     PROVE  rows'[k].run \in 1 .. run[k[1]]
          BY <3>2
        <4>1. CASE k \in {w} \X Unscheduled(w) /\ rows[k].status = "absent"
          <5>1. k[1] = w /\ rows'[k].run = run[w]
            BY <3>1, <4>1
          <5>2. QED
            BY <3>2, <5>1
        <4>2. CASE ~(k \in {w} \X Unscheduled(w) /\ rows[k].status = "absent")
          BY <3>1, <4>2
        <4>3. QED
          BY <4>1, <4>2
      <3>5. \A c \in batch \cup current : c.key \in Keys
        OBVIOUS
      <3>6. \A c \in batch \cup current : rows'[c.key].status # "absent"
        BY <3>1, <3>5
      <3>7. QED
        BY <3>2, <3>3, <3>4, <3>6
    <2>2. CASE RearmStale(w)
      <3>1. \A k \in ({w} \X Unresolved(w)) \cap Keys : rows[k].status # "absent"
        BY DEF Unresolved, Now
      <3>2. SameRows(rows, rows')
        BY <2>2, <3>1, TablesKeep DEF RearmStale
      <3>3. UNCHANGED <<run, batch, current, tasks, activity>>
        BY <1>2, <2>2 DEF FirstArrival, RearmStale
      <3>4. QED
        BY <3>2, <3>3 DEF SameRows
    <2>3. QED
      BY <1>2, <2>1, <2>2 DEF FirstArrival
  <1>3. ASSUME NEW w \in Workflows, NEW o \in Ordinals, RecordCompletion(w, o)
        PROVE  RowsKnowTheirRun'
    BY <1>3 DEF RecordCompletion, Unlocked, Now
  <1>4. ASSUME NEW w \in Workflows, SettleRows(w) PROVE RowsKnowTheirRun'
    <2>1. SameRows(rows, rows')
      <3>1. rows \in [Keys -> Rows]
        OBVIOUS
      <3> HIDE DEF TypeOK, RowsKnowTheirRun, Keys, Rows, Claims, Runs
      <3>2. SameRows(rows, rows)
        BY DEF SameRows
      <3>3. QED
        BY <1>4, <3>1, <3>2, TablesKeep DEF SettleRows, Write
    <2>2. UNCHANGED <<run, tasks, activity>> /\ batch' \subseteq batch /\ current' \subseteq current
      BY <1>4 DEF SettleRows
    <2>3. QED
      BY <2>1, <2>2 DEF SameRows
  <1>5. ASSUME NEW w \in Workflows, StopProcess(w) PROVE RowsKnowTheirRun'
    BY <1>5 DEF StopProcess, Unlocked, Terminal
  <1>6. ASSUME NEW w \in Workflows, Spawn(w) PROVE RowsKnowTheirRun'
    BY <1>6 DEF Spawn
  <1>7. ASSUME NEW w \in Workflows, RecordTerminal(w) PROVE RowsKnowTheirRun'
    BY <1>7 DEF RecordTerminal, Unlocked, Terminal
  <1>8. ASSUME NEW w \in Workflows, ContinueAsNew(w) PROVE RowsKnowTheirRun'
    BY <1>8 DEF ContinueAsNew, Unlocked
  <1>9. ASSUME NEW w \in Workflows, PauseOrResume(w) PROVE RowsKnowTheirRun'
    BY <1>9 DEF PauseOrResume
  <1>10. ASSUME NEW w \in Workflows, NEW o \in Ordinals, CancelActivity(w, o)
         PROVE  RowsKnowTheirRun'
    BY <1>10 DEF CancelActivity, Unlocked, Now
  <1>11. CASE Claim
    BY <1>11 DEF Claim, claim_outbox_rows, Row, claim_outbox_rows_excluding, Claimable
  <1>12. ASSUME NEW c \in batch, BeginDispatch(c) PROVE RowsKnowTheirRun'
    BY <1>12 DEF BeginDispatch
  <1>13. ASSUME NEW c \in current, Push(c) PROVE RowsKnowTheirRun'
    BY <1>13 DEF Push, TaskOf
  <1>14. ASSUME NEW c \in current, Reply(c) PROVE RowsKnowTheirRun'
    BY <1>14 DEF Reply, DeliverOutbox, TaskOf, outbox_delivery_pid
  <1>15. ASSUME NEW c \in current, NEW failure \in {"err", "lost"}, DispatchFails(c, failure)
         PROVE  RowsKnowTheirRun'
    BY <1>15 DEF DispatchFails, TaskOf
  <1>16. ASSUME NEW c \in current, mark_done(c) PROVE RowsKnowTheirRun'
    <2>1. SameRows(rows, rows')
      <3>1. rows \in [Keys -> Rows] /\ c.key \in Keys /\ rows[c.key].status # "absent"
        OBVIOUS
      <3> HIDE DEF TypeOK, RowsKnowTheirRun, Keys, Rows, Claims, Runs
      <3>2. SameRows(rows, rows)
        BY DEF SameRows
      <3>3. QED
        BY <1>16, <3>1, <3>2, RowKeeps DEF mark_done, Write
    <2>2. UNCHANGED <<run, tasks, activity>> /\ batch' \subseteq batch /\ current' \subseteq current
      BY <1>16 DEF mark_done, EndDispatch
    <2>3. QED
      BY <2>1, <2>2 DEF SameRows
  <1>17. ASSUME NEW c \in current, handle_dispatch_error(c) PROVE RowsKnowTheirRun'
    <2>1. SameRows(rows, rows')
      <3>1. rows \in [Keys -> Rows] /\ c.key \in Keys /\ rows[c.key].status # "absent"
        OBVIOUS
      <3> HIDE DEF TypeOK, RowsKnowTheirRun, Keys, Rows, Claims, Runs
      <3>2. SameRows(rows, rows)
        BY DEF SameRows
      <3>3. QED
        BY <1>17, <3>1, <3>2, RowKeeps DEF handle_dispatch_error, Write
    <2>2. UNCHANGED <<run, tasks, activity>> /\ batch' \subseteq batch /\ current' \subseteq current
      BY <1>17 DEF handle_dispatch_error, EndDispatch
    <2>3. QED
      BY <2>1, <2>2 DEF SameRows
  <1>18. ASSUME NEW task \in tasks, NEW acked \in BOOLEAN, Report(task, acked)
         PROVE  RowsKnowTheirRun'
    BY <1>18 DEF Report, DeliverOutbox, outbox_delivery_pid
  <1>19. ASSUME NEW task \in tasks, WorkerDies(task) PROVE RowsKnowTheirRun'
    BY <1>19 DEF WorkerDies
  <1>20. CASE ReconcilerList
    BY <1>20 DEF ReconcilerList
  <1>21. ASSUME NEW w \in Workflows, ReconcilerProbe(w) PROVE RowsKnowTheirRun'
    <2>1. SameRows(rows, rows')
      <3>1. rows \in [Keys -> Rows]
        OBVIOUS
      <3> HIDE DEF TypeOK, RowsKnowTheirRun, Keys, Rows, Claims, Runs
      <3>2. SameRows(rows, rows)
        BY DEF SameRows
      <3>3. QED
        BY <1>21, <3>1, <3>2, TablesKeep DEF ReconcilerProbe
    <2>2. UNCHANGED <<run, tasks, activity>> /\ batch' \subseteq batch /\ current' \subseteq current
      BY <1>21 DEF ReconcilerProbe
    <2>3. QED
      BY <2>1, <2>2 DEF SameRows
  <1>22. CASE ReconcilerAborts
    BY <1>22 DEF ReconcilerAborts, StoreFails
  <1>23. CASE ReconcilerRearm
    <2>1. SameRows(rows, rows')
      <3>1. rows \in [Keys -> Rows]
        OBVIOUS
      <3> HIDE DEF TypeOK, RowsKnowTheirRun, Keys, Rows, Claims, Runs
      <3>2. SameRows(rows, rows)
        BY DEF SameRows
      <3>3. QED
        BY <1>23, <3>1, <3>2, TablesKeep DEF ReconcilerRearm
    <2>2. UNCHANGED <<run, tasks, activity>> /\ batch' \subseteq batch /\ current' \subseteq current
      BY <1>23 DEF ReconcilerRearm
    <2>3. QED
      BY <2>1, <2>2 DEF SameRows
  <1>24. CASE Crash
    BY <1>24 DEF Crash
  <1>25. CASE Boot
    <2>1. SameRows(rows, rows')
      <3>1. rows \in [Keys -> Rows]
        OBVIOUS
      <3> HIDE DEF TypeOK, RowsKnowTheirRun, Keys, Rows, Claims, Runs
      <3>2. SameRows(rows, rows)
        BY DEF SameRows
      <3>3. QED
        BY <1>25, <3>1, <3>2, TablesKeep DEF Boot
    <2>2. UNCHANGED <<run, tasks, activity>> /\ batch' \subseteq batch /\ current' \subseteq current
      BY <1>25 DEF Boot
    <2>3. QED
      BY <2>1, <2>2 DEF SameRows
  <1>26. CASE UNCHANGED vars
    BY <1>26 DEF vars
  <1> HIDE DEF RowsKnowTheirRun, TypeOK, Keys, Runs, Claims, Rows, history, engine,
               dispatcher, ghosts
  <1>27. QED
    BY <1>1, <1>2, <1>3, <1>4, <1>5, <1>6, <1>7, <1>8, <1>9, <1>10, <1>11, <1>12, <1>13,
       <1>14, <1>15, <1>16, <1>17, <1>18, <1>19, <1>20, <1>21, <1>22, <1>23, <1>24, <1>25,
       <1>26
       DEF Next, Process, Dispatch, Reconcile

\* No completion of another run is retained, and none is recorded.
LEMMA RetainedStep ==
    ASSUME TypeOK, RowsKnowTheirRun, RetainedIsOwn, ResolvedByOwnRun, [Next]_vars
    PROVE  RetainedIsOwn' /\ ResolvedByOwnRun'
  <1> USE DEF RowsKnowTheirRun, RetainedIsOwn, ResolvedByOwnRun, TypeOK, Keys, Runs,
              Claims, Rows, Tasks, history, engine, dispatcher, ghosts
  <1>1. ASSUME NEW k \in Keys, Tick(k) PROVE RetainedIsOwn' /\ ResolvedByOwnRun'
    BY <1>1 DEF Tick
  <1>2. ASSUME NEW w \in Workflows, FirstArrival(w)
        PROVE  RetainedIsOwn' /\ ResolvedByOwnRun'
    BY <1>2
       DEF FirstArrival, Unlocked, record_fan_out_dispatch, RearmStale, Unscheduled,
           Unresolved, Now, insert_outbox_row, rearm_outbox_pending, Row
  <1>3. ASSUME NEW w \in Workflows, NEW o \in Ordinals, RecordCompletion(w, o)
        PROVE  RetainedIsOwn' /\ ResolvedByOwnRun'
    BY <1>3 DEF RecordCompletion, Unlocked, Now
  <1>4. ASSUME NEW w \in Workflows, SettleRows(w) PROVE RetainedIsOwn' /\ ResolvedByOwnRun'
    BY <1>4 DEF SettleRows, Write, StoreFails, settle_cancelled, Row
  <1>5. ASSUME NEW w \in Workflows, StopProcess(w) PROVE RetainedIsOwn' /\ ResolvedByOwnRun'
    BY <1>5 DEF StopProcess, Unlocked, Terminal
  <1>6. ASSUME NEW w \in Workflows, Spawn(w) PROVE RetainedIsOwn' /\ ResolvedByOwnRun'
    BY <1>6 DEF Spawn
  <1>7. ASSUME NEW w \in Workflows, RecordTerminal(w)
        PROVE  RetainedIsOwn' /\ ResolvedByOwnRun'
    BY <1>7 DEF RecordTerminal, Unlocked, Terminal
  <1>8. ASSUME NEW w \in Workflows, ContinueAsNew(w)
        PROVE  RetainedIsOwn' /\ ResolvedByOwnRun'
    BY <1>8 DEF ContinueAsNew, Unlocked
  <1>9. ASSUME NEW w \in Workflows, PauseOrResume(w)
        PROVE  RetainedIsOwn' /\ ResolvedByOwnRun'
    BY <1>9 DEF PauseOrResume
  <1>10. ASSUME NEW w \in Workflows, NEW o \in Ordinals, CancelActivity(w, o)
         PROVE  RetainedIsOwn' /\ ResolvedByOwnRun'
    BY <1>10 DEF CancelActivity, Unlocked, Now
  <1>11. CASE Claim
    BY <1>11 DEF Claim, claim_outbox_rows, Row, claim_outbox_rows_excluding, Claimable
  <1>12. ASSUME NEW c \in batch, BeginDispatch(c) PROVE RetainedIsOwn' /\ ResolvedByOwnRun'
    BY <1>12 DEF BeginDispatch
  <1>13. ASSUME NEW c \in current, Push(c) PROVE RetainedIsOwn' /\ ResolvedByOwnRun'
    BY <1>13 DEF Push, TaskOf
  <1>14. ASSUME NEW c \in current, Reply(c) PROVE RetainedIsOwn' /\ ResolvedByOwnRun'
    BY <1>14 DEF Reply, DeliverOutbox, TaskOf, outbox_delivery_pid
  <1>15. ASSUME NEW c \in current, NEW failure \in {"err", "lost"}, DispatchFails(c, failure)
         PROVE  RetainedIsOwn' /\ ResolvedByOwnRun'
    BY <1>15 DEF DispatchFails, TaskOf
  <1>16. ASSUME NEW c \in current, mark_done(c) PROVE RetainedIsOwn' /\ ResolvedByOwnRun'
    BY <1>16 DEF mark_done, Write, StoreFails, EndDispatch, complete_outbox_row, Row
  <1>17. ASSUME NEW c \in current, handle_dispatch_error(c)
         PROVE  RetainedIsOwn' /\ ResolvedByOwnRun'
    BY <1>17
       DEF handle_dispatch_error, Write, StoreFails, EndDispatch, Exhausted,
           fail_outbox_row, retry_outbox_row, Row
  <1>18. ASSUME NEW task \in tasks, NEW acked \in BOOLEAN, Report(task, acked)
         PROVE  RetainedIsOwn' /\ ResolvedByOwnRun'
    BY <1>18 DEF Report, DeliverOutbox, outbox_delivery_pid
  <1>19. ASSUME NEW task \in tasks, WorkerDies(task)
         PROVE  RetainedIsOwn' /\ ResolvedByOwnRun'
    BY <1>19 DEF WorkerDies
  <1>20. CASE ReconcilerList
    BY <1>20 DEF ReconcilerList
  <1>21. ASSUME NEW w \in Workflows, ReconcilerProbe(w)
         PROVE  RetainedIsOwn' /\ ResolvedByOwnRun'
    BY <1>21 DEF ReconcilerProbe, settle_cancelled, Row
  <1>22. CASE ReconcilerAborts
    BY <1>22 DEF ReconcilerAborts, StoreFails
  <1>23. CASE ReconcilerRearm
    BY <1>23 DEF ReconcilerRearm, rearm_stale_claimed, Row
  <1>24. CASE Crash
    BY <1>24 DEF Crash
  <1>25. CASE Boot
    BY <1>25 DEF Boot, StoreFails, settle_cancelled, Row
  <1>26. CASE UNCHANGED vars
    BY <1>26 DEF vars
  <1> HIDE DEF RowsKnowTheirRun, RetainedIsOwn, ResolvedByOwnRun, TypeOK, Keys, Runs,
               Claims, Rows, Tasks, history, engine, dispatcher, ghosts
  <1>27. QED
    BY <1>1, <1>2, <1>3, <1>4, <1>5, <1>6, <1>7, <1>8, <1>9, <1>10, <1>11, <1>12, <1>13,
       <1>14, <1>15, <1>16, <1>17, <1>18, <1>19, <1>20, <1>21, <1>22, <1>23, <1>24, <1>25,
       <1>26
       DEF Next, Process, Dispatch, Reconcile

\* One claim at a time, and a dead server hosts nothing.
LEMMA HostStep ==
    ASSUME TypeOK, HostIsTrue, [Next]_vars
    PROVE  HostIsTrue'
  <1> USE DEF HostIsTrue, TypeOK, history, engine, dispatcher, ghosts
  <1>1. ASSUME NEW k \in Keys, Tick(k) PROVE HostIsTrue'
    BY <1>1 DEF Tick
  <1>2. ASSUME NEW w \in Workflows, FirstArrival(w) PROVE HostIsTrue'
    BY <1>2
       DEF FirstArrival, Unlocked, record_fan_out_dispatch, RearmStale, Unscheduled,
           Unresolved, Now, insert_outbox_row, rearm_outbox_pending, Row
  <1>3. ASSUME NEW w \in Workflows, NEW o \in Ordinals, RecordCompletion(w, o)
        PROVE  HostIsTrue'
    BY <1>3 DEF RecordCompletion, Unlocked, Now
  <1>4. ASSUME NEW w \in Workflows, SettleRows(w) PROVE HostIsTrue'
    BY <1>4 DEF SettleRows, Write, StoreFails, settle_cancelled, Row
  <1>5. ASSUME NEW w \in Workflows, StopProcess(w) PROVE HostIsTrue'
    BY <1>5 DEF StopProcess, Unlocked, Terminal
  <1>6. ASSUME NEW w \in Workflows, Spawn(w) PROVE HostIsTrue'
    BY <1>6 DEF Spawn
  <1>7. ASSUME NEW w \in Workflows, RecordTerminal(w) PROVE HostIsTrue'
    BY <1>7 DEF RecordTerminal, Unlocked, Terminal
  <1>8. ASSUME NEW w \in Workflows, ContinueAsNew(w) PROVE HostIsTrue'
    BY <1>8 DEF ContinueAsNew, Unlocked
  <1>9. ASSUME NEW w \in Workflows, PauseOrResume(w) PROVE HostIsTrue'
    BY <1>9 DEF PauseOrResume
  <1>10. ASSUME NEW w \in Workflows, NEW o \in Ordinals, CancelActivity(w, o)
         PROVE  HostIsTrue'
    BY <1>10 DEF CancelActivity, Unlocked, Now
  <1>11. CASE Claim
    BY <1>11 DEF Claim, claim_outbox_rows, Row, claim_outbox_rows_excluding, Claimable
  <1>12. ASSUME NEW c \in batch, BeginDispatch(c) PROVE HostIsTrue'
    BY <1>12 DEF BeginDispatch
  <1>13. ASSUME NEW c \in current, Push(c) PROVE HostIsTrue'
    BY <1>13 DEF Push, TaskOf
  <1>14. ASSUME NEW c \in current, Reply(c) PROVE HostIsTrue'
    BY <1>14 DEF Reply, DeliverOutbox, TaskOf, outbox_delivery_pid
  <1>15. ASSUME NEW c \in current, NEW failure \in {"err", "lost"}, DispatchFails(c, failure)
         PROVE  HostIsTrue'
    BY <1>15 DEF DispatchFails, TaskOf
  <1>16. ASSUME NEW c \in current, mark_done(c) PROVE HostIsTrue'
    BY <1>16 DEF mark_done, Write, StoreFails, EndDispatch, complete_outbox_row, Row
  <1>17. ASSUME NEW c \in current, handle_dispatch_error(c) PROVE HostIsTrue'
    BY <1>17
       DEF handle_dispatch_error, Write, StoreFails, EndDispatch, Exhausted,
           fail_outbox_row, retry_outbox_row, Row
  <1>18. ASSUME NEW task \in tasks, NEW acked \in BOOLEAN, Report(task, acked)
         PROVE  HostIsTrue'
    BY <1>18 DEF Report, DeliverOutbox, outbox_delivery_pid
  <1>19. ASSUME NEW task \in tasks, WorkerDies(task) PROVE HostIsTrue'
    BY <1>19 DEF WorkerDies
  <1>20. CASE ReconcilerList
    BY <1>20 DEF ReconcilerList
  <1>21. ASSUME NEW w \in Workflows, ReconcilerProbe(w) PROVE HostIsTrue'
    BY <1>21 DEF ReconcilerProbe, settle_cancelled, Row
  <1>22. CASE ReconcilerAborts
    BY <1>22 DEF ReconcilerAborts, StoreFails
  <1>23. CASE ReconcilerRearm
    BY <1>23 DEF ReconcilerRearm, rearm_stale_claimed, Row
  <1>24. CASE Crash
    BY <1>24 DEF Crash
  <1>25. CASE Boot
    BY <1>25 DEF Boot, StoreFails, settle_cancelled, Row
  <1>26. CASE UNCHANGED vars
    BY <1>26 DEF vars
  <1> HIDE DEF HostIsTrue, TypeOK, history, engine, dispatcher, ghosts
  <1>27. QED
    BY <1>1, <1>2, <1>3, <1>4, <1>5, <1>6, <1>7, <1>8, <1>9, <1>10, <1>11, <1>12, <1>13,
       <1>14, <1>15, <1>16, <1>17, <1>18, <1>19, <1>20, <1>21, <1>22, <1>23, <1>24, <1>25,
       <1>26
       DEF Next, Process, Dispatch, Reconcile

\* Nothing of a settled workflow comes back.
LEMMA BuriedStep ==
    ASSUME TypeOK, RowsKnowTheirRun, HostIsTrue, BuriedIsOver, BuriedStaysBuried,
           [Next]_vars
    PROVE  BuriedIsOver' /\ BuriedStaysBuried'
  <1> USE DEF RowsKnowTheirRun, HostIsTrue, BuriedIsOver, BuriedStaysBuried, Terminal,
              InFlight, TypeOK, Keys, Runs, Claims, Rows, history, engine, dispatcher,
              ghosts
  <1>1. ASSUME NEW k \in Keys, Tick(k) PROVE BuriedIsOver' /\ BuriedStaysBuried'
    BY <1>1 DEF Tick
  <1>2. ASSUME NEW w \in Workflows, FirstArrival(w)
        PROVE  BuriedIsOver' /\ BuriedStaysBuried'
    <2>1. w \notin buried /\ UNCHANGED <<status, live, batch, current, buried>>
      BY <1>2 DEF FirstArrival, Unlocked
    <2>2. \A k \in Keys : k[1] # w => rows'[k] = rows[k]
      <3>1. CASE record_fan_out_dispatch(w)
        BY <3>1 DEF record_fan_out_dispatch, insert_outbox_row
      <3>2. CASE RearmStale(w)
        BY <3>2 DEF RearmStale, rearm_outbox_pending
      <3>3. QED
        BY <1>2, <3>1, <3>2 DEF FirstArrival
    <2>3. \A v \in buried, o \in Ordinals : rows'[<<v, o>>] = rows[<<v, o>>]
      BY <2>1, <2>2
    <2>4. QED
      BY <2>1, <2>3
  <1>3. ASSUME NEW w \in Workflows, NEW o \in Ordinals, RecordCompletion(w, o)
        PROVE  BuriedIsOver' /\ BuriedStaysBuried'
    BY <1>3 DEF RecordCompletion, Unlocked, Now
  <1>4. ASSUME NEW w \in Workflows, SettleRows(w) PROVE BuriedIsOver' /\ BuriedStaysBuried'
    BY <1>4 DEF SettleRows, Write, StoreFails, settle_cancelled, Row
  <1>5. ASSUME NEW w \in Workflows, StopProcess(w) PROVE BuriedIsOver' /\ BuriedStaysBuried'
    BY <1>5 DEF StopProcess, Unlocked
  <1>6. ASSUME NEW w \in Workflows, Spawn(w) PROVE BuriedIsOver' /\ BuriedStaysBuried'
    BY <1>6 DEF Spawn
  <1>7. ASSUME NEW w \in Workflows, RecordTerminal(w)
        PROVE  BuriedIsOver' /\ BuriedStaysBuried'
    BY <1>7 DEF RecordTerminal, Unlocked
  <1>8. ASSUME NEW w \in Workflows, ContinueAsNew(w)
        PROVE  BuriedIsOver' /\ BuriedStaysBuried'
    BY <1>8 DEF ContinueAsNew, Unlocked
  <1>9. ASSUME NEW w \in Workflows, PauseOrResume(w)
        PROVE  BuriedIsOver' /\ BuriedStaysBuried'
    BY <1>9 DEF PauseOrResume
  <1>10. ASSUME NEW w \in Workflows, NEW o \in Ordinals, CancelActivity(w, o)
         PROVE  BuriedIsOver' /\ BuriedStaysBuried'
    BY <1>10 DEF CancelActivity, Unlocked, Now
  <1>11. CASE Claim
    BY <1>11 DEF Claim, claim_outbox_rows, Row, claim_outbox_rows_excluding, Claimable
  <1>12. ASSUME NEW c \in batch, BeginDispatch(c) PROVE BuriedIsOver' /\ BuriedStaysBuried'
    BY <1>12 DEF BeginDispatch
  <1>13. ASSUME NEW c \in current, Push(c) PROVE BuriedIsOver' /\ BuriedStaysBuried'
    BY <1>13 DEF Push, TaskOf
  <1>14. ASSUME NEW c \in current, Reply(c) PROVE BuriedIsOver' /\ BuriedStaysBuried'
    BY <1>14 DEF Reply, DeliverOutbox, TaskOf, outbox_delivery_pid
  <1>15. ASSUME NEW c \in current, NEW failure \in {"err", "lost"}, DispatchFails(c, failure)
         PROVE  BuriedIsOver' /\ BuriedStaysBuried'
    BY <1>15 DEF DispatchFails, TaskOf
  <1>16. ASSUME NEW c \in current, mark_done(c) PROVE BuriedIsOver' /\ BuriedStaysBuried'
    <2>1. /\ c.key[1] \notin buried /\ UNCHANGED <<status, live, batch, buried>>
          /\ current' = {}
      BY <1>16 DEF mark_done, EndDispatch
    <2>2. c.key \in Keys /\ \A k \in Keys : k # c.key => rows'[k] = rows[k]
      BY <1>16 DEF mark_done, Write, complete_outbox_row
    <2>3. \A v \in buried, o \in Ordinals : rows'[<<v, o>>] = rows[<<v, o>>]
      <3> SUFFICES ASSUME NEW v \in buried, NEW o \in Ordinals
                   PROVE  rows'[<<v, o>>] = rows[<<v, o>>]
        OBVIOUS
      <3>1. <<v, o>> \in Keys /\ <<v, o>> # c.key
        BY <2>1
      <3>2. QED
        BY <2>2, <3>1
    <2>4. QED
      BY <2>1, <2>3
  <1>17. ASSUME NEW c \in current, handle_dispatch_error(c)
         PROVE  BuriedIsOver' /\ BuriedStaysBuried'
    BY <1>17
       DEF handle_dispatch_error, Write, StoreFails, EndDispatch, Exhausted,
           fail_outbox_row, retry_outbox_row, Row
  <1>18. ASSUME NEW task \in tasks, NEW acked \in BOOLEAN, Report(task, acked)
         PROVE  BuriedIsOver' /\ BuriedStaysBuried'
    BY <1>18 DEF Report, DeliverOutbox, outbox_delivery_pid
  <1>19. ASSUME NEW task \in tasks, WorkerDies(task)
         PROVE  BuriedIsOver' /\ BuriedStaysBuried'
    BY <1>19 DEF WorkerDies
  <1>20. CASE ReconcilerList
    BY <1>20 DEF ReconcilerList
  <1>21. ASSUME NEW w \in Workflows, ReconcilerProbe(w)
         PROVE  BuriedIsOver' /\ BuriedStaysBuried'
    BY <1>21 DEF ReconcilerProbe, settle_cancelled, Row
  <1>22. CASE ReconcilerAborts
    BY <1>22 DEF ReconcilerAborts, StoreFails
  <1>23. CASE ReconcilerRearm
    BY <1>23 DEF ReconcilerRearm, rearm_stale_claimed, Row
  <1>24. CASE Crash
    BY <1>24 DEF Crash
  <1>25. CASE Boot
    <2>1. UNCHANGED <<status, batch, current>> /\ batch = {} /\ current = {}
      BY <1>25 DEF Boot
    <2>2. live' = {w \in Workflows : status[w] = "Running"}
      BY <1>25 DEF Boot
    <2>3. CASE rows' = settle_cancelled(rows, SettledAtBoot \X Ordinals)
               /\ buried' = {w \in Workflows : Terminal(w)}
      <3>1. \A w \in buried', o \in Ordinals : rows'[<<w, o>>].status \notin InFlight
        BY <2>3 DEF settle_cancelled, SettledAtBoot, Row
      <3>2. QED
        BY <2>1, <2>2, <2>3, <3>1
    <2>4. CASE UNCHANGED <<rows, buried>>
      BY <2>1, <2>2, <2>4
    <2>5. QED
      BY <1>25, <2>3, <2>4 DEF Boot
  <1>26. CASE UNCHANGED vars
    BY <1>26 DEF vars
  <1> HIDE DEF RowsKnowTheirRun, HostIsTrue, BuriedIsOver, BuriedStaysBuried, Terminal,
               InFlight, TypeOK, Keys, Runs, Claims, Rows, history, engine, dispatcher,
               ghosts
  <1>27. QED
    BY <1>1, <1>2, <1>3, <1>4, <1>5, <1>6, <1>7, <1>8, <1>9, <1>10, <1>11, <1>12, <1>13,
       <1>14, <1>15, <1>16, <1>17, <1>18, <1>19, <1>20, <1>21, <1>22, <1>23, <1>24, <1>25,
       <1>26
       DEF Next, Process, Dispatch, Reconcile

\* The invariant holds at the start and in every step.
LEMMA IInvInit == Init => IInv
  <1> SUFFICES ASSUME Init PROVE IInv
    OBVIOUS
  <1> USE DEF Init
  <1>1. NoRow \in Rows
    <2>1. 0 \in 0 .. (MaxAttempts - 1) /\ 0 \in 0 .. MaxRuns /\ FALSE \in BOOLEAN
      OBVIOUS
    <2>2. QED
      BY <2>1, RowType DEF NoRow
  <1>2. NoSweep \in [at : {"idle", "probe"}, stale : SUBSET Keys,
                     listed : SUBSET Keys, todo : SUBSET Workflows]
    BY DEF NoSweep
  <1>3. Free \in [at : {"free", "settle"}, ordinals : SUBSET Ordinals]
    BY DEF Free
  <1>4. up \in BOOLEAN
    OBVIOUS
  <1>5. TypeOK
    BY <1>1, <1>2, <1>3, <1>4, BoundsAssumption DEF TypeOK, Runs
  <1>6. RowsKnowTheirRun
    BY DEF RowsKnowTheirRun, NoRow, Row, Keys
  <1>7. RetainedIsOwn /\ ResolvedByOwnRun
    BY DEF RetainedIsOwn, ResolvedByOwnRun
  <1>8. BuriedIsOver /\ BuriedStaysBuried
    BY DEF BuriedIsOver, BuriedStaysBuried
  <1>9. HostIsTrue
    BY DEF HostIsTrue
  <1>10. QED
    BY <1>5, <1>6, <1>7, <1>8, <1>9 DEF IInv

LEMMA IInvStep == IInv /\ [Next]_vars => IInv'
  <1> SUFFICES ASSUME IInv, [Next]_vars PROVE IInv'
    OBVIOUS
  <1> USE DEF IInv
  <1>1. TypeOK'
    BY RowsStep, TypeStep DEF RowsType, RestType, TypeOK
  <1>2. RowsKnowTheirRun' /\ RetainedIsOwn' /\ ResolvedByOwnRun'
    BY RowsKnowStep, RetainedStep
  <1>3. HostIsTrue' /\ BuriedIsOver' /\ BuriedStaysBuried'
    BY HostStep, BuriedStep
  <1>4. QED
    BY <1>1, <1>2, <1>3

\* Over either transport, with results re-reported and late ones of a superseded run still on
\* their way: a completion recorded in a run was produced by a task of that run.
THEOREM CompletionsAreOwn == Spec => []ResolvedByOwnRun
  <1>1. IInv => ResolvedByOwnRun
    BY DEF IInv
  <1>2. QED
    BY IInvInit, IInvStep, <1>1, PTL DEF Spec

\* A workflow whose rows the boot sweep retired has no row that could be claimed, whatever the
\* dispatcher, the reconciler and the other workflows do until the next crash.
THEOREM BuriedForGood == Spec => []BuriedStaysBuried
  <1>1. IInv => BuriedStaysBuried
    BY DEF IInv
  <1>2. QED
    BY IInvInit, IInvStep, <1>1, PTL DEF Spec

-----------------------------------------------------------------------------

\* The first run stages all of its members or none.
LEMMA TogetherStep ==
    ASSUME TypeOK, RowsKnowTheirRun, StagedTogether, [Next]_vars
    PROVE  StagedTogether'
  <1> USE DEF RowsKnowTheirRun, StagedTogether, TypeOK, Keys, Runs, Claims, Rows, history,
              engine, dispatcher, ghosts
  <1>1. ASSUME NEW k \in Keys, Tick(k) PROVE StagedTogether'
    BY <1>1 DEF Tick
  <1>2. ASSUME NEW w \in Workflows, FirstArrival(w) PROVE StagedTogether'
    <2>1. CASE record_fan_out_dispatch(w)
      <3>1. UNCHANGED run /\ 1 \in Runs
        BY <1>2 DEF FirstArrival
      <3>2. \A v \in Workflows, q \in Ordinals : <<v, 1, q>> \in Workflows \X Runs \X Ordinals
        BY <3>1
      <3>3. \A q \in Ordinals : run[w] = 1 => activity'[<<w, 1, q>>] # "None"
        BY <2>1, <3>1, <3>2 DEF record_fan_out_dispatch
      <3>4. \A v \in Workflows, q \in Ordinals :
                v # w => /\ activity'[<<v, 1, q>>] = activity[<<v, 1, q>>]
                         /\ rows'[<<v, q>>] = rows[<<v, q>>]
        BY <2>1, <3>2 DEF record_fan_out_dispatch, insert_outbox_row
      <3> HIDE DEF TypeOK, RowsKnowTheirRun, Rows, Claims, Runs, Keys
      <3>5. ASSUME NEW v \in Workflows, run'[v] = 1, NEW q \in Ordinals,
                    activity'[<<v, 1, q>>] = "None"
            PROVE  /\ \A u \in Ordinals : activity'[<<v, 1, u>>] = "None"
                   /\ rows'[<<v, q>>].status = "absent"
        <4>1. v # w /\ run[v] = 1
          BY <3>1, <3>3, <3>5
        <4>2. activity[<<v, 1, q>>] = "None"
          BY <3>4, <3>5, <4>1
        <4>3. \A u \in Ordinals : activity[<<v, 1, u>>] = "None"
          BY <4>1, <4>2
        <4>4. rows[<<v, q>>].status = "absent"
          BY <4>1, <4>2
        <4>5. QED
          BY <3>4, <4>1, <4>3, <4>4
      <3>6. QED
        BY <3>5
    <2>2. CASE RearmStale(w)
      <3>1. \A k \in ({w} \X Unresolved(w)) \cap Keys : rows[k].status # "absent"
        BY DEF Unresolved, Now
      <3>2. SameRows(rows, rows')
        BY <2>2, <3>1, TablesKeep DEF RearmStale
      <3>3. UNCHANGED <<run, activity>>
        BY <1>2, <2>2 DEF FirstArrival, RearmStale
      <3>4. QED
        BY <3>2, <3>3 DEF SameRows
    <2>3. QED
      BY <1>2, <2>1, <2>2 DEF FirstArrival
  <1>3. ASSUME NEW w \in Workflows, NEW o \in Ordinals, RecordCompletion(w, o)
        PROVE  StagedTogether'
    BY <1>3 DEF RecordCompletion, Unlocked, Now
  <1>4. ASSUME NEW w \in Workflows, SettleRows(w) PROVE StagedTogether'
    <2>1. SameRows(rows, rows')
      <3>1. rows \in [Keys -> Rows]
        OBVIOUS
      <3> HIDE DEF TypeOK, RowsKnowTheirRun, StagedTogether, Keys, Rows, Claims, Runs
      <3>2. SameRows(rows, rows)
        BY DEF SameRows
      <3>3. QED
        BY <1>4, <3>1, <3>2, TablesKeep DEF SettleRows, Write
    <2>2. UNCHANGED <<run, activity>>
      BY <1>4 DEF SettleRows
    <2>3. QED
      BY <2>1, <2>2 DEF SameRows
  <1>5. ASSUME NEW w \in Workflows, StopProcess(w) PROVE StagedTogether'
    BY <1>5 DEF StopProcess, Unlocked, Terminal
  <1>6. ASSUME NEW w \in Workflows, Spawn(w) PROVE StagedTogether'
    BY <1>6 DEF Spawn
  <1>7. ASSUME NEW w \in Workflows, RecordTerminal(w) PROVE StagedTogether'
    BY <1>7 DEF RecordTerminal, Unlocked, Terminal
  <1>8. ASSUME NEW w \in Workflows, ContinueAsNew(w) PROVE StagedTogether'
    BY <1>8 DEF ContinueAsNew, Unlocked
  <1>9. ASSUME NEW w \in Workflows, PauseOrResume(w) PROVE StagedTogether'
    BY <1>9 DEF PauseOrResume
  <1>10. ASSUME NEW w \in Workflows, NEW o \in Ordinals, CancelActivity(w, o)
         PROVE  StagedTogether'
    BY <1>10 DEF CancelActivity, Unlocked, Now
  <1>11. CASE Claim
    BY <1>11 DEF Claim, claim_outbox_rows, Row, claim_outbox_rows_excluding, Claimable
  <1>12. ASSUME NEW c \in batch, BeginDispatch(c) PROVE StagedTogether'
    BY <1>12 DEF BeginDispatch
  <1>13. ASSUME NEW c \in current, Push(c) PROVE StagedTogether'
    BY <1>13 DEF Push, TaskOf
  <1>14. ASSUME NEW c \in current, Reply(c) PROVE StagedTogether'
    BY <1>14 DEF Reply, DeliverOutbox, TaskOf, outbox_delivery_pid
  <1>15. ASSUME NEW c \in current, NEW failure \in {"err", "lost"}, DispatchFails(c, failure)
         PROVE  StagedTogether'
    BY <1>15 DEF DispatchFails, TaskOf
  <1>16. ASSUME NEW c \in current, mark_done(c) PROVE StagedTogether'
    <2>1. SameRows(rows, rows')
      <3>1. rows \in [Keys -> Rows] /\ c.key \in Keys /\ rows[c.key].status # "absent"
        OBVIOUS
      <3> HIDE DEF TypeOK, RowsKnowTheirRun, StagedTogether, Keys, Rows, Claims, Runs
      <3>2. SameRows(rows, rows)
        BY DEF SameRows
      <3>3. QED
        BY <1>16, <3>1, <3>2, RowKeeps DEF mark_done, Write
    <2>2. UNCHANGED <<run, activity>>
      BY <1>16 DEF mark_done
    <2>3. QED
      BY <2>1, <2>2 DEF SameRows
  <1>17. ASSUME NEW c \in current, handle_dispatch_error(c) PROVE StagedTogether'
    <2>1. SameRows(rows, rows')
      <3>1. rows \in [Keys -> Rows] /\ c.key \in Keys /\ rows[c.key].status # "absent"
        OBVIOUS
      <3> HIDE DEF TypeOK, RowsKnowTheirRun, StagedTogether, Keys, Rows, Claims, Runs
      <3>2. SameRows(rows, rows)
        BY DEF SameRows
      <3>3. QED
        BY <1>17, <3>1, <3>2, RowKeeps DEF handle_dispatch_error, Write
    <2>2. UNCHANGED <<run, activity>>
      BY <1>17 DEF handle_dispatch_error
    <2>3. QED
      BY <2>1, <2>2 DEF SameRows
  <1>18. ASSUME NEW task \in tasks, NEW acked \in BOOLEAN, Report(task, acked)
         PROVE  StagedTogether'
    BY <1>18 DEF Report, DeliverOutbox, outbox_delivery_pid
  <1>19. ASSUME NEW task \in tasks, WorkerDies(task) PROVE StagedTogether'
    BY <1>19 DEF WorkerDies
  <1>20. CASE ReconcilerList
    BY <1>20 DEF ReconcilerList
  <1>21. ASSUME NEW w \in Workflows, ReconcilerProbe(w) PROVE StagedTogether'
    <2>1. SameRows(rows, rows')
      <3>1. rows \in [Keys -> Rows]
        OBVIOUS
      <3> HIDE DEF TypeOK, RowsKnowTheirRun, StagedTogether, Keys, Rows, Claims, Runs
      <3>2. SameRows(rows, rows)
        BY DEF SameRows
      <3>3. QED
        BY <1>21, <3>1, <3>2, TablesKeep DEF ReconcilerProbe
    <2>2. UNCHANGED <<run, activity>>
      BY <1>21 DEF ReconcilerProbe
    <2>3. QED
      BY <2>1, <2>2 DEF SameRows
  <1>22. CASE ReconcilerAborts
    BY <1>22 DEF ReconcilerAborts, StoreFails
  <1>23. CASE ReconcilerRearm
    <2>1. SameRows(rows, rows')
      <3>1. rows \in [Keys -> Rows]
        OBVIOUS
      <3> HIDE DEF TypeOK, RowsKnowTheirRun, StagedTogether, Keys, Rows, Claims, Runs
      <3>2. SameRows(rows, rows)
        BY DEF SameRows
      <3>3. QED
        BY <1>23, <3>1, <3>2, TablesKeep DEF ReconcilerRearm
    <2>2. UNCHANGED <<run, activity>>
      BY <1>23 DEF ReconcilerRearm
    <2>3. QED
      BY <2>1, <2>2 DEF SameRows
  <1>24. CASE Crash
    BY <1>24 DEF Crash
  <1>25. CASE Boot
    <2>1. SameRows(rows, rows')
      <3>1. rows \in [Keys -> Rows]
        OBVIOUS
      <3> HIDE DEF TypeOK, RowsKnowTheirRun, StagedTogether, Keys, Rows, Claims, Runs
      <3>2. SameRows(rows, rows)
        BY DEF SameRows
      <3>3. QED
        BY <1>25, <3>1, <3>2, TablesKeep DEF Boot
    <2>2. UNCHANGED <<run, activity>>
      BY <1>25 DEF Boot
    <2>3. QED
      BY <2>1, <2>2 DEF SameRows
  <1>26. CASE UNCHANGED vars
    BY <1>26 DEF vars
  <1> HIDE DEF RowsKnowTheirRun, StagedTogether, TypeOK, Keys, Runs, Claims, Rows, history,
               engine, dispatcher, ghosts
  <1>27. QED
    BY <1>1, <1>2, <1>3, <1>4, <1>5, <1>6, <1>7, <1>8, <1>9, <1>10, <1>11, <1>12, <1>13,
       <1>14, <1>15, <1>16, <1>17, <1>18, <1>19, <1>20, <1>21, <1>22, <1>23, <1>24, <1>25,
       <1>26
       DEF Next, Process, Dispatch, Reconcile

\* The first run of a workflow that nobody pauses is resident.
LEMMA FirstRunStep ==
    ASSUME TypeOK, FirstRunIsLive, Pausable = {}, [Next]_vars
    PROVE  FirstRunIsLive'
  <1> USE DEF FirstRunIsLive, TypeOK, history, engine, dispatcher, ghosts
  <1>1. ASSUME NEW k \in Keys, Tick(k) PROVE FirstRunIsLive'
    BY <1>1 DEF Tick
  <1>2. ASSUME NEW w \in Workflows, FirstArrival(w) PROVE FirstRunIsLive'
    BY <1>2
       DEF FirstArrival, Unlocked, record_fan_out_dispatch, RearmStale, Unscheduled,
           Unresolved, Now, insert_outbox_row, rearm_outbox_pending, Row
  <1>3. ASSUME NEW w \in Workflows, NEW o \in Ordinals, RecordCompletion(w, o)
        PROVE  FirstRunIsLive'
    BY <1>3 DEF RecordCompletion, Unlocked, Now
  <1>4. ASSUME NEW w \in Workflows, SettleRows(w) PROVE FirstRunIsLive'
    BY <1>4 DEF SettleRows, Write, StoreFails, settle_cancelled, Row
  <1>5. ASSUME NEW w \in Workflows, StopProcess(w) PROVE FirstRunIsLive'
    BY <1>5 DEF StopProcess, Unlocked, Terminal
  <1>6. ASSUME NEW w \in Workflows, Spawn(w) PROVE FirstRunIsLive'
    BY <1>6 DEF Spawn
  <1>7. ASSUME NEW w \in Workflows, RecordTerminal(w) PROVE FirstRunIsLive'
    BY <1>7 DEF RecordTerminal, Unlocked, Terminal
  <1>8. ASSUME NEW w \in Workflows, ContinueAsNew(w) PROVE FirstRunIsLive'
    <2>1. run'[w] # 1 /\ UNCHANGED <<status, up>>
      BY <1>8 DEF ContinueAsNew, Runs
    <2>2. \A v \in Workflows : v # w => run'[v] = run[v] /\ (v \in live' <=> v \in live)
      BY <1>8 DEF ContinueAsNew
    <2>3. QED
      BY <2>1, <2>2
  <1>9. ASSUME NEW w \in Workflows, PauseOrResume(w) PROVE FirstRunIsLive'
    BY <1>9 DEF PauseOrResume
  <1>10. ASSUME NEW w \in Workflows, NEW o \in Ordinals, CancelActivity(w, o)
         PROVE  FirstRunIsLive'
    BY <1>10 DEF CancelActivity, Unlocked, Now
  <1>11. CASE Claim
    BY <1>11 DEF Claim, claim_outbox_rows, Row, claim_outbox_rows_excluding, Claimable
  <1>12. ASSUME NEW c \in batch, BeginDispatch(c) PROVE FirstRunIsLive'
    BY <1>12 DEF BeginDispatch
  <1>13. ASSUME NEW c \in current, Push(c) PROVE FirstRunIsLive'
    BY <1>13 DEF Push, TaskOf
  <1>14. ASSUME NEW c \in current, Reply(c) PROVE FirstRunIsLive'
    BY <1>14 DEF Reply, DeliverOutbox, TaskOf, outbox_delivery_pid
  <1>15. ASSUME NEW c \in current, NEW failure \in {"err", "lost"}, DispatchFails(c, failure)
         PROVE  FirstRunIsLive'
    BY <1>15 DEF DispatchFails, TaskOf
  <1>16. ASSUME NEW c \in current, mark_done(c) PROVE FirstRunIsLive'
    BY <1>16 DEF mark_done, Write, StoreFails, EndDispatch, complete_outbox_row, Row
  <1>17. ASSUME NEW c \in current, handle_dispatch_error(c) PROVE FirstRunIsLive'
    BY <1>17
       DEF handle_dispatch_error, Write, StoreFails, EndDispatch, Exhausted,
           fail_outbox_row, retry_outbox_row, Row
  <1>18. ASSUME NEW task \in tasks, NEW acked \in BOOLEAN, Report(task, acked)
         PROVE  FirstRunIsLive'
    BY <1>18 DEF Report, DeliverOutbox, outbox_delivery_pid
  <1>19. ASSUME NEW task \in tasks, WorkerDies(task) PROVE FirstRunIsLive'
    BY <1>19 DEF WorkerDies
  <1>20. CASE ReconcilerList
    BY <1>20 DEF ReconcilerList
  <1>21. ASSUME NEW w \in Workflows, ReconcilerProbe(w) PROVE FirstRunIsLive'
    BY <1>21 DEF ReconcilerProbe, settle_cancelled, Row
  <1>22. CASE ReconcilerAborts
    BY <1>22 DEF ReconcilerAborts, StoreFails
  <1>23. CASE ReconcilerRearm
    BY <1>23 DEF ReconcilerRearm, rearm_stale_claimed, Row
  <1>24. CASE Crash
    BY <1>24 DEF Crash
  <1>25. CASE Boot
    BY <1>25 DEF Boot, StoreFails, settle_cancelled, Row
  <1>26. CASE UNCHANGED vars
    BY <1>26 DEF vars
  <1> HIDE DEF FirstRunIsLive, TypeOK, history, engine, dispatcher, ghosts
  <1>27. QED
    BY <1>1, <1>2, <1>3, <1>4, <1>5, <1>6, <1>7, <1>8, <1>9, <1>10, <1>11, <1>12, <1>13,
       <1>14, <1>15, <1>16, <1>17, <1>18, <1>19, <1>20, <1>21, <1>22, <1>23, <1>24, <1>25,
       <1>26
       DEF Next, Process, Dispatch, Reconcile

\* Who settles has appended first.
LEMMA SettlesStep ==
    ASSUME TypeOK, HostIsTrue, SettlesTheSettled, [Next]_vars
    PROVE  SettlesTheSettled'
  <1> USE DEF SettlesTheSettled, Terminal, Now, Free, Unlocked, Runs, TypeOK, history,
              engine, dispatcher, ghosts
  <1>1. ASSUME NEW k \in Keys, Tick(k) PROVE SettlesTheSettled'
    BY <1>1 DEF Tick
  <1>2. ASSUME NEW w \in Workflows, FirstArrival(w) PROVE SettlesTheSettled'
    BY <1>2
       DEF FirstArrival, record_fan_out_dispatch, RearmStale, Unscheduled, Unresolved,
           insert_outbox_row, rearm_outbox_pending, Row
  <1>3. ASSUME NEW w \in Workflows, NEW o \in Ordinals, RecordCompletion(w, o)
        PROVE  SettlesTheSettled'
    BY <1>3 DEF RecordCompletion
  <1>4. ASSUME NEW w \in Workflows, SettleRows(w) PROVE SettlesTheSettled'
    BY <1>4 DEF SettleRows, Write, StoreFails, settle_cancelled, Row
  <1>5. ASSUME NEW w \in Workflows, StopProcess(w) PROVE SettlesTheSettled'
    BY <1>5 DEF StopProcess
  <1>6. ASSUME NEW w \in Workflows, Spawn(w) PROVE SettlesTheSettled'
    BY <1>6 DEF Spawn
  <1>7. ASSUME NEW w \in Workflows, RecordTerminal(w) PROVE SettlesTheSettled'
    BY <1>7 DEF RecordTerminal
  <1>8. ASSUME NEW w \in Workflows, ContinueAsNew(w) PROVE SettlesTheSettled'
    BY <1>8 DEF ContinueAsNew
  <1>9. ASSUME NEW w \in Workflows, PauseOrResume(w) PROVE SettlesTheSettled'
    BY <1>9 DEF PauseOrResume
  <1>10. ASSUME NEW w \in Workflows, NEW o \in Ordinals, CancelActivity(w, o)
         PROVE  SettlesTheSettled'
    BY <1>10 DEF CancelActivity
  <1>11. CASE Claim
    BY <1>11 DEF Claim, claim_outbox_rows, Row, claim_outbox_rows_excluding, Claimable
  <1>12. ASSUME NEW c \in batch, BeginDispatch(c) PROVE SettlesTheSettled'
    BY <1>12 DEF BeginDispatch
  <1>13. ASSUME NEW c \in current, Push(c) PROVE SettlesTheSettled'
    BY <1>13 DEF Push, TaskOf
  <1>14. ASSUME NEW c \in current, Reply(c) PROVE SettlesTheSettled'
    BY <1>14 DEF Reply, DeliverOutbox, TaskOf, outbox_delivery_pid
  <1>15. ASSUME NEW c \in current, NEW failure \in {"err", "lost"}, DispatchFails(c, failure)
         PROVE  SettlesTheSettled'
    BY <1>15 DEF DispatchFails, TaskOf
  <1>16. ASSUME NEW c \in current, mark_done(c) PROVE SettlesTheSettled'
    BY <1>16 DEF mark_done, Write, StoreFails, EndDispatch, complete_outbox_row, Row
  <1>17. ASSUME NEW c \in current, handle_dispatch_error(c) PROVE SettlesTheSettled'
    BY <1>17
       DEF handle_dispatch_error, Write, StoreFails, EndDispatch, Exhausted,
           fail_outbox_row, retry_outbox_row, Row
  <1>18. ASSUME NEW task \in tasks, NEW acked \in BOOLEAN, Report(task, acked)
         PROVE  SettlesTheSettled'
    BY <1>18 DEF Report, DeliverOutbox, outbox_delivery_pid
  <1>19. ASSUME NEW task \in tasks, WorkerDies(task) PROVE SettlesTheSettled'
    BY <1>19 DEF WorkerDies
  <1>20. CASE ReconcilerList
    BY <1>20 DEF ReconcilerList
  <1>21. ASSUME NEW w \in Workflows, ReconcilerProbe(w) PROVE SettlesTheSettled'
    BY <1>21 DEF ReconcilerProbe, settle_cancelled, Row
  <1>22. CASE ReconcilerAborts
    BY <1>22 DEF ReconcilerAborts, StoreFails
  <1>23. CASE ReconcilerRearm
    BY <1>23 DEF ReconcilerRearm, rearm_stale_claimed, Row
  <1>24. CASE Crash
    BY <1>24 DEF Crash
  <1>25. CASE Boot
    BY <1>25 DEF Boot, StoreFails, settle_cancelled, Row
  <1>26. CASE UNCHANGED vars
    BY <1>26 DEF vars
  <1> HIDE DEF SettlesTheSettled, Terminal, Now, Free, Unlocked, Runs, TypeOK, history,
               engine, dispatcher, ghosts
  <1>27. QED
    BY <1>1, <1>2, <1>3, <1>4, <1>5, <1>6, <1>7, <1>8, <1>9, <1>10, <1>11, <1>12, <1>13,
       <1>14, <1>15, <1>16, <1>17, <1>18, <1>19, <1>20, <1>21, <1>22, <1>23, <1>24, <1>25,
       <1>26
       DEF Next, Process, Dispatch, Reconcile

\* A member of a first run that is waited for, and one whose outcome the runtime retains.
Waiting(w, o) == run[w] = 1 /\ activity[<<w, 1, o>>] = "Scheduled"
Retained(w, o) == \E r \in Runs : <<o, r>> \in retained[w]


\* Who waits behind a step waited before it, with its outcome still retained, or was staged.
LEMMA WaitingStep ==
    ASSUME TypeOK, NEW v \in live', v \in Workflows, NEW p \in Ordinals, Waiting(v, p)',
           [Next]_vars
    PROVE  \/ Waiting(v, p) /\ (Retained(v, p) => Retained(v, p)')
           \/ run[v] = 1 /\ activity[<<v, 1, p>>] = "None"
  <1> DEFINE Carried(w, o) == \/ Waiting(w, o) /\ (Retained(w, o) => Retained(w, o)')
                              \/ run[w] = 1 /\ activity[<<w, 1, o>>] = "None"
  <1> SUFFICES Carried(v, p)
    OBVIOUS
  <1> USE DEF Waiting, Retained, TypeOK, Runs, history, engine, dispatcher, ghosts
  <1>1. ASSUME NEW k \in Keys, Tick(k) PROVE Carried(v, p)
    BY <1>1 DEF Tick
  <1>2. ASSUME NEW w \in Workflows, FirstArrival(w) PROVE Carried(v, p)
    <2>1. UNCHANGED <<run, retained>> /\ 1 \in Runs
      BY <1>2 DEF FirstArrival
    <2>2. \/ activity' = activity
          \/ activity' = [a \in DOMAIN activity |->
                            IF a[1] = w /\ a[2] = run[w] /\ activity[a] = "None"
                            THEN "Scheduled" ELSE activity[a]]
      BY <1>2 DEF FirstArrival, record_fan_out_dispatch, RearmStale
    <2>3. <<v, 1, p>> \in DOMAIN activity
      BY <2>1
    <2>4. activity'[<<v, 1, p>>] = activity[<<v, 1, p>>] \/ activity[<<v, 1, p>>] = "None"
      BY <2>2, <2>3
    <2>5. QED
      BY <2>1, <2>4
  <1>3. ASSUME NEW w \in Workflows, NEW o \in Ordinals, RecordCompletion(w, o)
        PROVE  Carried(v, p)
    <2>1. UNCHANGED run /\ activity' = [activity EXCEPT ![Now(w, o)] = "Resolved"]
      BY <1>3 DEF RecordCompletion
    <2>2. <<w, run[w], o>> \in DOMAIN activity /\ run[v] = 1
      BY <2>1
    <2>3. ~(v = w /\ p = o) /\ activity[<<v, 1, p>>] = "Scheduled"
      BY <2>1, <2>2 DEF Now
    <2>4. PICK producer : retained' = [retained EXCEPT ![w] = @ \ {<<o, producer>>}]
      BY <1>3 DEF RecordCompletion
    <2>5. \A r \in Runs : <<p, r>> \in retained[v] => <<p, r>> \in retained'[v]
      BY <2>3, <2>4
    <2>6. QED
      BY <2>2, <2>3, <2>5
  <1>4. ASSUME NEW w \in Workflows, SettleRows(w) PROVE Carried(v, p)
    BY <1>4 DEF SettleRows, Write, StoreFails, settle_cancelled, Row
  <1>5. ASSUME NEW w \in Workflows, StopProcess(w) PROVE Carried(v, p)
    <2>1. v # w /\ UNCHANGED <<run, activity>> /\ retained'[v] = retained[v]
      BY <1>5 DEF StopProcess
    <2>2. QED
      BY <2>1
  <1>6. ASSUME NEW w \in Workflows, Spawn(w) PROVE Carried(v, p)
    BY <1>6 DEF Spawn
  <1>7. ASSUME NEW w \in Workflows, RecordTerminal(w) PROVE Carried(v, p)
    BY <1>7 DEF RecordTerminal, Unlocked, Terminal
  <1>8. ASSUME NEW w \in Workflows, ContinueAsNew(w) PROVE Carried(v, p)
    <2>1. v # w
      BY <1>8 DEF ContinueAsNew
    <2>2. run'[v] = run[v] /\ activity' = activity /\ retained'[v] = retained[v]
      BY <1>8, <2>1 DEF ContinueAsNew
    <2>3. QED
      BY <2>2
  <1>9. ASSUME NEW w \in Workflows, PauseOrResume(w) PROVE Carried(v, p)
    BY <1>9 DEF PauseOrResume
  <1>10. ASSUME NEW w \in Workflows, NEW o \in Ordinals, CancelActivity(w, o)
         PROVE  Carried(v, p)
    BY <1>10 DEF CancelActivity, Unlocked, Now
  <1>11. CASE Claim
    BY <1>11 DEF Claim, claim_outbox_rows, Row, claim_outbox_rows_excluding, Claimable
  <1>12. ASSUME NEW c \in batch, BeginDispatch(c) PROVE Carried(v, p)
    BY <1>12 DEF BeginDispatch
  <1>13. ASSUME NEW c \in current, Push(c) PROVE Carried(v, p)
    BY <1>13 DEF Push, TaskOf
  <1>14. ASSUME NEW c \in current, Reply(c) PROVE Carried(v, p)
    <2>1. UNCHANGED <<run, activity>>
           /\ \A r \in Runs : <<p, r>> \in retained[v] => <<p, r>> \in retained'[v]
      BY <1>14 DEF Reply, DeliverOutbox
    <2>2. QED
      BY <2>1
  <1>15. ASSUME NEW c \in current, NEW failure \in {"err", "lost"}, DispatchFails(c, failure)
         PROVE  Carried(v, p)
    BY <1>15 DEF DispatchFails, TaskOf
  <1>16. ASSUME NEW c \in current, mark_done(c) PROVE Carried(v, p)
    BY <1>16 DEF mark_done, Write, StoreFails, EndDispatch, complete_outbox_row, Row
  <1>17. ASSUME NEW c \in current, handle_dispatch_error(c) PROVE Carried(v, p)
    BY <1>17
       DEF handle_dispatch_error, Write, StoreFails, EndDispatch, Exhausted,
           fail_outbox_row, retry_outbox_row, Row
  <1>18. ASSUME NEW task \in tasks, NEW acked \in BOOLEAN, Report(task, acked)
         PROVE  Carried(v, p)
    <2>1. UNCHANGED <<run, activity>>
           /\ \A r \in Runs : <<p, r>> \in retained[v] => <<p, r>> \in retained'[v]
      BY <1>18 DEF Report, DeliverOutbox
    <2>2. QED
      BY <2>1
  <1>19. ASSUME NEW task \in tasks, WorkerDies(task) PROVE Carried(v, p)
    BY <1>19 DEF WorkerDies
  <1>20. CASE ReconcilerList
    BY <1>20 DEF ReconcilerList
  <1>21. ASSUME NEW w \in Workflows, ReconcilerProbe(w) PROVE Carried(v, p)
    BY <1>21 DEF ReconcilerProbe, settle_cancelled, Row
  <1>22. CASE ReconcilerAborts
    BY <1>22 DEF ReconcilerAborts, StoreFails
  <1>23. CASE ReconcilerRearm
    BY <1>23 DEF ReconcilerRearm, rearm_stale_claimed, Row
  <1>24. CASE Crash
    BY <1>24 DEF Crash
  <1>25. CASE Boot
    BY <1>25 DEF Boot, StoreFails, settle_cancelled, Row
  <1>26. CASE UNCHANGED vars
    BY <1>26 DEF vars
  <1> HIDE DEF Waiting, Retained, TypeOK, Runs, history, engine, dispatcher, ghosts
  <1>27. QED
    BY <1>1, <1>2, <1>3, <1>4, <1>5, <1>6, <1>7, <1>8, <1>9, <1>10, <1>11, <1>12, <1>13,
       <1>14, <1>15, <1>16, <1>17, <1>18, <1>19, <1>20, <1>21, <1>22, <1>23, <1>24, <1>25,
       <1>26
       DEF Next, Process, Dispatch, Reconcile

\* A dispatch is ok when its reply is retained.
LEMMA OkStep ==
    ASSUME TypeOK, RowsKnowTheirRun, HostIsTrue, StagedTogether, FirstRunIsLive,
           OkIsDelivered, Transport = "liminal", [Next]_vars
    PROVE  OkIsDelivered'
  <1> SUFFICES ASSUME NEW d \in current', phase' = "ok", NEW v \in live', NEW p \in Ordinals,
                      d.key = <<v, p>>, Waiting(v, p)'
               PROVE  Retained(v, p)'
    BY Zenon DEF OkIsDelivered, Waiting, Retained
  <1> DEFINE Goal == (d \in current /\ phase = "ok" /\ v \in live) \/ Retained(v, p)'
  <1> v \in Workflows /\ run'[v] = 1
    <2>1. TypeOK'
      BY RowsStep, TypeStep DEF RowsType, RestType, TypeOK
    <2>2. QED
      BY <2>1 DEF Waiting, TypeOK
  <1> USE DEF RowsKnowTheirRun, HostIsTrue, FirstRunIsLive, TypeOK, Keys, Runs, Claims,
              Rows, history, engine, dispatcher, ghosts
  <1>1. ASSUME NEW k \in Keys, Tick(k) PROVE Goal
    BY <1>1 DEF Tick
  <1>2. ASSUME NEW w \in Workflows, FirstArrival(w) PROVE Goal
    BY <1>2 DEF FirstArrival, Unlocked
  <1>3. ASSUME NEW w \in Workflows, NEW o \in Ordinals, RecordCompletion(w, o) PROVE Goal
    BY <1>3 DEF RecordCompletion, Unlocked
  <1>4. ASSUME NEW w \in Workflows, SettleRows(w) PROVE Goal
    BY <1>4 DEF SettleRows
  <1>5. ASSUME NEW w \in Workflows, StopProcess(w) PROVE Goal
    BY <1>5 DEF StopProcess, Unlocked
  <1>6. ASSUME NEW w \in Workflows, Spawn(w) PROVE Goal
    <2>1. UNCHANGED <<phase, current, run>> /\ up /\ status[w] = "Running" /\ live' = live \cup {w}
      BY <1>6 DEF Spawn
    <2>2. v = w => v \in live
      BY <2>1
    <2>3. QED
      BY <2>1, <2>2
  <1>7. ASSUME NEW w \in Workflows, RecordTerminal(w) PROVE Goal
    BY <1>7 DEF RecordTerminal, Unlocked
  <1>8. ASSUME NEW w \in Workflows, ContinueAsNew(w) PROVE Goal
    BY <1>8 DEF ContinueAsNew, Unlocked
  <1>9. ASSUME NEW w \in Workflows, PauseOrResume(w) PROVE Goal
    BY <1>9 DEF PauseOrResume
  <1>10. ASSUME NEW w \in Workflows, NEW o \in Ordinals, CancelActivity(w, o) PROVE Goal
    BY <1>10 DEF CancelActivity, Unlocked
  <1>11. ASSUME Claim PROVE Goal
    BY <1>11 DEF Claim
  <1>12. ASSUME NEW c \in batch, BeginDispatch(c) PROVE Goal
    BY <1>12 DEF BeginDispatch
  <1>13. ASSUME NEW c \in current, Push(c) PROVE Goal
    BY <1>13, Transport = "liminal" DEF Push
  <1>14. ASSUME NEW c \in current, Reply(c) PROVE Goal
    <2>1. d = c /\ v \in live /\ UNCHANGED <<live, run>> /\ c.run = 1
      BY <1>14 DEF Reply
    <2>2. /\ TaskOf(c).key = <<v, p>> /\ TaskOf(c).run = 1
          /\ TaskOf(c).key[1] = v /\ TaskOf(c).key[2] = p
      BY <2>1 DEF TaskOf
    <2>3. retained' = [retained EXCEPT ![v] = @ \cup {<<p, 1>>}]
      BY <1>14, <2>1, <2>2 DEF Reply, DeliverOutbox, outbox_delivery_pid
    <2>4. <<p, 1>> \in retained'[v] /\ 1 \in Runs
      BY <2>3
    <2>5. QED
      BY <2>4 DEF Retained
  <1>15. ASSUME NEW c \in current, NEW failure \in {"err", "lost"}, DispatchFails(c, failure)
         PROVE  Goal
    BY <1>15 DEF DispatchFails
  <1>16. ASSUME NEW c \in current, mark_done(c) PROVE Goal
    BY <1>16 DEF mark_done, EndDispatch
  <1>17. ASSUME NEW c \in current, handle_dispatch_error(c) PROVE Goal
    BY <1>17 DEF handle_dispatch_error, EndDispatch
  <1>18. ASSUME NEW task \in tasks, NEW acked \in BOOLEAN, Report(task, acked) PROVE Goal
    BY <1>18 DEF Report
  <1>19. ASSUME NEW task \in tasks, WorkerDies(task) PROVE Goal
    BY <1>19 DEF WorkerDies
  <1>20. ASSUME ReconcilerList PROVE Goal
    BY <1>20 DEF ReconcilerList
  <1>21. ASSUME NEW w \in Workflows, ReconcilerProbe(w) PROVE Goal
    BY <1>21 DEF ReconcilerProbe
  <1>22. ASSUME ReconcilerAborts PROVE Goal
    BY <1>22 DEF ReconcilerAborts
  <1>23. ASSUME ReconcilerRearm PROVE Goal
    BY <1>23 DEF ReconcilerRearm
  <1>24. ASSUME Crash PROVE Goal
    BY <1>24 DEF Crash
  <1>25. ASSUME Boot PROVE Goal
    BY <1>25 DEF Boot
  <1>26. ASSUME UNCHANGED vars PROVE Goal
    BY <1>26 DEF vars
  <1> HIDE DEF RowsKnowTheirRun, HostIsTrue, FirstRunIsLive, TypeOK, Keys, Runs, Claims,
               Rows, history, engine, dispatcher, ghosts
  <1>27. Goal
    BY <1>1, <1>2, <1>3, <1>4, <1>5, <1>6, <1>7, <1>8, <1>9, <1>10, <1>11, <1>12, <1>13,
       <1>14, <1>15, <1>16, <1>17, <1>18, <1>19, <1>20, <1>21, <1>22, <1>23, <1>24, <1>25,
       <1>26
       DEF Next, Process, Dispatch, Reconcile
  <1>28. CASE d \in current /\ phase = "ok" /\ v \in live
    <2>1. \/ Waiting(v, p) /\ (Retained(v, p) => Retained(v, p)')
          \/ run[v] = 1 /\ activity[<<v, 1, p>>] = "None"
      BY WaitingStep
    <2>2. rows[<<v, p>>].status # "absent"
      BY <1>28 DEF RowsKnowTheirRun
    <2>3. Waiting(v, p) => Retained(v, p)
      BY <1>28 DEF OkIsDelivered, Waiting, Retained
    <2>4. ~(run[v] = 1 /\ activity[<<v, 1, p>>] = "None")
      BY <2>2 DEF StagedTogether
    <2>5. QED
      BY <2>1, <2>3, <2>4
  <1>29. QED
    BY <1>27, <1>28

\* What NoMemberStranded asks for a member.
Kept(w, o) ==
    \/ rows[<<w, o>>].status \in InFlight \cup {"failed"}
    \/ Terminal(w) /\ rows[<<w, o>>].status = "cancelled"
    \/ Retained(w, o)

LEMMA StrandedPointwise ==
    ASSUME TypeOK
    PROVE  NoMemberStranded
           <=> \A w \in pinned, o \in Ordinals : Waiting(w, o) => Kept(w, o)
  BY DEF NoMemberStranded, Kept, Waiting, Retained, Now


\* No step strands a member.
LEMMA StrandedStep ==
    ASSUME TypeOK, HostIsTrue, StagedTogether, SettlesTheSettled, OkIsDelivered,
           NoMemberStranded, [Next]_vars
    PROVE  NoMemberStranded'
  <1> TypeOK'
    BY RowsStep, TypeStep DEF RowsType, RestType, TypeOK
  <1> SUFFICES ASSUME NEW v \in pinned', NEW p \in Ordinals, Waiting(v, p)'
               PROVE  Kept(v, p)'
    BY Zenon DEF NoMemberStranded, Waiting, Kept, Retained, Now
  <1> DEFINE Goal == \/ Kept(v, p)'
                     \/ /\ v \in pinned /\ activity[<<v, 1, p>>] # "None"
                        /\ rows'[<<v, p>>].status = rows[<<v, p>>].status
                        /\ Terminal(v) => Terminal(v)'
  <1> /\ v \in Workflows /\ <<v, p>> \in Keys /\ 1 \in Runs
      /\ <<v, 1, p>> \in Workflows \X Runs \X Ordinals
    BY DEF TypeOK, Keys, Runs
  <1> pinned \subseteq live /\ (~up => pinned = {})
    BY DEF HostIsTrue
  <1> USE DEF Waiting, Terminal, InFlight, TypeOK, Keys, Runs, Claims, Rows, history,
              engine, dispatcher, ghosts
  <1>1. ASSUME NEW k \in Keys, Tick(k) PROVE Goal
    <2>1. rows[k] \in Rows /\ [rows[k] EXCEPT !.ripe = TRUE].status = rows[k].status
      OBVIOUS
    <2>2. rows' = [rows EXCEPT ![k] = [rows[k] EXCEPT !.ripe = TRUE]]
      BY <1>1 DEF Tick
    <2>3. rows'[<<v, p>>].status = rows[<<v, p>>].status
      BY <2>1, <2>2
    <2>4. QED
      BY <1>1, <2>3 DEF Tick
  <1>2. ASSUME NEW w \in Workflows, FirstArrival(w) PROVE Goal
    <2>1. UNCHANGED <<status, run>> /\ pinned' = pinned \cup {w} /\ w \notin pinned
      BY <1>2 DEF FirstArrival
    <2>2. CASE record_fan_out_dispatch(w)
      <3>1. CASE v # w
        <4>1. rows'[<<v, p>>] = rows[<<v, p>>] /\ activity'[<<v, 1, p>>] = activity[<<v, 1, p>>]
          BY <2>2, <3>1 DEF record_fan_out_dispatch, insert_outbox_row
        <4>2. QED
          BY <2>1, <3>1, <4>1
      <3>2. CASE v = w
        <4>1. PICK q \in Ordinals : activity[<<w, 1, q>>] = "None"
          <5>1. run[w] = 1
            BY <2>1, <3>2
          <5>2. Unscheduled(w) # {}
            BY <2>2 DEF record_fan_out_dispatch
          <5>3. QED
            BY <5>1, <5>2 DEF Unscheduled, Now
        <4>2. activity[<<w, 1, p>>] = "None" /\ rows[<<w, p>>].status = "absent"
          BY <2>1, <3>2, <4>1 DEF StagedTogether
        <4>3. p \in Unscheduled(w)
          BY <2>1, <3>2, <4>2 DEF Unscheduled, Now
        <4>4. rows'[<<v, p>>].status = "pending"
          BY <2>2, <3>2, <4>2, <4>3 DEF record_fan_out_dispatch, insert_outbox_row, Row
        <4>5. QED
          BY <4>4 DEF Kept
      <3>3. QED
        BY <3>1, <3>2
    <2>3. CASE RearmStale(w)
      <3>1. UNCHANGED activity
        BY <2>3 DEF RearmStale
      <3>2. CASE v # w
        <4>1. rows'[<<v, p>>] = rows[<<v, p>>]
          BY <2>3, <3>2 DEF RearmStale, rearm_outbox_pending
        <4>2. QED
          BY <2>1, <3>1, <3>2, <4>1
      <3>3. CASE v = w
        <4>1. p \in Unresolved(w)
          BY <2>1, <3>1, <3>3 DEF Unresolved, Now
        <4>2. rows'[<<v, p>>].status = "pending"
          BY <2>3, <3>3, <4>1 DEF RearmStale, rearm_outbox_pending, Row
        <4>3. QED
          BY <4>2 DEF Kept
      <3>4. QED
        BY <3>2, <3>3
    <2>4. QED
      BY <1>2, <2>2, <2>3 DEF FirstArrival
  <1>3. ASSUME NEW w \in Workflows, NEW o \in Ordinals, RecordCompletion(w, o) PROVE Goal
    BY <1>3 DEF RecordCompletion, Now
  <1>4. ASSUME NEW w \in Workflows, SettleRows(w) PROVE Goal
    <2>1. UNCHANGED <<status, run, activity, pinned>>
      BY <1>4 DEF SettleRows
    <2>2. CASE rows' = settle_cancelled(rows, {w} \X lock[w].ordinals)
      <3>1. CASE v = w /\ p \in lock[w].ordinals /\ rows[<<v, p>>].status \in InFlight
        <4>1. rows'[<<v, p>>].status = "cancelled"
          BY <2>2, <3>1 DEF settle_cancelled, Row
        <4>2. Terminal(v)
          BY <1>4, <2>1, <3>1 DEF SettleRows, SettlesTheSettled, Now
        <4>3. QED
          BY <2>1, <4>1, <4>2 DEF Kept
      <3>2. CASE ~(v = w /\ p \in lock[w].ordinals /\ rows[<<v, p>>].status \in InFlight)
        <4>1. rows'[<<v, p>>] = rows[<<v, p>>]
          BY <2>2, <3>2 DEF settle_cancelled
        <4>2. QED
          BY <2>1, <4>1
      <3>3. QED
        BY <3>1, <3>2
    <2>3. CASE UNCHANGED rows
      BY <2>1, <2>3
    <2>4. QED
      BY <1>4, <2>2, <2>3 DEF SettleRows, Write
  <1>5. ASSUME NEW w \in Workflows, StopProcess(w) PROVE Goal
    BY <1>5 DEF StopProcess, Unlocked
  <1>6. ASSUME NEW w \in Workflows, Spawn(w) PROVE Goal
    BY <1>6 DEF Spawn
  <1>7. ASSUME NEW w \in Workflows, RecordTerminal(w) PROVE Goal
    BY <1>7 DEF RecordTerminal, Unlocked
  <1>8. ASSUME NEW w \in Workflows, ContinueAsNew(w) PROVE Goal
    <2>1. v # w /\ UNCHANGED <<status, activity, rows>> /\ pinned' \subseteq pinned
      BY <1>8 DEF ContinueAsNew
    <2>2. QED
      BY <2>1
  <1>9. ASSUME NEW w \in Workflows, PauseOrResume(w) PROVE Goal
    BY <1>9 DEF PauseOrResume
  <1>10. ASSUME NEW w \in Workflows, NEW o \in Ordinals, CancelActivity(w, o) PROVE Goal
    BY <1>10 DEF CancelActivity, Now
  <1>11. ASSUME Claim PROVE Goal
    <2>1. UNCHANGED <<status, run, activity, pinned>>
      BY <1>11 DEF Claim
    <2>2. PICK keys : rows' = claim_outbox_rows(rows, keys)
      BY <1>11 DEF Claim
    <2>3. CASE <<v, p>> \in keys
      <3>1. rows'[<<v, p>>].status = "claimed"
        BY <2>2, <2>3 DEF claim_outbox_rows, Row
      <3>2. QED
        BY <3>1 DEF Kept
    <2>4. CASE <<v, p>> \notin keys
      <3>1. rows'[<<v, p>>] = rows[<<v, p>>]
        BY <2>2, <2>4 DEF claim_outbox_rows
      <3>2. QED
        BY <2>1, <3>1
    <2>5. QED
      BY <2>3, <2>4
  <1>12. ASSUME NEW c \in batch, BeginDispatch(c) PROVE Goal
    BY <1>12 DEF BeginDispatch
  <1>13. ASSUME NEW c \in current, Push(c) PROVE Goal
    BY <1>13 DEF Push
  <1>14. ASSUME NEW c \in current, Reply(c) PROVE Goal
    BY <1>14 DEF Reply
  <1>15. ASSUME NEW c \in current, NEW failure \in {"err", "lost"}, DispatchFails(c, failure)
         PROVE  Goal
    BY <1>15 DEF DispatchFails
  <1>16. ASSUME NEW c \in current, mark_done(c) PROVE Goal
    <2>1. UNCHANGED <<status, run, activity, pinned, retained>> /\ phase = "ok" /\ c \in current
      BY <1>16 DEF mark_done
    <2>2. CASE c.key = <<v, p>>
      <3>1. v \in live /\ Waiting(v, p)
        BY <2>1 DEF HostIsTrue
      <3>2. Retained(v, p)
        BY <2>1, <2>2, <3>1 DEF OkIsDelivered, Retained
      <3>3. Retained(v, p)'
        BY <2>1, <3>2 DEF Retained
      <3>4. QED
        BY <3>3 DEF Kept
    <2>3. CASE c.key # <<v, p>>
      <3>1. c.key \in Keys /\ rows'[<<v, p>>] = rows[<<v, p>>]
        BY <1>16, <2>3 DEF mark_done, Write, complete_outbox_row
      <3>2. QED
        BY <2>1, <3>1
    <2>4. QED
      BY <2>2, <2>3
  <1>17. ASSUME NEW c \in current, handle_dispatch_error(c) PROVE Goal
    <2>1. UNCHANGED <<status, run, activity, pinned>> /\ c.key \in Keys
      BY <1>17 DEF handle_dispatch_error
    <2>2. \/ rows' = rows
          \/ rows' = fail_outbox_row(rows, c.key)
          \/ \E a, b : rows' = retry_outbox_row(rows, c.key, a, b)
      BY <1>17 DEF handle_dispatch_error, Write
    <2>3. \/ rows'[<<v, p>>] = rows[<<v, p>>]
          \/ rows'[<<v, p>>].status \in {"failed", "pending"}
      <3>1. CASE c.key # <<v, p>>
        BY <2>1, <2>2, <3>1 DEF fail_outbox_row, retry_outbox_row
      <3>2. CASE c.key = <<v, p>> /\ rows' = fail_outbox_row(rows, c.key)
        BY <2>1, <3>2 DEF fail_outbox_row, Row
      <3>3. ASSUME c.key = <<v, p>>, NEW a, NEW b, rows' = retry_outbox_row(rows, c.key, a, b)
            PROVE  rows'[<<v, p>>].status = "pending"
        BY <2>1, <3>3 DEF retry_outbox_row, Row
      <3>4. CASE rows' = rows
        BY <3>4
      <3> HIDE DEF TypeOK, Keys, Runs, Claims, Rows
      <3>5. QED
        BY <2>2, <3>1, <3>2, <3>3, <3>4
    <2>4. QED
      BY <2>1, <2>3 DEF Kept
  <1>18. ASSUME NEW task \in tasks, NEW acked \in BOOLEAN, Report(task, acked) PROVE Goal
    BY <1>18 DEF Report
  <1>19. ASSUME NEW task \in tasks, WorkerDies(task) PROVE Goal
    BY <1>19 DEF WorkerDies
  <1>20. ASSUME ReconcilerList PROVE Goal
    BY <1>20 DEF ReconcilerList
  <1>21. ASSUME NEW w \in Workflows, ReconcilerProbe(w) PROVE Goal
    <2>1. UNCHANGED <<status, run, activity, pinned>>
      BY <1>21 DEF ReconcilerProbe
    <2>2. \/ rows'[<<v, p>>] = rows[<<v, p>>]
          \/ Terminal(v) /\ rows'[<<v, p>>].status = "cancelled"
      BY <1>21 DEF ReconcilerProbe, settle_cancelled, KeysOf, Row
    <2>3. QED
      BY <2>1, <2>2 DEF Kept
  <1>22. ASSUME ReconcilerAborts PROVE Goal
    BY <1>22 DEF ReconcilerAborts
  <1>23. ASSUME ReconcilerRearm PROVE Goal
    <2>1. UNCHANGED <<status, run, activity, pinned>>
      BY <1>23 DEF ReconcilerRearm
    <2>2. PICK r : rows' = rearm_stale_claimed(rows, r)
      BY <1>23 DEF ReconcilerRearm
    <2>3. rows'[<<v, p>>] = rows[<<v, p>>] \/ rows'[<<v, p>>].status = "pending"
      BY <2>2 DEF rearm_stale_claimed, Row
    <2>4. QED
      BY <2>1, <2>3 DEF Kept
  <1>24. ASSUME Crash PROVE Goal
    BY <1>24 DEF Crash
  <1>25. ASSUME Boot PROVE Goal
    BY <1>25 DEF Boot
  <1>26. ASSUME UNCHANGED vars PROVE Goal
    BY <1>26 DEF vars
  <1> HIDE DEF Waiting, Terminal, InFlight, TypeOK, Keys, Runs, Claims, Rows, history,
               engine, dispatcher, ghosts
  <1>27. Goal
    BY <1>1, <1>2, <1>3, <1>4, <1>5, <1>6, <1>7, <1>8, <1>9, <1>10, <1>11, <1>12, <1>13,
       <1>14, <1>15, <1>16, <1>17, <1>18, <1>19, <1>20, <1>21, <1>22, <1>23, <1>24, <1>25,
       <1>26
       DEF Next, Process, Dispatch, Reconcile
  <1>28. CASE ~Kept(v, p)'
    <2>1. /\ v \in pinned /\ activity[<<v, 1, p>>] # "None"
          /\ rows'[<<v, p>>].status = rows[<<v, p>>].status
          /\ Terminal(v) => Terminal(v)'
      BY <1>27, <1>28
    <2>2. v \in live'
      <3>1. HostIsTrue'
        BY HostStep
      <3>2. QED
        BY <3>1 DEF HostIsTrue
    <2>3. Waiting(v, p) /\ (Retained(v, p) => Retained(v, p)')
      BY <2>1, <2>2, WaitingStep
    <2>4. Kept(v, p)
      BY <2>1, <2>3, StrandedPointwise
    <2>5. QED
      BY <2>1, <2>3, <2>4 DEF Kept
  <1>29. QED
    BY <1>28

LEMMA StrandedInit ==
    ASSUME Pausable = {}
    PROVE  Init => IInvStranded
  <1> SUFFICES ASSUME Init PROVE IInvStranded
    OBVIOUS
  <1> USE DEF Init
  <1>1. StagedTogether
    BY DEF StagedTogether, NoRow, Row, Keys, Runs
  <1>2. FirstRunIsLive /\ SettlesTheSettled
    BY DEF FirstRunIsLive, SettlesTheSettled, Free
  <1>3. OkIsDelivered /\ NoMemberStranded
    BY DEF OkIsDelivered, NoMemberStranded
  <1>4. QED
    BY <1>1, <1>2, <1>3 DEF IInvStranded

LEMMA StrandedInvStep ==
    ASSUME Transport = "liminal", Pausable = {}
    PROVE  IInv /\ IInvStranded /\ [Next]_vars => IInvStranded'
  <1> SUFFICES ASSUME IInv, IInvStranded, [Next]_vars PROVE IInvStranded'
    OBVIOUS
  <1> USE DEF IInv, IInvStranded
  <1>1. StagedTogether' /\ FirstRunIsLive' /\ SettlesTheSettled'
    BY TogetherStep, FirstRunStep, SettlesStep
  <1>2. OkIsDelivered' /\ NoMemberStranded'
    BY OkStep, StrandedStep
  <1>3. QED
    BY <1>1, <1>2

\* Over the liminal transport and without a pause, attempts stay within the retry budget and
\* no process waits in its first run for a completion that nothing will produce, through any
\* number of crashes, failing writes, lost connections, stale claims and terminals.
THEOREM NobodyIsStranded ==
    ASSUME Transport = "liminal", Pausable = {}
    PROVE  Spec => []Inv
  <1>1. Init => IInv /\ IInvStranded
    BY IInvInit, StrandedInit
  <1>2. IInv /\ IInvStranded /\ [Next]_vars => (IInv /\ IInvStranded)'
    BY IInvStep, StrandedInvStep
  <1>3. IInv /\ IInvStranded => Inv
    BY DEF IInv, IInvStranded, Inv
  <1>4. QED
    BY <1>1, <1>2, <1>3, PTL DEF Spec

=============================================================================
