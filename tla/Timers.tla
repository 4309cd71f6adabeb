------------------------------- MODULE Timers -------------------------------
(***************************************************************************)
(* Durable timers and the workflow deadline: crates/aion/src/time,         *)
(* runtime/nif_timer.rs, nif_timeout.rs, nif_timer_bridge.rs and           *)
(* lifecycle/deadline.rs, for one run of one of the two programs           *)
(*                                                                         *)
(*     with_timeout(scope) { sleep }                                       *)
(*     start_timer(named); sleep; cancel_timer(named)                      *)
(*                                                                         *)
(* whose package declares a timeout.  The process, the wheel tasks, the    *)
(* boot recovery, a client that cancels the run and the exit monitor race  *)
(* for the terminal of each timer and of the run.  Two mutual exclusions   *)
(* arbitrate: the terminal-update slot of a timer (`slot`), held from the  *)
(* liveness check to the append, and the recorder lock of the run (`lock`) *)
(* whose sections that append twice are split here.                        *)
(*                                                                         *)
(* Abstracted: durations (the clock takes a few values and FireAt says     *)
(* when each timer elapses), other runs of the workflow, reopen (module    *)
(* RunLifecycle), and failures of the store other than the ones named by   *)
(* an action.                                                              *)
(***************************************************************************)
EXTENDS Integers, Sequences

CONSTANTS
    MaxCrashes,   \* bound on engine crashes
    MaxFailures,  \* bound on failing durable writes
    MaxAttempts,  \* MAX_ATTEMPTS of a deadline fire in one engine epoch
    WithClient,   \* whether a client asks for the run to be cancelled
    MaxClock,     \* bound on the clock
    FireAt        \* fire_at of each timer

ASSUME TimersConstants ==
    /\ MaxCrashes \in Nat
    /\ MaxFailures \in Nat
    /\ MaxAttempts \in Nat \ {0}
    /\ WithClient \in BOOLEAN
    /\ MaxClock \in Nat
    /\ FireAt \in [{"named", "scope", "sleep", "deadline"} -> Nat]

Ordinary == {"named", "scope", "sleep"}
Timer == Ordinary \cup {"deadline"}

(***************************************************************************)
(* What the run's history says last of a timer: `Cancelled` is             *)
(* TimerCancelled{WorkflowIntent}, `Teardown` TimerCancelled{              *)
(* CancelTeardown}.  The code decides by the last event of a timer and by  *)
(* the terminal of the run, so that is all that is kept of a history.      *)
(***************************************************************************)
TimerTerminals == {"Fired", "Cancelled", "Teardown"}
RunTerminals == {"Completed", "Cancelled", "TimedOut"}

Free == [by |-> "nobody", step |-> "none"]
Slot == {Free} \cup [by : {"wheel", "recovery", "process", "client"},
                     step : {"record", "deliver", "decide", "ordinary", "kill",
                             "visibility", "retire", "deregister"}]

VARIABLES
    last,        \* durable: the last event recorded for each timer
    outcome,     \* durable: the terminal recorded for the run
    rows,        \* durable: timers with a row in the timer table
    clock,
    shown,       \* durable: the visibility row shows the run's terminal
    phase,       \* the engine: down, boot, recover, rearm, up
    todo,        \* timers the boot recovery still has to fire or re-arm
    asOf,        \* the clock as recovery read it
    registered,  \* the run has a handle in the registry
    starting,    \* start_workflow has not armed the deadline yet
    wheel,       \* timers with a task on the live wheel
    slot,        \* terminal-update slot per timer: who holds it, at which step
    attempts,    \* failed fires of the deadline in this engine epoch
    lock,        \* recorder lock, across sections of two appends
    uses,        \* which of the two programs the run executes
    pc,          \* the workflow process and, once it exited, its monitor
    mail,        \* a wake marker is queued
    scope,       \* TimeoutScope.replay_timed_out: fired, cancelled or live
    expired,     \* the park_sleep in progress saw its scope expired
    client,      \* progress of the client's cancel
    cancelling,  \* timers the cancel enumerated and has not settled
    sleeps,      \* every answer sleep has given, replays included
    scopes,      \* every answer with_timeout has given
    crashes, failures

history == <<last, outcome>>
durable == <<history, rows, shown>>
boot == <<phase, todo, asOf>>
hosting == <<registered, starting, lock>>
tasks == <<wheel, slot, attempts>>
frame == <<mail, scope, expired>>
answers == <<sleeps, scopes>>
process == <<uses, pc, frame, answers>>
caller == <<client, cancelling>>
bounds == <<clock, crashes, failures>>
vars == <<durable, boot, hosting, tasks, process, caller, bounds>>

live_timers == {t \in Timer : last[t] = "Started"}

\* timer_terminal_recorded: the teardown of a cancelled run is not visible.
timer_terminal_recorded(t) ==
    CASE last[t] = "Fired" -> "fired"
      [] last[t] = "Cancelled" -> "cancelled"
      [] OTHER -> "pending"

expired_scope_deadline ==
    \/ scope = "fired"
    \/ scope = "live" /\ last["scope"] = "Fired"

\* Appends to the history.
Record(type, t) == last' = [last EXCEPT ![t] = type] /\ UNCHANGED outcome
RecordOutcome(type) == outcome' = type /\ UNCHANGED last

Running == phase \in {"recover", "rearm", "up"}
Alive == pc \notin {"none", "exited", "retire", "gone"}

\* resolve_workflow: a registered handle whose exit was not reconciled yet.
Resident == registered /\ pc \notin {"none", "gone"}

\* A kill takes effect between two native calls.
Interruptible == pc \in {"start", "arm", "sleep", "parked", "settle",
                         "cancel_timer", "done"}

\* The first call of the program.
Entry == IF uses = "named" THEN "start" ELSE "arm"

\* The call behind the sleep.
AfterSleep == IF uses = "named" THEN "cancel_timer" ELSE "settle"

AllFree == [t \in Timer |-> Free]

\* start_workflow has recorded, spawned and registered the run.
Init ==
    /\ last = [t \in Timer |-> IF t = "deadline" THEN "Started" ELSE "None"]
    /\ outcome = "None"
    /\ rows = {}
    /\ clock = 0
    /\ shown = FALSE
    /\ phase = "up"
    /\ todo = {}
    /\ asOf = 0
    /\ registered = TRUE
    /\ starting = TRUE
    /\ wheel = {}
    /\ slot = AllFree
    /\ attempts = 0
    /\ lock = "free"
    /\ uses \in {"named", "scope"}
    /\ pc = Entry
    /\ mail = FALSE
    /\ scope = "live"
    /\ expired = FALSE
    /\ client = "idle"
    /\ cancelling = {}
    /\ sleeps = {}
    /\ scopes = {}
    /\ crashes = 0
    /\ failures = 0

-----------------------------------------------------------------------------
(***************************************************************************)
(* Arming.                                                                 *)
(***************************************************************************)

\* TimerService::schedule: the row, then a wheel task if the run is resident.
schedule(t) ==
    /\ rows' = rows \cup {t}
    /\ wheel' = IF Resident THEN wheel \cup {t} ELSE wheel

\* The tail of start_workflow: arm_declared_deadline_or_fail_start.
ArmDeadline ==
    /\ starting
    /\ Running
    /\ schedule("deadline")
    /\ starting' = FALSE
    /\ UNCHANGED <<history, boot, process, caller, bounds, shown, registered,
                   slot, attempts, lock>>

Tick ==
    /\ clock < MaxClock
    /\ clock' = clock + 1
    /\ UNCHANGED <<durable, boot, hosting, tasks, process, caller, crashes,
                   failures>>

-----------------------------------------------------------------------------
(***************************************************************************)
(* The workflow process.                                                   *)
(***************************************************************************)
At(label) == Running /\ pc = label
RecordStarted(t) == lock = "free" /\ Record("Started", t)

\* start_timer: record and schedule on a live call, nothing on a replay.
start_timer ==
    /\ At("start")
    /\ IF last["named"] = "None"
       THEN RecordStarted("named") /\ pc' = "row_named"
       ELSE UNCHANGED history /\ pc' = "sleep"
    /\ UNCHANGED <<boot, hosting, tasks, frame, answers, caller, bounds, rows,
                   shown, uses>>

\* arm_scope: a recorded scope replays with the outcome history has for it.
arm_scope ==
    /\ At("arm")
    /\ IF last["scope"] = "None"
       THEN RecordStarted("scope") /\ pc' = "row_scope" /\ scope' = "live"
       ELSE /\ pc' = "sleep"
            /\ LET answer == timer_terminal_recorded("scope")
               IN  scope' = IF answer = "pending" THEN "live" ELSE answer
            /\ UNCHANGED history
    /\ UNCHANGED <<boot, hosting, tasks, answers, caller, bounds, rows, shown,
                   mail, expired, uses>>

\* The second half of a live start: the row and the wheel task.
ScheduleRow(t) ==
    /\ Running
    /\ <<t, pc>> \in {<<"named", "row_named">>, <<"scope", "row_scope">>,
                     <<"sleep", "row_sleep">>}
    /\ schedule(t)
    /\ pc' = IF t # "sleep" THEN "sleep"
             ELSE IF expired THEN "cancel_sleep" ELSE "parked"
    /\ UNCHANGED <<history, boot, hosting, frame, answers, caller, bounds, shown,
                   slot, attempts, uses>>

(***************************************************************************)
(* sleep_impl, on its first arrival and on every wake: one marker is       *)
(* consumed before the history is read.  park_sleep judges the scope by    *)
(* the same snapshot.                                                      *)
(***************************************************************************)
sleep ==
    /\ Running
    /\ \/ pc = "sleep"
       \/ pc = "parked" /\ mail
    /\ mail' = FALSE
    /\ LET answer == timer_terminal_recorded("sleep")
           late == expired_scope_deadline
       IN  IF last["sleep"] = "None"
           THEN /\ RecordStarted("sleep")
                /\ expired' = late
                /\ pc' = "row_sleep"
                /\ UNCHANGED sleeps
           ELSE /\ UNCHANGED history
                /\ expired' = late
                /\ pc' = IF answer # "pending" THEN AfterSleep
                         ELSE IF late THEN "cancel_sleep" ELSE "parked"
                /\ sleeps' = IF answer = "pending" THEN sleeps
                             ELSE sleeps \cup {answer}
    /\ UNCHANGED <<boot, hosting, tasks, caller, bounds, rows, shown, scope,
                   scopes, uses>>

\* The loser of the race answers what it meant to record.
MutantParkSleepSettled ==
    /\ At("read_sleep")
    /\ sleeps' = sleeps \cup {"cancelled"}
    /\ pc' = AfterSleep
    /\ UNCHANGED <<durable, boot, hosting, tasks, frame, caller, bounds, scopes,
                   uses>>

\* park_sleep after its cancel: the answer is the recorded terminal.
park_sleep_settled ==
    /\ At("read_sleep")
    /\ LET answer == timer_terminal_recorded("sleep")
       IN  sleeps' = sleeps \cup {IF answer = "pending" THEN "error" ELSE answer}
    /\ pc' = AfterSleep
    /\ UNCHANGED <<durable, boot, hosting, tasks, frame, caller, bounds, scopes,
                   uses>>

ScopeAnswer(terminal) ==
    CASE terminal = "fired" -> "expired"
      [] terminal = "cancelled" -> "ok"
      [] OTHER -> "error"

\* resume_with_timeout: a replayed scope answers from history, a live one
\* first settles the race with its own timer.
resume_with_timeout ==
    /\ At("settle")
    /\ IF scope = "live"
       THEN pc' = "cancel_scope" /\ UNCHANGED scopes
       ELSE pc' = "done" /\ scopes' = scopes \cup {ScopeAnswer(scope)}
    /\ UNCHANGED <<durable, boot, hosting, tasks, frame, caller, bounds, sleeps,
                   uses>>

settle_live_scope ==
    /\ At("read_scope")
    /\ scopes' = scopes \cup {ScopeAnswer(timer_terminal_recorded("scope"))}
    /\ pc' = "done"
    /\ UNCHANGED <<durable, boot, hosting, tasks, frame, caller, bounds, sleeps,
                   uses>>

(***************************************************************************)
(* cancel_timer resolves the StartTimer command of the timer it cancels.   *)
(* The timer was started, so the command is Recorded and the live branch   *)
(* that would cancel is never reached: the call reports a mismatch, or     *)
(* success when the terminal stands right behind the start.  Then the      *)
(* program ends and the process exits.                                     *)
(***************************************************************************)
cancel_timer ==
    /\ At("cancel_timer")
    /\ pc' = "done"
    /\ UNCHANGED <<durable, boot, hosting, tasks, frame, answers, caller, bounds,
                   uses>>

\* The process ends; its mailbox and its scopes go with it.
ProcessDies == pc' = "exited" /\ mail' = FALSE /\ scope' = "live" /\ expired' = FALSE

Exit ==
    /\ At("done")
    /\ ProcessDies
    /\ UNCHANGED <<durable, boot, hosting, tasks, answers, caller, bounds, uses>>

-----------------------------------------------------------------------------
(***************************************************************************)
(* TimerService::cancel: take the slot, check liveness, disarm the wheel,  *)
(* record through the recorder unless the run has ended.                   *)
(***************************************************************************)
\* The cancel walks the timers in the order the program starts them.
StartedBefore(u, t) ==
    LET order == <<"deadline", "named", "scope", "sleep">>
    IN  \E i, j \in 1 .. 4 : i < j /\ order[i] = u /\ order[j] = t

ClientsNext(t) ==
    /\ client = "timers"
    /\ t \in cancelling
    /\ \A u \in cancelling : ~StartedBefore(u, t)

Cancels(by, t) ==
    /\ Running
    /\ \/ by = "process" /\ t = "sleep" /\ pc = "cancel_sleep"
       \/ by = "process" /\ t = "scope" /\ pc = "cancel_scope"
       \/ by = "client" /\ ClientsNext(t)

CancelReturns(by, t) ==
    IF by = "process"
    THEN /\ pc' = IF t = "sleep" THEN "read_sleep" ELSE "read_scope"
         /\ UNCHANGED cancelling
    ELSE /\ cancelling' = cancelling \ {t}
         /\ UNCHANGED pc

CancelCheck(by, t) ==
    /\ Cancels(by, t)
    /\ slot[t] = Free
    /\ IF t \in live_timers
       THEN /\ slot' = [slot EXCEPT ![t] = [by |-> by, step |-> "record"]]
            /\ wheel' = IF Resident THEN wheel \ {t} ELSE wheel
            /\ UNCHANGED <<pc, cancelling>>
       ELSE CancelReturns(by, t) /\ UNCHANGED <<slot, wheel>>
    /\ UNCHANGED <<durable, boot, hosting, frame, answers, bounds, attempts,
                   client, uses>>

\* Engine::cancel retires the deadline for good, the others for a reopen.
CancelCause(by, t) ==
    IF by = "client" /\ t # "deadline" THEN "Teardown" ELSE "Cancelled"

\* The refusal of late appends dropped.
MutantRecordWorkflowEvent(type, t) == lock = "free" /\ Record(type, t)

\* record_workflow_event: nothing is appended once the run has a terminal.
record_workflow_event(type, t) ==
    /\ lock = "free"
    /\ IF outcome = "None" THEN Record(type, t)
       ELSE UNCHANGED history

CancelRecord(by, t) ==
    /\ Cancels(by, t)
    /\ slot[t] = [by |-> by, step |-> "record"]
    /\ record_workflow_event(CancelCause(by, t), t)
    /\ slot' = [slot EXCEPT ![t] = Free]
    /\ CancelReturns(by, t)
    /\ UNCHANGED <<boot, hosting, frame, answers, bounds, rows, shown, wheel,
                   attempts, client, uses>>

\* Engine::cancel logs a failed cancellation of a timer and goes on.
CancelRecordFails(t) ==
    /\ Cancels("client", t)
    /\ slot[t] = [by |-> "client", step |-> "record"]
    /\ failures < MaxFailures
    /\ failures' = failures + 1
    /\ slot' = [slot EXCEPT ![t] = Free]
    /\ CancelReturns("client", t)
    /\ UNCHANGED <<durable, boot, hosting, frame, answers, clock, wheel, attempts,
                   client, crashes, uses>>

-----------------------------------------------------------------------------
(***************************************************************************)
(* TimerService::fire_timer, from the wheel or from the boot recovery.     *)
(***************************************************************************)
\* A fire that waits until its time is past.
MutantFires(by, t) ==
    /\ Running
    /\ FireAt[t] < clock
    /\ \/ by = "wheel" /\ t \in wheel
       \/ by = "recovery" /\ phase = "recover" /\ t \in todo

Fires(by, t) ==
    /\ Running
    /\ FireAt[t] <= clock
    /\ \/ by = "wheel" /\ t \in wheel
       \/ by = "recovery" /\ phase = "recover" /\ t \in todo

\* The fire is over: the wheel task ends, recovery goes to its next row.
FireEnds(by, t) ==
    /\ slot' = [slot EXCEPT ![t] = Free]
    /\ wheel' = IF by = "wheel" THEN wheel \ {t} ELSE wheel
    /\ todo' = IF by = "recovery" THEN todo \ {t} ELSE todo

Step(t, step) == slot' = [slot EXCEPT ![t].step = step] /\ UNCHANGED <<wheel, todo>>

Holds(by, t, step) == Running /\ slot[t] = [by |-> by, step |-> step]

\* A fire that trusts its arming and does not read the history.
MutantFireCheck(by, t) ==
    /\ Fires(by, t)
    /\ slot[t] = Free
    /\ slot' = [slot EXCEPT ![t] =
                 [by |-> by, step |-> IF t = "deadline" THEN "decide" ELSE "record"]]
    /\ UNCHANGED <<durable, boot, hosting, process, caller, bounds, wheel,
                   attempts>>

\* The slot is taken, then liveness is read; a deadline goes to its handler.
FireCheck(by, t) ==
    /\ Fires(by, t)
    /\ slot[t] = Free
    /\ by = "recovery" => \A u \in Timer : slot[u].by # "recovery"
    /\ IF t \in live_timers
       THEN /\ slot' = [slot EXCEPT ![t] =
                 [by |-> by, step |-> IF t = "deadline" THEN "decide" ELSE "record"]]
            /\ UNCHANGED <<wheel, todo>>
       ELSE FireEnds(by, t)
    /\ UNCHANGED <<durable, hosting, process, caller, bounds, phase, asOf,
                   attempts>>

\* Record the fire; a deregistered run (UnknownWorkflow) and a refused
\* append both end it without a wake.
FireRecord(by, t) ==
    /\ t \in Ordinary
    /\ Holds(by, t, "record")
    /\ IF registered
       THEN record_workflow_event("Fired", t) ELSE UNCHANGED history
    /\ IF registered /\ outcome = "None"
       THEN Step(t, "deliver") ELSE FireEnds(by, t)
    /\ UNCHANGED <<hosting, process, caller, bounds, rows, shown, phase, asOf,
                   attempts>>

FireDeliver(by, t) ==
    /\ Holds(by, t, "deliver")
    /\ mail' = (mail \/ (Resident /\ Alive))
    /\ FireEnds(by, t)
    /\ UNCHANGED <<durable, hosting, answers, caller, bounds, phase, asOf,
                   attempts, pc, scope, expired, uses>>

-----------------------------------------------------------------------------
(***************************************************************************)
(* WorkflowDeadlineHandler.                                                *)
(***************************************************************************)

(***************************************************************************)
(* decide_disposition, one section of the recorder lock: append the        *)
(* timeout, resume a teardown, or lose to another terminal and retire the  *)
(* deadline it left behind.  Without a handle only the teardown of a       *)
(* recorded timeout is resumed (finalize_timed_out_without_handle).        *)
(***************************************************************************)
decide_disposition(by) ==
    /\ Holds(by, "deadline", "decide")
    /\ lock = "free"
    /\ LET outstanding == "deadline" \in live_timers
       IN  CASE outcome = "TimedOut" ->
                   UNCHANGED history /\ Step("deadline", "ordinary")
             [] outcome = "None" /\ registered /\ outstanding ->
                   RecordOutcome("TimedOut") /\ Step("deadline", "ordinary")
             [] outcome \in {"Completed", "Cancelled"} /\ registered /\ outstanding ->
                   Record("Cancelled", "deadline") /\ FireEnds(by, "deadline")
             [] OTHER -> UNCHANGED history /\ FireEnds(by, "deadline")
    /\ UNCHANGED <<hosting, process, caller, bounds, rows, shown, phase, asOf,
                   attempts>>

\* record_ordinary_timer_retirements, one append at a time.
RetireOrdinary(by) ==
    /\ Holds(by, "deadline", "ordinary")
    /\ lock = "free"
    /\ LET ordinary == live_timers \ {"deadline"}
       IN  IF ordinary = {} THEN UNCHANGED history /\ Step("deadline", "kill")
           ELSE /\ \E t \in ordinary : Record("Cancelled", t)
                /\ UNCHANGED <<slot, wheel, todo>>
    /\ UNCHANGED <<hosting, process, caller, bounds, rows, shown, phase, asOf,
                   attempts>>

KillTimedOut(by) ==
    /\ Holds(by, "deadline", "kill")
    /\ Alive => Interruptible
    /\ IF Alive THEN ProcessDies ELSE UNCHANGED <<pc, frame>>
    /\ Step("deadline", "visibility")
    /\ UNCHANGED <<durable, hosting, answers, caller, bounds, phase, asOf,
                   attempts, uses>>

ShowTimedOut(by) ==
    /\ Holds(by, "deadline", "visibility")
    /\ shown' = TRUE
    /\ Step("deadline", "retire")
    /\ UNCHANGED <<history, hosting, process, caller, bounds, rows, phase, asOf,
                   attempts>>

\* The deadline is retired last and the run is deregistered behind it.
RetireDeadline(by) ==
    /\ Holds(by, "deadline", "retire")
    /\ lock = "free"
    /\ IF "deadline" \in live_timers
       THEN Record("Cancelled", "deadline") ELSE UNCHANGED history
    /\ Step("deadline", "deregister")
    /\ UNCHANGED <<hosting, process, caller, bounds, rows, shown, phase, asOf,
                   attempts>>

Deregister(by) ==
    /\ Holds(by, "deadline", "deregister")
    /\ registered' = FALSE
    /\ FireEnds(by, "deadline")
    /\ UNCHANGED <<durable, process, caller, bounds, phase, asOf, starting,
                   attempts, lock>>

\* A failed deadline fire dropped like any other.
MutantWheelFireFails ==
    /\ Holds("wheel", "deadline", "visibility")
    /\ failures < MaxFailures
    /\ failures' = failures + 1
    /\ attempts' = attempts + 1
    /\ slot' = [slot EXCEPT !["deadline"] = Free]
    /\ wheel' = wheel \ {"deadline"}
    /\ UNCHANGED <<durable, boot, hosting, process, caller, clock, crashes>>

(***************************************************************************)
(* A failed teardown under fire_wheel_timer: retried with backoff while    *)
(* the deadline is live, MaxAttempts times in an engine epoch.             *)
(***************************************************************************)
WheelFireFails ==
    /\ Holds("wheel", "deadline", "visibility")
    /\ failures < MaxFailures
    /\ failures' = failures + 1
    /\ attempts' = attempts + 1
    /\ slot' = [slot EXCEPT !["deadline"] = Free]
    /\ wheel' = IF attempts' = MaxAttempts THEN wheel \ {"deadline"} ELSE wheel
    /\ UNCHANGED <<durable, boot, hosting, process, caller, clock, crashes>>

-----------------------------------------------------------------------------
(***************************************************************************)
(* The other terminals.                                                    *)
(***************************************************************************)

(***************************************************************************)
(* handle_process_exit: record the outcome and, under the same lock,       *)
(* retire the deadline; on a terminal recorded by another writer complete  *)
(* its retirement, except for a timeout, whose handler owns the deadline.  *)
(***************************************************************************)
handle_process_exit ==
    /\ At("exited")
    /\ ~starting
    /\ lock = "free"
    /\ IF outcome = "None"
       THEN RecordOutcome("Completed") /\ lock' = "exit" /\ pc' = "retire"
       ELSE /\ IF outcome # "TimedOut" /\ "deadline" \in live_timers
               THEN Record("Cancelled", "deadline") ELSE UNCHANGED history
            /\ pc' = "gone"
            /\ UNCHANGED lock
    /\ UNCHANGED <<boot, tasks, frame, answers, caller, bounds, rows, shown,
                   registered, starting, uses>>

\* retire_run_deadline, the second append of a terminal transition.
retire_run_deadline ==
    IF "deadline" \in live_timers
    THEN Record("Cancelled", "deadline") ELSE UNCHANGED history

MonitorRetires ==
    /\ At("retire")
    /\ retire_run_deadline
    /\ shown' = TRUE
    /\ lock' = "free"
    /\ pc' = "gone"
    /\ UNCHANGED <<boot, tasks, frame, answers, caller, bounds, rows, registered,
                   starting, uses>>

\* Engine::cancel: enumerate the live timers, cancel them one by one.
CancelRequest ==
    /\ WithClient
    /\ phase = "up"
    /\ client = "idle"
    /\ registered
    /\ client' = "timers"
    /\ cancelling' = live_timers
    /\ UNCHANGED <<durable, boot, hosting, tasks, process, bounds>>

\* terminate::cancel, first append.
ClientTerminates ==
    /\ Running
    /\ client = "timers"
    /\ cancelling = {}
    /\ lock = "free"
    /\ IF registered /\ outcome = "None"
       THEN RecordOutcome("Cancelled") /\ lock' = "client" /\ client' = "retire"
       ELSE UNCHANGED <<history, lock>> /\ client' = "done"
    /\ UNCHANGED <<boot, tasks, process, bounds, rows, shown, registered,
                   starting, cancelling>>

ClientRetires ==
    /\ Running
    /\ client = "retire"
    /\ retire_run_deadline
    /\ lock' = "free"
    /\ client' = "kill"
    /\ UNCHANGED <<boot, tasks, process, bounds, rows, shown, registered,
                   starting, cancelling>>

(***************************************************************************)
(* The second append of a transition fails: the error is returned and the  *)
(* terminal stays, with the deadline outstanding.                          *)
(***************************************************************************)
RetireFails ==
    /\ Running
    /\ lock # "free"
    /\ failures < MaxFailures
    /\ "deadline" \in live_timers
    /\ failures' = failures + 1
    /\ lock' = "free"
    /\ IF lock = "exit" THEN pc' = "gone" /\ UNCHANGED client
       ELSE client' = "done" /\ UNCHANGED pc
    /\ UNCHANGED <<durable, boot, tasks, frame, answers, clock, registered,
                   starting, cancelling, crashes, uses>>

\* Kill the process, then refresh visibility and deregister.
ClientKills ==
    /\ Running
    /\ client = "kill"
    /\ Alive => Interruptible
    /\ IF Alive THEN ProcessDies ELSE UNCHANGED <<pc, frame>>
    /\ client' = "remove"
    /\ UNCHANGED <<durable, boot, hosting, tasks, answers, bounds,
                   cancelling, uses>>

ClientRemoves ==
    /\ Running
    /\ client = "remove"
    /\ shown' = TRUE
    /\ registered' = FALSE
    /\ client' = "done"
    /\ UNCHANGED <<history, boot, tasks, process, bounds, rows, starting, lock,
                   cancelling>>

-----------------------------------------------------------------------------
(***************************************************************************)
(* Crash and boot.                                                         *)
(***************************************************************************)

\* Everything in memory is gone.
EngineDies ==
    /\ phase' = "down"
    /\ todo' = {}
    /\ asOf' = 0
    /\ registered' = FALSE
    /\ starting' = FALSE
    /\ wheel' = {}
    /\ slot' = AllFree
    /\ attempts' = 0
    /\ lock' = "free"
    /\ pc' = "none"
    /\ mail' = FALSE
    /\ scope' = "live"
    /\ expired' = FALSE
    /\ client' = IF client = "idle" THEN "idle" ELSE "done"
    /\ cancelling' = {}
    /\ UNCHANGED <<durable, answers, clock, uses>>

Crash ==
    /\ phase # "down"
    /\ crashes < MaxCrashes
    /\ crashes' = crashes + 1
    /\ EngineDies
    /\ UNCHANGED failures

\* recover_due propagates the failure of a recovered deadline: the engine
\* does not come up and is started again.
RecoveryFails ==
    /\ Holds("recovery", "deadline", "visibility")
    /\ failures < MaxFailures
    /\ failures' = failures + 1
    /\ EngineDies
    /\ UNCHANGED crashes

(***************************************************************************)
(* reconcile_visibility and sweep_uncancelled_terminal_deadlines, before   *)
(* anything is resident: the candidates are the rows with a deadline id.   *)
(***************************************************************************)
BootSweep ==
    /\ phase = "down"
    /\ phase' = "boot"
    /\ shown' = (outcome # "None")
    /\ IF /\ "deadline" \in rows \cap live_timers
          /\ outcome \in {"Completed", "Cancelled"}
       THEN Record("Cancelled", "deadline") ELSE UNCHANGED history
    /\ UNCHANGED <<hosting, tasks, process, caller, bounds, rows, todo, asOf>>

\* ReadableEventStore::expired_timers.
expired_timers == {t \in rows : FireAt[t] <= clock}

\* repopulate_active_workflows; then recover_due reads the clock and the rows.
Repopulate ==
    /\ phase = "boot"
    /\ phase' = "recover"
    /\ registered' = (outcome = "None")
    /\ pc' = IF registered' THEN Entry ELSE "none"
    /\ asOf' = clock
    /\ todo' = expired_timers
    /\ UNCHANGED <<durable, tasks, frame, answers, caller, bounds, starting, lock,
                   uses>>

\* Timers that have a row are left to the row.
MutantFutureTimers ==
    {t \in live_timers : t \notin rows /\ FireAt[t] > asOf}

\* outstanding_future_timers of an active history.
outstanding_future_timers ==
    {t \in live_timers : FireAt[t] > asOf /\ outcome = "None"}

RearmRead ==
    /\ phase = "recover"
    /\ todo = {}
    /\ phase' = "rearm"
    /\ todo' = outstanding_future_timers
    /\ UNCHANGED <<durable, hosting, tasks, process, caller, bounds, asOf>>

Rearm(t) ==
    /\ phase = "rearm"
    /\ t \in todo
    /\ schedule(t)
    /\ todo' = todo \ {t}
    /\ UNCHANGED <<history, hosting, process, caller, bounds, shown, phase, asOf,
                   slot, attempts>>

BootDone ==
    /\ phase = "rearm"
    /\ todo = {}
    /\ phase' = "up"
    /\ asOf' = 0
    /\ UNCHANGED <<durable, hosting, tasks, process, caller, bounds, todo>>

-----------------------------------------------------------------------------
Process ==
    \/ start_timer
    \/ arm_scope
    \/ \E t \in Ordinary : ScheduleRow(t)
    \/ sleep
    \/ park_sleep_settled
    \/ resume_with_timeout
    \/ settle_live_scope
    \/ cancel_timer
    \/ Exit
    \/ \E t \in Ordinary : CancelCheck("process", t) \/ CancelRecord("process", t)

Monitor == handle_process_exit \/ MonitorRetires

ClientCancel ==
    \/ \E t \in Timer : CancelCheck("client", t) \/ CancelRecord("client", t)
    \/ ClientTerminates
    \/ ClientRetires
    \/ ClientKills
    \/ ClientRemoves

Fire(by, t) == FireCheck(by, t) \/ FireRecord(by, t) \/ FireDeliver(by, t)

Handle(by) ==
    \/ decide_disposition(by)
    \/ RetireOrdinary(by)
    \/ KillTimedOut(by)
    \/ ShowTimedOut(by)
    \/ RetireDeadline(by)
    \/ Deregister(by)

Boot ==
    \/ BootSweep
    \/ Repopulate
    \/ RearmRead
    \/ \E t \in Timer : Rearm(t)
    \/ BootDone

(***************************************************************************)
(* Fairness: the system never stops while one of its tasks can run (the    *)
(* process, its monitor, a wheel task, the start or cancel in progress,    *)
(* the boot; a dead engine is started again).  Every task is finite, so    *)
(* none of them has to be fair by itself.  Neither the passing of time,    *)
(* nor a client's request, nor a failure is fair.                          *)
(***************************************************************************)
System ==
    \/ ArmDeadline
    \/ Process
    \/ Monitor
    \/ ClientCancel
    \/ \E by \in {"wheel", "recovery"} : Handle(by) \/ \E t \in Timer : Fire(by, t)
    \/ Boot

Next ==
    \/ System
    \/ Tick
    \/ CancelRequest
    \/ \E t \in Timer : CancelRecordFails(t)
    \/ WheelFireFails
    \/ RetireFails
    \/ Crash
    \/ RecoveryFails

Spec == Init /\ [][Next]_vars

FairSpec == Spec /\ WF_vars(System)

-----------------------------------------------------------------------------
(***************************************************************************)
(* Properties.                                                             *)
(***************************************************************************)

\* Every variable keeps its type.
TypeOK ==
    /\ last \in [Timer -> TimerTerminals \cup {"None", "Started"}]
    /\ outcome \in RunTerminals \cup {"None"}
    /\ rows \subseteq Timer
    /\ clock \in 0 .. MaxClock
    /\ shown \in BOOLEAN
    /\ phase \in {"down", "boot", "recover", "rearm", "up"}
    /\ todo \subseteq Timer
    /\ asOf \in 0 .. MaxClock
    /\ registered \in BOOLEAN
    /\ starting \in BOOLEAN
    /\ wheel \subseteq Timer
    /\ slot \in [Timer -> Slot]
    /\ attempts \in 0 .. MaxAttempts
    /\ lock \in {"free", "exit", "client"}
    /\ uses \in {"named", "scope"}
    /\ pc \in {"none", "start", "row_named", "arm", "row_scope", "sleep", "row_sleep",
               "parked", "cancel_sleep", "read_sleep", "settle", "cancel_scope",
               "read_scope", "cancel_timer", "done", "exited", "retire", "gone"}
    /\ mail \in BOOLEAN
    /\ scope \in {"fired", "cancelled", "live"}
    /\ expired \in BOOLEAN
    /\ client \in {"idle", "timers", "retire", "kill", "remove", "done"}
    /\ cancelling \subseteq Timer
    /\ sleeps \subseteq {"fired", "cancelled", "error"}
    /\ scopes \subseteq {"expired", "ok", "error"}
    /\ crashes \in 0 .. MaxCrashes
    /\ failures \in 0 .. MaxFailures

\* "first-recorded-wins" (timer_service.rs:174, nif_timer.rs:133): whatever
\* fires, cancels and retirements race, and wherever the engine dies, the
\* terminal recorded for a timer is never followed by another.
FirstRecordedWins ==
    [][\A t \in Timer : last[t] \in TimerTerminals => last'[t] = last[t]]_vars

\* The late-append refusal of record_workflow_event: no timer fires in a run
\* that has ended, although its wheel tasks are never taken down; and among
\* the deadline handler, the exit monitor and a cancel one writes the end.
NothingFiresAfterTheEnd ==
    [][outcome # "None" => /\ outcome' = outcome
                           /\ \A t \in Timer : last'[t] = "Fired" => last[t] = "Fired"]_vars

\* N-3 (nif_timer.rs:136-137): the answer of a sleep and of a with_timeout is
\* the recorded terminal, so a replay after a crash answers what the first
\* execution answered.
ReplayAgrees ==
    /\ \A a, b \in sleeps : a = b
    /\ \A a, b \in scopes : a = b

(***************************************************************************)
(* An armed timer is never dropped: in an engine that is up, every live    *)
(* timer of a running run whose row was written has a wheel task, or a     *)
(* fire or cancellation of it is in progress.  Only a cancel of the run,   *)
(* which disarms before it records, may leave a timer behind, and the      *)
(* run's own terminal follows.                                             *)
(***************************************************************************)
RowedTimersAreDriven ==
    phase = "up" /\ Alive /\ client # "timers" /\ outcome = "None" =>
        \A t \in rows \cap live_timers : t \in wheel \/ slot[t] # Free

\* "Retire the deadline LAST" (lifecycle/deadline.rs:245): the deadline of a
\* timed-out run is the anchor its teardown resumes from, so it is gone only
\* when the visibility row shows the timeout.
RetiredLast ==
    outcome = "TimedOut" /\ "deadline" \notin live_timers
        => shown

\* D5 across a restart ("no history can hold a terminal + an uncancelled
\* recorded deadline across a restart", startup_sweeps.rs:236-237): once the
\* engine hosts runs again, a run it did not repopulate has no deadline left
\* behind by a completion or a cancel that was cut between its two appends.
NoOrphanedDeadlineAfterBoot ==
    /\ Running /\ pc = "none"
    /\ outcome \in {"Completed", "Cancelled"}
    /\ "deadline" \in rows
    => "deadline" \notin live_timers

\* Types, no armed timer dropped in any interleaving of the wheel, the run's
\* program, a cancel and a boot, and no deadline retired too early or left behind.
Inv == TypeOK /\ RowedTimersAreDriven /\ RetiredLast /\ NoOrphanedDeadlineAfterBoot

\* A timer whose row was written and whose time has come is settled, or its
\* run has ended: the wheel, or the next boot, gets to it.
DueTimersSettle ==
    <>[](outcome = "None" => \A t \in rows \cap live_timers : FireAt[t] > clock)

(***************************************************************************)
(* The teardown of a timed-out run is finished, by the wheel's retries or  *)
(* by the recovery of the next boot.  Two things leave it to a restart: an *)
(* engine epoch that used up its attempts, and a cancel of the run, which  *)
(* disarms the retrying task and may then not record.                      *)
(***************************************************************************)
TimedOutIsTornDown ==
    <>[](outcome = "TimedOut" =>
            \/ "deadline" \notin live_timers
            \/ attempts = MaxAttempts
            \/ client # "idle")

=============================================================================
