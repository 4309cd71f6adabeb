------------------------------ MODULE Children ------------------------------
(***************************************************************************)
(* Child workflows: crates/aion/src/runtime/nif_child*.rs and the startup  *)
(* sweeps over recorded children, for one parent run of                    *)
(*                                                                         *)
(*     spawn a; spawn b; with_timeout { await a }; await a                 *)
(*                                                                         *)
(* where b is started and forgotten.  A spawn records the child in the     *)
(* parent and only then starts it; a start that fails is retried in the    *)
(* background, by the sweep of the next boot, or by the sweep of a reopen. *)
(* A watcher task follows the awaited child's history through              *)
(* continue-as-new to its end and records that end in the parent, through  *)
(* the recorder the process, the timers and the exit monitor share.        *)
(*                                                                         *)
(* Abstracted: the race for the terminal of the scope's timer (module      *)
(* Timers), queries, what b does once it runs, and a live parent that      *)
(* refuses the watcher's marker beyond the retries of its delivery.  Only  *)
(* a failed parent is reopened, not a cancelled one.  An append of the     *)
(* watcher is two steps, the request and its completion, because the task  *)
(* can be aborted in between: the haematite store runs the append on the   *)
(* blocking pool, where it completes without the task that asked for it.   *)
(***************************************************************************)
EXTENDS Integers, Sequences, FiniteSets

CONSTANTS
    MaxCrashes,    \* bound on engine crashes
    MaxFailures,   \* bound on failing starts and failing appends of the watcher
    MaxContinues,  \* bound on continue-as-new of the awaited child
    MaxReopens     \* bound on reopens of the parent

ASSUME ChildrenConstants ==
    /\ MaxCrashes \in Nat
    /\ MaxFailures \in Nat
    /\ MaxContinues \in Nat
    /\ MaxReopens \in Nat

Child == {"a", "b"}
Awaited == "a"
Outcome == {"completed", "failed"}

VARIABLES
    history,    \* durable: the events of the parent's run
    child,      \* durable, but for live: each child's history in brief
    up,         \* the engine runs
    registered, \* the parent has a handle
    head,       \* its recorder's sequence: how much it believes is recorded
    pc,         \* the parent's process
    mail,       \* a wake marker is queued
    scope,      \* TimeoutScope.replay_timed_out: fired, cancelled or live
    killing,    \* a cancel is recorded and the process not yet killed
    waking,     \* the timer service has recorded a fire and not yet woken
    watch,      \* the watcher armed for (parent, a)
    detached,   \* an append that lost its task: its event and sequence
    retry,      \* each child's spawn-recovery task
    sweep,      \* the sweep of a boot or a reopen
    got,        \* every answer of each await, replays included
    crashes, failures, continues, reopens

bounds == <<crashes, failures, continues, reopens>>
process == <<pc, mail, scope>>
vars == <<history, child, up, registered, head, process, killing, waking, watch,
          detached, retry, sweep, got, bounds>>

Ends == {"Completed", "Failed", "Cancelled"}

Event(type, of) == [type |-> type, of |-> of]
ChildTerminal(outcome) == Event("ChildTerminal", outcome)
Events ==
    {Event("ChildStarted", c) : c \in Child}
    \cup {ChildTerminal(outcome) : outcome \in Outcome}
    \cup {Event(t, "scope") : t \in {"TimerStarted", "TimerFired", "TimerCancelled"}}
    \cup {Event(t, "run") : t \in Ends \cup {"Reopened"}}

Recorded(type) == \E i \in DOMAIN history : history[i].type = type
SpawnRecorded(c) == \E i \in DOMAIN history : history[i] = Event("ChildStarted", c)
TerminalAt(i) == i \in DOMAIN history /\ history[i].type = "ChildTerminal"
TerminalRecorded == Recorded("ChildTerminal")

\* run_has_terminal_history: a reopen supersedes the end before it.
EndOf(events) == IF \E i \in DOMAIN events : events[i].type \in Ends \cup {"Reopened"}
                 THEN LET last == CHOOSE i \in DOMAIN events :
                                    /\ events[i].type \in Ends \cup {"Reopened"}
                                    /\ \A j \in i + 1 .. Len(events) :
                                         events[j].type \notin Ends \cup {"Reopened"}
                      IN  events[last].type
                 ELSE "Reopened"
run_has_terminal_history == EndOf(history) # "Reopened"

Task(step, seq) == [step |-> step, seq |-> seq]
Off == Task("off", 0)
NoWatch == [step |-> "off", outcome |-> "none"]
NoSweep == [left |-> <<>>, task |-> Off, boot |-> FALSE]
NoAppend == [outcome |-> "none", seq |-> 0]

Init ==
    /\ history = <<>>
    /\ child = [c \in Child |-> [seq |-> 0, starts |-> 0, state |-> "absent",
                                 live |-> FALSE, outcomes |-> {}]]
    /\ up = TRUE
    /\ registered = TRUE
    /\ head = 0
    /\ pc = "spawn_a"
    /\ mail = FALSE
    /\ scope = "live"
    /\ killing = FALSE
    /\ waking = FALSE
    /\ watch = NoWatch
    /\ detached = NoAppend
    /\ retry = [c \in Child |-> Off]
    /\ sweep = NoSweep
    /\ got = [call \in {"first", "second"} |-> {}]
    /\ crashes = 0 /\ failures = 0 /\ continues = 0 /\ reopens = 0

-----------------------------------------------------------------------------
(***************************************************************************)
(* The parent's recorder: a lock, and an append that succeeds only at the  *)
(* head of the stored history.                                             *)
(***************************************************************************)
Locked == watch.step = "append"
InStep == head = Len(history)

Record(event) ==
    /\ InStep
    /\ history' = Append(history, event)
    /\ head' = head + 1

Conflict == ~InStep /\ UNCHANGED <<history, head>>

At(labels) == up /\ pc \in labels
Alive == pc \notin {"none", "exited", "gone", "wedged"}

\* cleanup_process and abort_watch: the task goes; an append it has under
\* way stays with the store.
AbortWatch ==
    /\ watch' = NoWatch
    /\ detached' = IF watch.step = "append"
                   THEN [outcome |-> watch.outcome, seq |-> head] ELSE detached

\* Recorder::resume_at: the sequence of a recorder made for a history.
resume_at(events) == Len(events)

-----------------------------------------------------------------------------
(***************************************************************************)
(* start_workflow_with_options under a recorded id, at the head it read.   *)
(* It may fail before it records anything, or behind the WorkflowStarted   *)
(* (visibility, spawn, deadline): then the child exists without a process. *)
(***************************************************************************)
WithStart(c, lives) ==
    [child EXCEPT ![c].seq = @ + 1, ![c].starts = @ + 1, ![c].state = "running",
                  ![c].live = @ \/ lives]

start_workflow(c, seq, Ok, Err) ==
    \/ /\ child[c].seq = seq
       /\ child' = WithStart(c, TRUE)
       /\ Ok
       /\ UNCHANGED failures
    \/ /\ child[c].seq # seq
       /\ Err
       /\ UNCHANGED <<child, failures>>
    \/ /\ child[c].seq = seq
       /\ failures < MaxFailures
       /\ failures' = failures + 1
       /\ child' \in {child, WithStart(c, FALSE)}
       /\ Err

SpawnLabel == [a |-> "spawn_a", b |-> "spawn_b"]
StartLabel == [a |-> "start_a", b |-> "start_b"]
AfterSpawn == [a |-> "spawn_b", b |-> "arm"]

\* run_spawn_child: a recorded spawn answers, a live one is recorded first ...
spawn_child(c) ==
    /\ At({SpawnLabel[c]})
    /\ IF SpawnRecorded(c)
       THEN pc' = AfterSpawn[c] /\ UNCHANGED <<history, head>>
       ELSE /\ ~Locked
            /\ Record(Event("ChildStarted", c))
            /\ pc' = StartLabel[c]
    /\ UNCHANGED <<killing, child, up, registered, mail, scope, waking, watch,
                   detached, retry, sweep, got, bounds>>

\* Nobody takes over a start that failed.
MutantSpawnStarts(c) ==
    /\ At({StartLabel[c]})
    /\ start_workflow(c, 0, UNCHANGED retry, UNCHANGED retry)
    /\ pc' = AfterSpawn[c]
    /\ UNCHANGED <<killing, history, up, registered, head, mail, scope, waking,
                   watch, detached, sweep, got, crashes, continues, reopens>>

\* ... and started behind the record; a failure is not the workflow's to see.
SpawnStarts(c) ==
    /\ At({StartLabel[c]})
    /\ start_workflow(c, 0, UNCHANGED retry,
                      retry' = [retry EXCEPT ![c] = Task("check", 0)])
    /\ pc' = AfterSpawn[c]
    /\ UNCHANGED <<killing, history, up, registered, head, mail, scope, waking,
                   watch, detached, sweep, got, crashes, continues, reopens>>

\* run_spawn_retry: store truth, the head, the start, and again.
run_spawn_retry(c) ==
    /\ up
    /\ LET to(step, seq) == retry' = [retry EXCEPT ![c] = Task(step, seq)]
       IN  \/ /\ retry[c].step = "check"
              /\ IF child[c].starts > 0 THEN to("off", 0) ELSE to("read", 0)
              /\ UNCHANGED <<child, failures>>
           \/ /\ retry[c].step = "read"
              /\ to("start", child[c].seq)
              /\ UNCHANGED <<child, failures>>
           \/ /\ retry[c].step = "start"
              /\ start_workflow(c, retry[c].seq, to("off", 0), to("check", 0))
    /\ UNCHANGED <<killing, history, up, registered, head, process, waking, watch,
                   detached, sweep, got, crashes, continues, reopens>>

-----------------------------------------------------------------------------
(***************************************************************************)
(* await_child under with_timeout, and behind it.                          *)
(***************************************************************************)
arm_scope ==
    /\ At({"arm"})
    /\ IF Recorded("TimerStarted")
       THEN /\ scope' = IF Recorded("TimerFired") THEN "fired"
                        ELSE IF Recorded("TimerCancelled") THEN "cancelled" ELSE "live"
            /\ UNCHANGED <<history, head>>
       ELSE /\ ~Locked
            /\ Record(Event("TimerStarted", "scope"))
            /\ UNCHANGED scope
    /\ pc' = "first"
    /\ UNCHANGED <<killing, child, up, registered, mail, waking, watch, detached,
                   retry, sweep, got, bounds>>

Call == IF pc \in {"first", "first_parked"} THEN "first" ELSE "second"
ParkedAt == IF Call = "first" THEN "first_parked" ELSE "second_parked"
Parked == pc \in {"first_parked", "second_parked"}

expired_scope_deadline ==
    Call = "first" /\
        (scope = "fired" \/ (scope = "live" /\ Recorded("TimerFired")))

\* Any expiry loses against a recorded terminal.
MutantScopeExpired == FALSE

\* F1b: the terminal recorded behind the fire was not seen by the live run.
scope_expired_before_child_terminal ==
    /\ expired_scope_deadline
    /\ \E i \in DOMAIN history :
         /\ history[i].type = "TimerFired"
         /\ \A j \in DOMAIN history : TerminalAt(j) => i < j

Answer(answer) ==
    /\ got' = [got EXCEPT ![Call] = @ \cup {answer}]
    /\ pc' = IF Call = "first" THEN "settle" ELSE "exit"

\* await_child_step, on the first arrival and on every wake.  The expiry is
\* judged on the snapshot the resolution was made from.
await_child ==
    /\ At({"first", "first_parked", "second", "second_parked"})
    /\ Parked => mail
    /\ mail' = FALSE
    /\ CASE TerminalRecorded /\ scope_expired_before_child_terminal ->
                Answer("timeout") /\ AbortWatch
         [] TerminalRecorded /\ ~scope_expired_before_child_terminal ->
                /\ \E i \in DOMAIN history : TerminalAt(i) /\ Answer(history[i].of)
                /\ UNCHANGED <<watch, detached>>
         [] ~TerminalRecorded /\ expired_scope_deadline ->
                Answer("timeout") /\ AbortWatch
         [] ~TerminalRecorded /\ ~expired_scope_deadline ->
                /\ watch' = IF watch = NoWatch THEN [NoWatch EXCEPT !.step = "poll"]
                            ELSE watch
                /\ pc' = ParkedAt
                /\ UNCHANGED <<got, detached>>
    /\ UNCHANGED <<killing, history, child, up, registered, head, scope, waking,
                   retry, sweep, bounds>>

\* resume_with_timeout: cancel the scope's timer unless it has fired.
resume_with_timeout ==
    /\ At({"settle"})
    /\ IF scope = "live" /\ ~Recorded("TimerFired") /\ ~Recorded("TimerCancelled")
       THEN ~Locked /\ Record(Event("TimerCancelled", "scope"))
       ELSE UNCHANGED <<history, head>>
    /\ pc' = "second"
    /\ UNCHANGED <<killing, child, up, registered, mail, scope, waking, watch,
                   detached, retry, sweep, got, bounds>>

ScopeFires ==
    /\ up
    /\ registered
    /\ ~Locked
    /\ ~run_has_terminal_history
    /\ Recorded("TimerStarted") /\ ~Recorded("TimerFired") /\ ~Recorded("TimerCancelled")
    /\ Record(Event("TimerFired", "scope"))
    /\ waking' = TRUE
    /\ UNCHANGED <<killing, child, up, registered, process, watch, detached, retry,
                   sweep, got, bounds>>

ScopeWakes ==
    /\ up
    /\ waking
    /\ waking' = FALSE
    /\ mail' = (mail \/ Alive)
    /\ UNCHANGED <<killing, history, child, up, registered, head, pc, scope, watch,
                   detached, retry, sweep, got, bounds>>

-----------------------------------------------------------------------------
(***************************************************************************)
(* The end of the parent.                                                  *)
(***************************************************************************)
\* The process exits: cleanup_process aborts the watchers of its pid.
ProcessExits ==
    /\ At({"exit"})
    /\ pc' = "exited"
    /\ AbortWatch
    /\ UNCHANGED <<killing, history, child, up, registered, head, mail, scope,
                   waking, retry, sweep, got, bounds>>

\* The exit monitor.  When its append conflicts the error is logged and the
\* run keeps its handle, without a process and without an end.
handle_process_exit ==
    /\ At({"exited"})
    /\ ~Locked
    /\ IF run_has_terminal_history
       THEN pc' = "gone" /\ registered' = FALSE /\ UNCHANGED <<history, head>>
       ELSE \/ /\ \E end \in {"Completed", "Failed"} : Record(Event(end, "run"))
               /\ pc' = "gone"
               /\ registered' = FALSE
            \/ Conflict /\ pc' = "wedged" /\ UNCHANGED registered
    /\ UNCHANGED <<killing, child, up, mail, scope, waking, watch, detached, retry,
                   sweep, got, bounds>>

\* A client's cancel: the terminal first ...
Cancel ==
    /\ up
    /\ registered
    /\ ~Locked
    /\ ~run_has_terminal_history
    /\ Record(Event("Cancelled", "run"))
    /\ killing' = TRUE
    /\ UNCHANGED <<child, up, registered, process, waking, watch, detached, retry,
                   sweep, got, bounds>>

\* ... and then the process is killed, between two of its calls.
Kill ==
    /\ up
    /\ killing
    /\ pc \notin {"start_a", "start_b"}
    /\ killing' = FALSE
    /\ IF Alive THEN pc' = "exited" /\ AbortWatch
       ELSE UNCHANGED <<pc, watch, detached>>
    /\ UNCHANGED <<history, child, up, registered, head, mail, scope, waking,
                   retry, sweep, got, bounds>>

-----------------------------------------------------------------------------
(***************************************************************************)
(* The watcher.                                                            *)
(***************************************************************************)
\* A continued run is an end like any other.
MutantContinuedIsAnEnd ==
    /\ up
    /\ watch.step = "poll"
    /\ child[Awaited].state \in Outcome \cup {"continued"}
    /\ watch' = [step |-> "record",
                 outcome |-> IF child[Awaited].state = "continued" THEN "failed"
                             ELSE child[Awaited].state]
    /\ UNCHANGED <<killing, history, child, up, registered, head, process, waking,
                   detached, retry, sweep, got, bounds>>

\* Only the doorbell of a live run is waited for.
MutantWaitForChildTerminal ==
    /\ up
    /\ watch.step = "poll"
    /\ child[Awaited].live
    /\ child[Awaited].state \in Outcome
    /\ watch' = [step |-> "record", outcome |-> child[Awaited].state]
    /\ UNCHANGED <<killing, history, child, up, registered, head, process, waking,
                   detached, retry, sweep, got, bounds>>

\* Reads of the child's history until its latest run has really ended.
wait_for_child_terminal ==
    /\ up
    /\ watch.step = "poll"
    /\ child[Awaited].state \in Outcome
    /\ watch' = [step |-> "record", outcome |-> child[Awaited].state]
    /\ UNCHANGED <<killing, history, child, up, registered, head, process, waking,
                   detached, retry, sweep, got, bounds>>

\* Under the recorder lock: nothing for an ended parent, nothing twice.
record_parent_child_terminal ==
    /\ up
    /\ watch.step = "record"
    /\ watch' = IF run_has_terminal_history THEN NoWatch
                ELSE [watch EXCEPT !.step = IF TerminalRecorded THEN "wake"
                                            ELSE "append"]
    /\ UNCHANGED <<killing, history, child, up, registered, head, process, waking,
                   detached, retry, sweep, got, bounds>>

\* A failed append ends the watch.
MutantWatchAppends ==
    /\ up
    /\ watch.step = "append"
    /\ \/ /\ Record(ChildTerminal(watch.outcome))
          /\ watch' = [watch EXCEPT !.step = "wake"]
          /\ UNCHANGED failures
       \/ /\ failures < MaxFailures
          /\ failures' = failures + 1
          /\ watch' = NoWatch
          /\ UNCHANGED <<history, head>>
    /\ UNCHANGED <<killing, child, up, registered, process, waking, detached,
                   retry, sweep, got, crashes, continues, reopens>>

\* F5: an append that fails or conflicts is tried again.
WatchAppends ==
    /\ up
    /\ watch.step = "append"
    /\ \/ /\ Record(ChildTerminal(watch.outcome))
          /\ watch' = [watch EXCEPT !.step = "wake"]
          /\ UNCHANGED failures
       \/ /\ Conflict
          /\ watch' = [watch EXCEPT !.step = "record"]
          /\ UNCHANGED failures
       \/ /\ failures < MaxFailures
          /\ failures' = failures + 1
          /\ watch' = [watch EXCEPT !.step = "record"]
          /\ UNCHANGED <<history, head>>
    /\ UNCHANGED <<killing, child, up, registered, process, waking, detached,
                   retry, sweep, got, crashes, continues, reopens>>

\* A live parent takes the marker; for one that is gone the event is recorded.
WatchWakes ==
    /\ up
    /\ watch.step = "wake"
    /\ watch' = NoWatch
    /\ mail' = (mail \/ Alive)
    /\ UNCHANGED <<killing, history, child, up, registered, head, pc, scope,
                   waking, detached, retry, sweep, got, bounds>>

\* The store finishes an append nobody waits for: no recorder counts it.
DetachedLands ==
    /\ up
    /\ detached # NoAppend
    /\ detached' = NoAppend
    /\ history' = IF detached.seq = Len(history)
                  THEN Append(history, ChildTerminal(detached.outcome)) ELSE history
    /\ UNCHANGED <<killing, child, up, registered, head, process, waking, watch,
                   retry, sweep, got, bounds>>

-----------------------------------------------------------------------------
(***************************************************************************)
(* The awaited child: it ends, or continues as new and its exit monitor    *)
(* starts the successor.                                                   *)
(***************************************************************************)
ChildEnds ==
    /\ up
    /\ child[Awaited].live
    /\ child[Awaited].state = "running"
    /\ \E outcome \in Outcome :
         child' = [child EXCEPT ![Awaited].seq = @ + 1, ![Awaited].state = outcome,
                                ![Awaited].live = FALSE,
                                ![Awaited].outcomes = @ \cup {outcome}]
    /\ UNCHANGED <<killing, history, up, registered, head, process, waking, watch,
                   detached, retry, sweep, got, bounds>>

ChildContinues ==
    /\ up
    /\ child[Awaited].live
    /\ child[Awaited].state = "running"
    /\ continues < MaxContinues
    /\ continues' = continues + 1
    /\ child' = [child EXCEPT ![Awaited].seq = @ + 1, ![Awaited].state = "continued"]
    /\ UNCHANGED <<killing, history, up, registered, head, process, waking, watch,
                   detached, retry, sweep, got, crashes, failures, reopens>>

ChildSucceeds ==
    /\ up
    /\ child[Awaited].live
    /\ child[Awaited].state = "continued"
    /\ child' = [child EXCEPT ![Awaited].seq = @ + 1, ![Awaited].state = "running"]
    /\ UNCHANGED <<killing, history, up, registered, head, process, waking, watch,
                   detached, retry, sweep, got, bounds>>

-----------------------------------------------------------------------------
(***************************************************************************)
(* Crash, boot, reopen, and the sweep of the latter two.                   *)
(***************************************************************************)
Fall ==
    /\ up' = FALSE
    /\ registered' = FALSE
    /\ head' = 0
    /\ pc' = "none"
    /\ mail' = FALSE
    /\ scope' = "live"
    /\ killing' = FALSE
    /\ waking' = FALSE
    /\ watch' = NoWatch
    /\ detached' = NoAppend
    /\ retry' = [c \in Child |-> Off]
    /\ sweep' = NoSweep

Crash ==
    /\ up
    /\ crashes < MaxCrashes
    /\ crashes' = crashes + 1
    /\ Fall
    /\ UNCHANGED <<history, child, got, failures, continues, reopens>>

\* The children of the current segment without a parent-side terminal.
Unfinished ==
    (IF SpawnRecorded("a") /\ ~TerminalRecorded THEN <<"a">> ELSE <<>>)
    \o (IF SpawnRecorded("b") THEN <<"b">> ELSE <<>>)

Sweep(boot) == [left |-> Unfinished, task |-> Task("check", 0), boot |-> boot]

\* The continued runs are swept behind the recorded children.
SweepContinued(children) ==
    [c \in Child |-> IF children[c].state = "continued"
                     THEN [children[c] EXCEPT !.seq = @ + 1, !.state = "running",
                                              !.live = TRUE]
                     ELSE children[c]]

\* Active runs are respawned; an ended parent is not, nor are its children
\* looked at.
Boot ==
    /\ ~up
    /\ up' = TRUE
    /\ LET respawned == [c \in Child |->
                           [child[c] EXCEPT !.live = child[c].state = "running"]]
       IN  IF run_has_terminal_history
           THEN /\ child' = SweepContinued(respawned)
                /\ UNCHANGED <<registered, head, pc, sweep>>
           ELSE /\ child' = respawned
                /\ registered' = TRUE
                /\ head' = resume_at(history)
                /\ pc' = "spawn_a"
                /\ sweep' = Sweep(TRUE)
    /\ UNCHANGED <<killing, history, mail, scope, waking, watch, detached, retry,
                   got, bounds>>

\* reopen: a new recorder at the head just read, a new process, the sweep.
Reopen ==
    /\ up
    /\ pc \in {"none", "gone"}
    /\ EndOf(history) = "Failed"
    /\ reopens < MaxReopens
    /\ reopens' = reopens + 1
    /\ history' = Append(history, Event("Reopened", "run"))
    /\ head' = resume_at(history) + 1
    /\ registered' = TRUE
    /\ pc' = "spawn_a"
    /\ mail' = FALSE
    /\ scope' = "live"
    /\ sweep' = Sweep(FALSE)
    /\ UNCHANGED <<killing, child, up, waking, watch, detached, retry, got,
                   crashes, failures, continues>>

SweepTo(step, seq) == sweep' = [sweep EXCEPT !.task = Task(step, seq)]
SweepNext == sweep' = [sweep EXCEPT !.left = Tail(@), !.task = Task("check", 0)]

\* sweep_recorded_children: an empty history means the child never started.
SweepChecks ==
    /\ up
    /\ sweep.left # <<>>
    /\ sweep.task.step = "check"
    /\ IF child[Head(sweep.left)].starts > 0 THEN SweepNext ELSE SweepTo("read", 0)
    /\ UNCHANGED <<killing, history, child, up, registered, head, process, waking,
                   watch, detached, retry, got, bounds>>

SweepReads ==
    /\ up
    /\ sweep.left # <<>>
    /\ sweep.task.step = "read"
    /\ SweepTo("start", child[Head(sweep.left)].seq)
    /\ UNCHANGED <<killing, history, child, up, registered, head, process, waking,
                   watch, detached, retry, got, bounds>>

\* A start that fails ends the sweep, and with it the reopen or, by the
\* failing build, the engine.
SweepStarts ==
    /\ up
    /\ sweep.left # <<>>
    /\ sweep.task.step = "start"
    /\ start_workflow(Head(sweep.left), sweep.task.seq,
         SweepNext /\ UNCHANGED <<up, registered, head, process, killing, waking, watch,
                                  detached, retry>>,
         IF sweep.boot
         THEN Fall
         ELSE sweep' = NoSweep /\ UNCHANGED <<up, registered, head, process, killing, waking,
                                              watch, detached, retry>>)
    /\ UNCHANGED <<history, got, crashes, continues, reopens>>

\* The sweep of a boot is followed by the one over continued runs.
SweepDone ==
    /\ up
    /\ sweep.left = <<>>
    /\ sweep # NoSweep
    /\ sweep' = NoSweep
    /\ child' = IF sweep.boot THEN SweepContinued(child) ELSE child
    /\ UNCHANGED <<killing, history, up, registered, head, process, waking, watch,
                   detached, retry, got, bounds>>

-----------------------------------------------------------------------------
(***************************************************************************)
(* Fairness: the process, its monitor, the tasks, the store, the boot and  *)
(* its sweep, and the successor of a continued child.  What the awaited    *)
(* child does, the passing of time, clients and failures are not fair.     *)
(***************************************************************************)
Parent ==
    \/ \E c \in Child : spawn_child(c) \/ SpawnStarts(c)
    \/ arm_scope
    \/ await_child
    \/ resume_with_timeout
    \/ ProcessExits
    \/ handle_process_exit
    \/ Kill
    \/ ScopeWakes

Watcher ==
    \/ wait_for_child_terminal
    \/ record_parent_child_terminal
    \/ WatchAppends
    \/ WatchWakes

Recovery ==
    \/ SweepChecks
    \/ SweepReads
    \/ SweepStarts
    \/ SweepDone
    \/ Boot

Next ==
    \/ Parent
    \/ Watcher
    \/ DetachedLands
    \/ \E c \in Child : run_spawn_retry(c)
    \/ Recovery
    \/ ChildSucceeds
    \/ ScopeFires
    \/ ChildEnds
    \/ ChildContinues
    \/ Cancel
    \/ Reopen
    \/ Crash

Spec == Init /\ [][Next]_vars
FairSpec ==
    /\ Spec
    /\ WF_vars(Parent)
    /\ WF_vars(Watcher)
    /\ WF_vars(DetachedLands)
    /\ \A c \in Child : WF_vars(run_spawn_retry(c))
    /\ WF_vars(Recovery)
    /\ WF_vars(ChildSucceeds)

-----------------------------------------------------------------------------
(***************************************************************************)
(* Properties.                                                             *)
(***************************************************************************)
Tasks == [step : {"off", "check", "read", "start"}, seq : Nat]

\* Every variable keeps its type, and the recorder is never ahead of the
\* store nor more than the one lost append behind.
TypeOK ==
    /\ history \in Seq(Events)
    /\ child \in [Child -> [seq : Nat, starts : Nat,
                            state : Outcome \cup {"absent", "running", "continued"},
                            live : BOOLEAN, outcomes : SUBSET Outcome]]
    /\ {up, registered, mail, killing, waking} \subseteq BOOLEAN
    /\ head \in Nat
    /\ registered => Len(history) - head \in {0, 1}
    /\ pc \in {"none", "spawn_a", "start_a", "spawn_b", "start_b", "arm", "first",
               "first_parked", "settle", "second", "second_parked", "exit", "exited",
               "gone", "wedged"}
    /\ scope \in {"fired", "cancelled", "live"}
    /\ watch \in [step : {"off", "poll", "record", "append", "wake"},
                  outcome : Outcome \cup {"none"}]
    /\ detached \in [outcome : Outcome \cup {"none"}, seq : Nat]
    /\ retry \in [Child -> Tasks]
    /\ sweep \in [left : Seq(Child), task : Tasks, boot : BOOLEAN]
    /\ Len(sweep.left) <= 2
    /\ got \in [{"first", "second"} -> SUBSET (Outcome \cup {"timeout"})]
    /\ crashes \in 0 .. MaxCrashes
    /\ failures \in 0 .. MaxFailures
    /\ continues \in 0 .. MaxContinues
    /\ reopens \in 0 .. MaxReopens

\* F1 and N-1 (nif_child.rs:349-363): an execution after a crash or a reopen
\* gives every await the answer the first execution gave, although the
\* watcher records the child's end whenever it comes to it, with or without
\* the await it was armed for.
ReplayAgrees == \A call \in {"first", "second"} : Cardinality(got[call]) <= 1

Terminals == {i \in DOMAIN history : TerminalAt(i)}

\* "idempotently, under the parent recorder lock" (nif_child_watch.rs:233-234):
\* one end of the child is recorded in the parent, and it is the end one of
\* its runs came to, not a continue-as-new on the way.
RecordedOnceAndTrue ==
    /\ Cardinality(Terminals) <= 1
    /\ \A i \in Terminals : history[i].of \in child[Awaited].outcomes

\* "a racing exit monitor can never interleave a terminal between the check
\* and the write" (nif_child_watch.rs:238-239): neither the end of a child
\* nor a fire is recorded behind the end of the parent, by a watcher that
\* outlives the process or by an append that outlives the watcher.
NoArrivalAfterTheEnd ==
    \A i \in DOMAIN history :
        history[i].type \in {"ChildTerminal", "TimerFired"} =>
            EndOf(SubSeq(history, 1, i)) = "Reopened"

\* "no path starts a duplicate" (startup_sweeps.rs:26-28) as long as no
\* reopen sweeps while a spawn-recovery task runs.
StartedOnce == reopens = 0 => \A c \in Child : child[c].starts <= 1

\* F5: a parked parent is never abandoned: a watcher runs for it or its wake
\* is under way.
ParkedIsWatched ==
    up /\ Parked /\ ~run_has_terminal_history => mail \/ waking \/ watch # NoWatch

\* Types, a registered recorder at most one event behind the history, no parked
\* parent without a watcher or a wake, no child started twice and no arrival
\* behind the end.
Inv == TypeOK /\ ParkedIsWatched /\ StartedOnce /\ NoArrivalAfterTheEnd

\* An await whose child has ended, or whose scope has expired, returns.
AwaitsReturn ==
    <>[](Parked => /\ child[Awaited].state \notin Outcome
                   /\ ~expired_scope_deadline)

\* #56: a recorded child is eventually started, also when its start failed or
\* the engine died in between, unless the engine dies behind the end of the
\* parent.
RecordedChildrenStart ==
    <>[](\A c \in Child :
            SpawnRecorded(c) => child[c].starts > 0 \/ (run_has_terminal_history /\ crashes > 0))

=============================================================================
