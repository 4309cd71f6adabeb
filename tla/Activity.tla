------------------------------ MODULE Activity ------------------------------
(***************************************************************************)
(* One activity of a run outside a fan-out: the dispatch call, the retry   *)
(* loop it spawns, the await, and the run's ends, reopens and restarts     *)
(* around them (crates/aion/src/runtime/nif_activity*.rs).                 *)
(*                                                                         *)
(* The program is with_timeout { dispatch_activity; await_activity_result }*)
(* and an end.  A life is one process of the run: the first, one per       *)
(* restart, one per reopen; its retry loop outlives the process when the   *)
(* run ends.  A recorder belongs to a life: after a reopen the appends of  *)
(* an earlier loop conflict.  A call of the dispatcher is one step, Return,*)
(* with the reasons module Bridge shows it to return with.                 *)
(*                                                                         *)
(* Left out: ActivityScheduled (the anchor of the trail; a trail of it     *)
(* alone resolves like an empty one), the length of a backoff, store       *)
(* errors, how a cancel and an exit are recorded (module RunLifecycle) and *)
(* how a scope's timer fires (module Timers).                              *)
(***************************************************************************)
EXTENDS Integers, FiniteSetsExt, Sequences

CONSTANTS
    MaxAttempts,   \* of the retry policy
    MaxRestarts,
    MaxReopens,
    MaxStrays,     \* completions that find no entry in the pending map
    Reopenable     \* the ends a caller reopens: "RunFailed", "RunCancelled"

ASSUME ActivityAssumption ==
    /\ MaxAttempts \in Nat \ {0}
    /\ MaxRestarts \in Nat /\ MaxReopens \in Nat /\ MaxStrays \in Nat
    /\ Reopenable \subseteq {"RunFailed", "RunCancelled"}

VARIABLES
    history,   \* the events of the activity, its scope and its run
    life,      \* the current life
    pc,        \* its process
    seen,      \* the length of the snapshot the process decides on
    mail,      \* a wake marker is queued
    retained,  \* outcomes of the activity kept for the process
    loop,      \* life -> its retry loop: step, attempt and reason
    draining,  \* the server drains
    answers,   \* the events the await has answered from since the last re-drive
    restarts,
    reopens,
    strays

process == <<pc, seen, mail, retained>>
bounds == <<restarts, reopens, strays>>
vars == <<history, life, process, loop, draining, answers, bounds>>

Lives == 1 .. 1 + MaxRestarts + MaxReopens
Reasons == {"ok", "retryable", "terminal", "parked"}
LoopAt(step, attempt, reason) == [pc |-> step, attempt |-> attempt, reason |-> reason]
Idle == LoopAt("none", 0, "none")
Nothing == [result |-> FALSE, error |-> FALSE, attempt |-> 0]

RunEnds == {"RunCompleted", "RunFailed", "RunCancelled"}
Event(type, attempt) == [type |-> type, attempt |-> attempt]

-----------------------------------------------------------------------------
(* What the code reads off a history.                                      *)

At(h, p, types) == h[p].type \in types
Trail == {"Started", "Retryable", "Failed", "Completed"}

\* "Reopened" names the activity, "ReopenedOther" does not.
activity_reopened_after(h, p) == \E q \in p + 1 .. Len(h) : At(h, q, {"Reopened"})
has_later_activity_attempt_or_outcome(h, p) == \E q \in p + 1 .. Len(h) : At(h, q, Trail)

\* The event an await of the activity resolves to, 0 if the walk exhausts.
resolve_activity(h) ==
    LET Ends == {p \in DOMAIN h :
                   \/ At(h, p, {"Completed"})
                   \/ /\ At(h, p, {"Failed"})
                      /\ ~activity_reopened_after(h, p)
                      /\ ~has_later_activity_attempt_or_outcome(h, p)}
    IN  IF Ends = {} THEN 0 ELSE Min(Ends)

latest_recorded_attempt(h) ==
    Max({0} \cup {h[p].attempt : p \in {q \in DOMAIN h : At(h, q, Trail)}})

\* Mutant: a re-dispatch repeats the last attempt.
MutantNextAttempt(h) == Max({1, latest_recorded_attempt(h)})

next_delivery_attempt(h) == latest_recorded_attempt(h) + 1

\* Newest first: a terminal of the activity or of the run decides, or a reopen
\* that names the activity.
activity_settled(h) ==
    LET Decisive == {p \in DOMAIN h :
                       At(h, p, {"Completed", "Failed", "Reopened"} \cup RunEnds)}
    IN  Decisive # {} /\ ~At(h, Max(Decisive), {"Reopened"})

current_lease_terminal(h) ==
    LET Leases == {p \in DOMAIN h : At(h, p, {"Reopened", "ReopenedOther"})}
        Ends == {p \in DOMAIN h : At(h, p, RunEnds) /\ \A q \in Leases : q < p}
    IN  IF Ends = {} THEN "none" ELSE h[Max(Ends)].type

\* Failed in the current lease, in whatever way, and never succeeded in it.
reopened_failed_activities(h) ==
    LET Start == Max({0} \cup {p \in DOMAIN h : At(h, p, {"Reopened", "ReopenedOther"})})
        Lease == Start + 1 .. Len(h)
    IN  /\ \E p \in Lease : At(h, p, {"Failed", "Retryable"})
        /\ \A p \in Lease : ~At(h, p, {"Completed"})

expired_scope_deadline(h) == \E p \in DOMAIN h : At(h, p, {"ScopeFired"})

-----------------------------------------------------------------------------
(* The process.                                                            *)

Snapshot == SubSeq(history, 1, seen)
Ended == current_lease_terminal(history) # "none"
Record(e) == history' = Append(history, e)

Init ==
    /\ history = <<>>
    /\ life = 1
    /\ pc = "dispatch"
    /\ seen = 0
    /\ mail = FALSE
    /\ retained = Nothing
    /\ loop = [l \in Lives |-> Idle]
    /\ draining = FALSE
    /\ answers = {}
    /\ restarts = 0 /\ reopens = 0 /\ strays = 0

(***************************************************************************)
(* dispatch_activity: over the recorded trail, or live: record_started,    *)
(* then spawn_completion_task.                                             *)
(***************************************************************************)
dispatch_activity ==
    LET attempt == next_delivery_attempt(history) IN
    /\ pc = "dispatch"
    /\ IF resolve_activity(history) # 0
       THEN UNCHANGED <<history, loop>>
       ELSE /\ Record(Event("Started", attempt))
            /\ loop' = [loop EXCEPT ![life] = LoopAt("call", attempt, "none")]
    /\ pc' = "await"
    /\ UNCHANGED <<life, seen, mail, retained, draining, answers, bounds>>

\* A marker queued before the call was scheduled is consumed; what it announces
\* is in the snapshot or retained.
await_activity_step ==
    /\ pc = "await" \/ (pc = "parked" /\ mail)
    /\ mail' = FALSE
    /\ LET end == resolve_activity(history) IN
       IF end # 0
       THEN answers' = answers \cup {end} /\ pc' = "answered" /\ UNCHANGED seen
       ELSE pc' = "decide" /\ seen' = Len(history) /\ UNCHANGED answers
    /\ UNCHANGED <<history, life, retained, loop, draining, bounds>>

\* Mutant: a failure is recorded with the retryable kind it was reported with.
MutantAnswerWith(type, attempt) ==
    /\ Record(Event(IF type = "Failed" THEN "Retryable" ELSE type, Max({attempt, 1})))
    /\ answers' = answers \cup {Len(history) + 1}
    /\ pc' = "answered"
    /\ seen' = 0

\* The await records how it ended before workflow code sees it: a failure as a
\* terminal one, whatever its reason.
AnswerWith(type, attempt) ==
    /\ Record(Event(type, Max({attempt, 1})))
    /\ answers' = answers \cup {Len(history) + 1}
    /\ pc' = "answered"
    /\ seen' = 0

take_runtime_completion ==
    /\ pc = "decide"
    /\ retained.result \/ retained.error
    /\ AnswerWith(IF retained.result THEN "Completed" ELSE "Failed", retained.attempt)
    /\ retained' = [result |-> FALSE,
                    error |-> retained.result /\ retained.error,
                    attempt |-> 0]
    /\ UNCHANGED <<life, mail, loop, draining, bounds>>

NothingRetained ==
    /\ pc = "decide"
    /\ ~retained.result /\ ~retained.error
    /\ pc' = "scope"
    /\ UNCHANGED <<history, life, seen, mail, retained, loop, draining, answers, bounds>>

\* An enclosing deadline that the snapshot shows fired fails the await.
ScopeExpires ==
    /\ pc = "scope"
    /\ expired_scope_deadline(Snapshot)
    /\ AnswerWith("Failed", latest_recorded_attempt(Snapshot))
    /\ UNCHANGED <<life, mail, retained, loop, draining, bounds>>

\* Mutant: the marker is taken as the process suspends, not before it looks.
MutantSuspends ==
    /\ pc = "scope"
    /\ ~expired_scope_deadline(Snapshot)
    /\ pc' = "parked"
    /\ seen' = 0
    /\ mail' = FALSE
    /\ UNCHANGED <<history, life, retained, loop, answers, draining, bounds>>

\* A marker that came since the pass began wakes it at once.
Suspends ==
    /\ pc = "scope"
    /\ ~expired_scope_deadline(Snapshot)
    /\ pc' = "parked"
    /\ seen' = 0
    /\ UNCHANGED <<history, life, mail, retained, loop, answers, draining, bounds>>

\* The program ends, in the result of the activity or by itself; its monitor
\* records the end unless the run has one.
ProcessExits ==
    /\ pc = "answered"
    /\ \/ Ended /\ UNCHANGED history
       \/ ~Ended /\ \E end \in {"RunCompleted", "RunFailed"} : Record(Event(end, 0))
    /\ pc' = "none"
    /\ retained' = Nothing
    /\ mail' = FALSE
    /\ UNCHANGED <<life, seen, loop, answers, draining, bounds>>

Process ==
    \/ dispatch_activity
    \/ await_activity_step
    \/ take_runtime_completion
    \/ NothingRetained
    \/ ScopeExpires
    \/ Suspends
    \/ ProcessExits

-----------------------------------------------------------------------------
(* The retry loop of a life.                                               *)

(***************************************************************************)
(* record_retry_event: settled first, under the recorder lock; then the    *)
(* append, which conflicts if the recorder is of an earlier life.          *)
(***************************************************************************)
record_retry_event(l, e, next) ==
    LET Failing == LoopAt("deliver", loop[l].attempt, "retryable") IN
    CASE activity_settled(history) ->
             loop' = [loop EXCEPT ![l] = LoopAt("stood", 0, "none")] /\ UNCHANGED history
      [] ~activity_settled(history) /\ l # life ->
             loop' = [loop EXCEPT ![l] = Failing] /\ UNCHANGED history
      [] OTHER -> loop' = [loop EXCEPT ![l] = next] /\ Record(e)

\* A call comes back: parked only from a drain.
Return(l) ==
    /\ loop[l].pc = "call"
    /\ \E reason \in Reasons :
           /\ reason = "parked" => draining
           /\ loop' = [loop EXCEPT ![l] = LoopAt("returned", loop[l].attempt, reason)]
    /\ UNCHANGED <<history, life, process, draining, answers, bounds>>

Retries(l) == loop[l].reason = "retryable" /\ loop[l].attempt < MaxAttempts

failure_stand_down(l) ==
    /\ loop[l].pc = "returned"
    /\ ~Retries(l)
    /\ loop' = [loop EXCEPT ![l] = IF @.reason = "parked" THEN LoopAt("parked", 0, "none")
                                                         ELSE [@ EXCEPT !.pc = "deliver"]]
    /\ UNCHANGED <<history, life, process, draining, answers, bounds>>

AttemptFailed(l) ==
    /\ loop[l].pc = "returned"
    /\ Retries(l)
    /\ record_retry_event(l, Event("Retryable", loop[l].attempt),
                          [loop[l] EXCEPT !.pc = "backoff"])
    /\ UNCHANGED <<life, process, draining, answers, bounds>>

\* Mutant: settlement is not checked again after the backoff.
MutantAttemptStarted(l) ==
    LET attempt == loop[l].attempt + 1 IN
    /\ loop[l].pc = "backoff"
    /\ l = life
    /\ Record(Event("Started", attempt))
    /\ loop' = [loop EXCEPT ![l] = LoopAt("call", attempt, "none")]
    /\ UNCHANGED <<life, process, draining, answers, bounds>>

\* The end of the backoff, during which the await may have been settled.
AttemptStarted(l) ==
    LET attempt == loop[l].attempt + 1 IN
    /\ loop[l].pc = "backoff"
    /\ record_retry_event(l, Event("Started", attempt),
                          LoopAt("call", attempt, "none"))
    /\ UNCHANGED <<life, process, draining, answers, bounds>>

\* A later outcome replaces an earlier one of its kind; only a loop has an attempt.
Retain(ok, attempt) ==
    [result |-> retained.result \/ ok,
     error |-> retained.error \/ ~ok,
     attempt |-> IF attempt = 0 THEN retained.attempt ELSE attempt]

\* To the process that spawned the loop, if it lives.
deliver_activity_message(l) ==
    /\ loop[l].pc = "deliver"
    /\ IF l = life /\ pc # "none"
       THEN retained' = Retain(loop[l].reason = "ok", loop[l].attempt) /\ mail' = TRUE
       ELSE UNCHANGED <<retained, mail>>
    /\ loop' = [loop EXCEPT ![l] = LoopAt("done", 0, "none")]
    /\ UNCHANGED <<history, life, pc, seen, draining, answers, bounds>>

Loop(l) ==
    \/ failure_stand_down(l)
    \/ AttemptFailed(l)
    \/ AttemptStarted(l)
    \/ deliver_activity_message(l)

\* A completion without an entry, with the outbox on: to the live process,
\* whichever life asked for it, and without an attempt.
deliver_outbox ==
    /\ strays < MaxStrays
    /\ latest_recorded_attempt(history) > 0
    /\ pc # "none"
    /\ \E ok \in BOOLEAN : retained' = Retain(ok, 0)
    /\ mail' = TRUE
    /\ strays' = strays + 1
    /\ UNCHANGED <<history, life, pc, seen, loop, draining, answers, restarts, reopens>>

-----------------------------------------------------------------------------
(* The run around it.                                                      *)

ScopeFires ==
    /\ pc \in {"await", "decide", "scope", "parked"}
    /\ ~Ended
    /\ ~expired_scope_deadline(history)
    /\ Record(Event("ScopeFired", 0))
    /\ mail' = TRUE
    /\ UNCHANGED <<life, pc, seen, retained, loop, draining, answers, bounds>>

Cancel ==
    /\ pc # "none"
    /\ ~Ended
    /\ Record(Event("RunCancelled", 0))
    /\ UNCHANGED <<life, process, loop, draining, answers, bounds>>

\* The process goes; its loop does not.
Kill ==
    /\ pc # "none"
    /\ current_lease_terminal(history) = "RunCancelled"
    /\ pc' = "none"
    /\ retained' = Nothing
    /\ mail' = FALSE
    /\ seen' = 0
    /\ UNCHANGED <<history, life, loop, draining, answers, bounds>>

reopen_workflow ==
    LET end == current_lease_terminal(history)
        named == end = "RunFailed" /\ reopened_failed_activities(history)
    IN
    /\ pc = "none"
    /\ end \in Reopenable
    /\ reopens < MaxReopens
    /\ Record(Event(IF named THEN "Reopened" ELSE "ReopenedOther", 0))
    /\ answers' = IF named THEN {} ELSE answers
    /\ life' = life + 1
    /\ pc' = "dispatch"
    /\ reopens' = reopens + 1
    /\ UNCHANGED <<seen, mail, retained, loop, draining, restarts, strays>>

\* A drain ends in a restart.
DrainBegins ==
    /\ ~draining
    /\ restarts < MaxRestarts
    /\ draining' = TRUE
    /\ UNCHANGED <<history, life, process, loop, answers, bounds>>

\* A crash, or the end of a drain, and the boot that respawns the run.
Restart ==
    /\ restarts < MaxRestarts
    /\ restarts' = restarts + 1
    /\ draining' = FALSE
    /\ loop' = [l \in Lives |-> Idle]
    /\ IF Ended THEN pc' = "none" /\ UNCHANGED life
                ELSE pc' = "dispatch" /\ life' = life + 1
    /\ retained' = Nothing
    /\ mail' = FALSE
    /\ seen' = 0
    /\ UNCHANGED <<history, answers, reopens, strays>>

-----------------------------------------------------------------------------

\* What the engine does by itself, calls that return included.
System ==
    \/ Process
    \/ Kill
    \/ \E l \in Lives : Return(l) \/ Loop(l)

Environment ==
    \/ deliver_outbox
    \/ ScopeFires
    \/ Cancel
    \/ reopen_workflow
    \/ DrainBegins
    \/ Restart

Next == System \/ Environment

Spec == Init /\ [][Next]_vars
FairSpec == Spec /\ WF_vars(System)

-----------------------------------------------------------------------------

\* The shape of the history, the process, what is retained and the retry loops.
TypeOK ==
    /\ history \in Seq([type : Trail \cup RunEnds \cup {"ScopeFired", "Reopened", "ReopenedOther"},
                        attempt : Nat])
    /\ life \in Lives
    /\ pc \in {"none", "dispatch", "await", "decide", "scope", "parked",
               "answered"}
    /\ seen \in 0 .. Len(history)
    /\ mail \in BOOLEAN
    /\ retained \in [result : BOOLEAN, error : BOOLEAN, attempt : Nat]
    /\ loop \in [Lives -> [pc : {"none", "call", "returned", "backoff", "deliver", "stood",
                                 "parked", "done"},
                           attempt : Nat, reason : Reasons \cup {"none"}]]
    /\ draining \in BOOLEAN
    /\ answers \subseteq DOMAIN history
    /\ restarts \in 0 .. MaxRestarts /\ reopens \in 0 .. MaxReopens /\ strays \in 0 .. MaxStrays

(***************************************************************************)
(* A retry loop of the current life stands down without delivering only    *)
(* when the await has an event to answer from or the run has ended: the    *)
(* claim spawn_completion_task makes where it delivers nothing.            *)
(***************************************************************************)
StoodDownIsSettled ==
    loop[life].pc = "stood" => resolve_activity(history) # 0 \/ Ended

(***************************************************************************)
(* No two deliveries carry the same attempt, across retries, restarts and  *)
(* reopens: (workflow, activity, attempt) is the identity that             *)
(* next_delivery_attempt keeps.                                            *)
(***************************************************************************)
AttemptsAreNew ==
    \A p, q \in DOMAIN history :
        /\ p < q
        /\ At(history, p, {"Started"})
        /\ At(history, q, {"Started"})
        => history[p].attempt < history[q].attempt

\* Types, StoodDownIsSettled and AttemptsAreNew of dispatch_with_retries.
Inv == TypeOK /\ StoodDownIsSettled /\ AttemptsAreNew

(***************************************************************************)
(* Between two reopens that re-drive the activity the program is answered  *)
(* from one event, however often it is replayed: a crash after the await   *)
(* answered, a stray completion and a scope that fires meanwhile change    *)
(* nothing (await_activity_step, resolve_activity).                        *)
(***************************************************************************)
ReplayAgrees == Cardinality(answers) <= 1

(***************************************************************************)
(* No attempt starts or fails retryably behind a terminal of the activity, *)
(* and none fails retryably behind the end of the run, unless a reopen     *)
(* lies between (record_retry_event).                                      *)
(***************************************************************************)
NothingBehindTheTerminal ==
    \A p, q \in DOMAIN history :
        /\ p < q
        /\ \/ At(history, p, {"Completed", "Failed"}) /\ At(history, q, {"Started", "Retryable"})
           \/ At(history, p, RunEnds) /\ At(history, q, {"Retryable"})
        => \E r \in p + 1 .. q - 1 : At(history, r, {"Reopened", "ReopenedOther"})

(***************************************************************************)
(* A process parked in its await wakes up for good or the server drains:   *)
(* no wake is lost between the look and the suspension, and no retry loop  *)
(* ends without delivering to a process that waits (await_activity_step,   *)
(* spawn_completion_task).                                                 *)
(***************************************************************************)
AwaitReturns == pc = "parked" ~> (pc \in {"answered", "none"} \/ draining)
=============================================================================
