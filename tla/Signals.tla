------------------------------- MODULE Signals -------------------------------
(***************************************************************************)
(* Signals: crates/aion/src/signal, runtime/nif_signal.rs, the entry point *)
(* engine/delegated.rs and the part of the replay cursor they resolve      *)
(* through (durability/cursor.rs, correlation.rs), for one run of          *)
(*                                                                         *)
(*     with_timeout { receive x }; send x to the target; receive x         *)
(*                                                                         *)
(* whose target is another run or the run itself.  Clients signal x while  *)
(* the process runs, parks, exits, is suspended and resumed in the         *)
(* registry, is paused, crashes, and replays.  A signal is recorded first; *)
(* the marker that follows is only a wake.  Arrivals and sends of one name *)
(* share one positional keyspace of the history, and the expiry of the     *)
(* enclosing scope is ordered against an arrival by the same history.      *)
(*                                                                         *)
(* Abstracted: the race for the terminal of the scope's timer (module      *)
(* Timers), the record of the run's end and its deregistration as one step *)
(* (module RunLifecycle), other names, and a mailbox of a live process     *)
(* that refuses a marker.  Markers are counted as none or some: a wake     *)
(* that finds nothing parks again.                                         *)
(***************************************************************************)
EXTENDS Integers, Sequences, FiniteSets

CONSTANTS
    MaxSignals,   \* signals clients send, one call each
    MaxCrashes,   \* bound on engine crashes
    MaxHolds      \* bound on pauses and registry suspensions of the run

ASSUME SignalsConstants ==
    /\ MaxSignals \in Nat
    /\ MaxCrashes \in Nat
    /\ MaxHolds \in Nat

Signal == 1 .. MaxSignals

VARIABLES
    history,     \* durable: the events of the run
    toggles,     \* durable: how many WorkflowPaused and WorkflowResumed it has
    peer,        \* durable: arrivals in the other run's history
    target,      \* whom the program sends to
    up,          \* the engine runs
    registered,  \* the run has a handle in the registry
    suspended,   \* the handle's residency is Suspended
    flushing,    \* a resume flipped the residency and has to flush
    deferred,    \* queue length of the SignalResumeHandoff
    revival,     \* the history length a resume of the paused run read, or -1
    consumed,    \* handle: receives of x completed
    sends,       \* handle: sends of x completed
    pc,          \* the workflow process
    mail,        \* a wake marker is queued
    pin,         \* PendingAwait::Signal, or -1
    scope,       \* TimeoutScope.replay_timed_out: fired, cancelled or live
    waking,      \* the timer service has recorded a fire and not yet woken
    route,       \* each client call: its step and what it read
    got,         \* every answer of each receive, replays included
    scopes,      \* every answer of with_timeout
    crashes, holds

durable == <<history, toggles, peer, target>>
handle == <<registered, suspended, consumed, sends>>
handoff == <<flushing, deferred, revival>>
process == <<pc, mail, pin, scope>>
answers == <<got, scopes>>
bounds == <<crashes, holds>>
vars == <<durable, up, handle, handoff, process, waking, route, answers, bounds>>

\* Only an arrival carries a payload: the client's, or that of the own send.
Own == 0
Event(type, payload) == [type |-> type, payload |-> payload]
Events == [type : {"Started", "Fired", "Cancelled", "Received", "Sent", "Ended"},
           payload : Signal \cup {Own}]
Record(type) == history' = Append(history, Event(type, Own))
RecordReceived(payload) == history' = Append(history, Event("Received", payload))

\* Answers of a receive other than a payload.
Timeout == -1
Error == -2

Positions(events, types) == {i \in DOMAIN events : events[i].type \in types}
Before(events, i, types) == Cardinality({j \in Positions(events, types) : j < i})
Recorded(type) == \E i \in DOMAIN history : history[i].type = type

Occurrence == {"Received", "Sent"}
Ended == Recorded("Ended")
Paused == toggles % 2 = 1

\* The sequence number of the last event; where the events of a pause stand
\* among the others matters to nothing else.
LastSeq == Len(history) + toggles

NoIndex == -1

Idle == [step |-> "new", read |-> 0]

Init ==
    /\ history = <<>>
    /\ toggles = 0
    /\ peer = 0
    /\ target \in {"peer", "self"}
    /\ up = TRUE
    /\ registered = TRUE
    /\ suspended = FALSE
    /\ flushing = FALSE
    /\ deferred = 0
    /\ revival = -1
    /\ consumed = 0
    /\ sends = 0
    /\ pc = "arm"
    /\ mail = FALSE
    /\ pin = NoIndex
    /\ scope = "live"
    /\ waking = FALSE
    /\ route = [s \in Signal |-> Idle]
    /\ got = [call \in {"first", "second"} |-> {}]
    /\ scopes = {}
    /\ crashes = 0
    /\ holds = 0

-----------------------------------------------------------------------------
(***************************************************************************)
(* The keyspace of a name: the k-th receive is the k-th arrival, the k-th  *)
(* send the k-th SignalSent, and each has the index it has among both.     *)
(***************************************************************************)
signal_occurrence_index(events) == Cardinality(Positions(events, Occurrence))

NthOccurrenceIndex(events, type, k) ==
    LET nth == {i \in Positions(events, {type}) : Before(events, i, {type}) = k}
    IN  IF nth # {} THEN Before(events, CHOOSE i \in nth : TRUE, Occurrence)
        ELSE signal_occurrence_index(events)

\* The index among the arrivals alone.
MutantNthReceived(events, k) ==
    IF k < Cardinality(Positions(events, {"Received"})) THEN k
    ELSE signal_occurrence_index(events)

nth_received_occurrence_index(events, k) == NthOccurrenceIndex(events, "Received", k)

nth_sent_occurrence_index(events, k) == NthOccurrenceIndex(events, "Sent", k)

\* The cursor: the position of the event with key (x, index), 0 if none.
resolve_command(events, index) ==
    LET keyed == {i \in Positions(events, Occurrence) : Before(events, i, Occurrence) = index}
    IN  IF keyed # {} THEN CHOOSE i \in keyed : TRUE ELSE 0

expired_scope_deadline ==
    pc \in {"first", "first_parked"} /\
        (scope = "fired" \/ (scope = "live" /\ Recorded("Fired")))

\* An expiry is no matter once there is an arrival.
MutantScopeExpired(arrival) == FALSE

\* F1b: an arrival recorded behind the fire was not seen by the live run.
scope_expired_before_signal_arrival(arrival) ==
    expired_scope_deadline /\ \E i \in Positions(history, {"Fired"}) : i < arrival

-----------------------------------------------------------------------------
(***************************************************************************)
(* The workflow process.                                                   *)
(***************************************************************************)
At(labels) == up /\ pc \in labels

arm_scope ==
    /\ At({"arm"})
    /\ IF Recorded("Started")
       THEN /\ scope' = IF Recorded("Fired") THEN "fired"
                        ELSE IF Recorded("Cancelled") THEN "cancelled" ELSE "live"
            /\ UNCHANGED history
       ELSE Record("Started") /\ UNCHANGED scope
    /\ pc' = "first"
    /\ UNCHANGED <<toggles, peer, target, up, handle, handoff, mail, pin, waking,
                   route, answers, bounds>>

Awaits == {"first", "first_parked", "second", "second_parked"}
Call == IF pc \in {"first", "first_parked"} THEN "first" ELSE "second"

\* The label behind a receive; the process exits behind the second one.
AfterReceive == IF Call = "first" THEN "settle" ELSE "exited"
ParkedAt == IF Call = "first" THEN "first_parked" ELSE "second_parked"

\* The receive answers without a payload and consumes nothing.
AnswerWith(answer) ==
    /\ got' = [got EXCEPT ![Call] = @ \cup {answer}]
    /\ pc' = AfterReceive
    /\ pin' = NoIndex
    /\ UNCHANGED consumed

(***************************************************************************)
(* receive_signal_impl, on the first arrival and on every wake.  The index *)
(* is pinned when the call parks.                                          *)
(***************************************************************************)
receive_signal ==
    /\ At(Awaits)
    /\ pc \in {"first_parked", "second_parked"} => mail
    /\ mail' = FALSE
    /\ LET index == IF pin # NoIndex THEN pin
                    ELSE nth_received_occurrence_index(history, consumed)
           found == resolve_command(history, index)
       IN  CASE found = 0 /\ expired_scope_deadline -> AnswerWith(Timeout)
             [] found = 0 /\ ~expired_scope_deadline ->
                    /\ pin' = index
                    /\ pc' = ParkedAt
                    /\ UNCHANGED <<got, consumed>>
             [] found # 0 /\ history[found].type = "Sent" ->
                    /\ got' = [got EXCEPT ![Call] = @ \cup {Error}]
                    /\ pc' = AfterReceive
                    /\ UNCHANGED <<pin, consumed>>
             [] found # 0 /\ history[found].type = "Received" ->
                    IF scope_expired_before_signal_arrival(found)
                    THEN AnswerWith(Timeout)
                    ELSE /\ got' = [got EXCEPT ![Call] = @ \cup {history[found].payload}]
                         /\ pc' = AfterReceive
                         /\ pin' = NoIndex
                         /\ consumed' = consumed + 1
    /\ UNCHANGED <<durable, up, registered, suspended, sends, handoff, scope,
                   waking, route, scopes, bounds>>

\* resume_with_timeout: cancel the scope's timer unless it has fired.
resume_with_timeout ==
    /\ At({"settle"})
    /\ IF scope = "live" /\ ~Recorded("Fired") /\ ~Recorded("Cancelled")
       THEN Record("Cancelled") ELSE UNCHANGED history
    /\ scopes' = scopes \cup {IF scope = "fired" \/ (scope = "live" /\ Recorded("Fired"))
                              THEN "expired" ELSE "ok"}
    /\ pc' = "send"
    /\ UNCHANGED <<toggles, peer, target, up, handle, handoff, mail, pin, scope,
                   waking, route, got, bounds>>

\* Behind the record: wake a resident process, queue the wake of another.
Wake(isSuspended) ==
    IF isSuspended
    THEN deferred' = deferred + 1 /\ UNCHANGED mail
    ELSE mail' = (mail \/ pc \notin {"none", "exited", "gone"}) /\ UNCHANGED deferred

(***************************************************************************)
(* send_signal_impl: a recorded send answers, a live one routes first ...  *)
(***************************************************************************)
send_signal ==
    /\ At({"send"})
    /\ LET found == resolve_command(history, nth_sent_occurrence_index(history, sends))
       IN  IF found # 0
           THEN /\ sends' = sends + 1
                /\ pc' = "second"
                /\ UNCHANGED <<history, peer, mail, deferred>>
           ELSE /\ IF target = "self"
                   THEN RecordReceived(Own) /\ Wake(suspended) /\ UNCHANGED peer
                   ELSE peer' = peer + 1 /\ UNCHANGED <<history, mail, deferred>>
                /\ pc' = "record_send"
                /\ UNCHANGED sends
    /\ UNCHANGED <<toggles, target, up, registered, suspended, consumed, flushing,
                   revival, pin, scope, waking, route, answers, bounds>>

\* ... and records the send behind it.
RecordSend ==
    /\ At({"record_send"})
    /\ Record("Sent")
    /\ sends' = sends + 1
    /\ pc' = "second"
    /\ UNCHANGED <<toggles, peer, target, up, registered, suspended, consumed,
                   handoff, mail, pin, scope, waking, route, answers, bounds>>

\* The exit monitor: the terminal, and the end of the registration.
handle_process_exit ==
    /\ At({"exited"})
    /\ Record("Ended")
    /\ registered' = FALSE
    /\ pc' = "gone"
    /\ UNCHANGED <<toggles, peer, target, up, suspended, consumed, sends, handoff,
                   mail, pin, scope, waking, route, answers, bounds>>

\* The wheel (or the recovery) fires the scope's timer, and then wakes.
ScopeFires ==
    /\ up
    /\ registered
    /\ Recorded("Started") /\ ~Recorded("Fired") /\ ~Recorded("Cancelled")
    /\ Record("Fired")
    /\ waking' = TRUE
    /\ UNCHANGED <<toggles, peer, target, up, handle, handoff, process, route,
                   answers, bounds>>

ScopeWakes ==
    /\ up
    /\ waking
    /\ waking' = FALSE
    /\ mail' = (mail \/ pc \notin {"none", "exited", "gone"})
    /\ UNCHANGED <<durable, up, handle, handoff, pc, pin, scope, route, answers,
                   bounds>>

-----------------------------------------------------------------------------
(***************************************************************************)
(* Engine::signal and ConcreteSignalRouter::route.                         *)
(***************************************************************************)
Goes(s, step) == route' = [route EXCEPT ![s].step = step]
Replies(s, answer) == route' = [route EXCEPT ![s] = [step |-> answer, read |-> 0]]

(***************************************************************************)
(* The handle, as the call found it.  Without one: a terminal run refuses, *)
(* a paused run is appended to at the head just read, any other one is     *)
(* waited for (birth window) or not found.  The calls are numbered in the  *)
(* order they begin.                                                       *)
(***************************************************************************)
Lookup(s) ==
    /\ up
    /\ route[s].step = "new"
    /\ \A r \in 1 .. s - 1 : route[r].step # "new"
    /\ route' = [route EXCEPT ![s] =
           IF registered
           THEN [step |-> "record", read |-> IF suspended THEN 1 ELSE 0]
           ELSE IF ~Ended /\ Paused
           THEN [step |-> "oneshot", read |-> LastSeq]
           ELSE [step |-> "rejected", read |-> 0]]
    /\ UNCHANGED <<durable, up, handle, handoff, process, waking, answers, bounds>>

\* Under the recorder lock: a terminal run refuses, any other one records.
RouteRecord(s) ==
    /\ up
    /\ route[s].step = "record"
    /\ IF Ended THEN Replies(s, "rejected") /\ UNCHANGED history
       ELSE RecordReceived(s) /\ Goes(s, "deliver")
    /\ UNCHANGED <<toggles, peer, target, up, handle, handoff, process, waking,
                   answers, bounds>>

\* No hand-off: the call waits for a resident run.
MutantRouteDeliver(s) ==
    /\ up
    /\ route[s].step = "deliver"
    /\ ~suspended
    /\ Wake(FALSE)
    /\ Replies(s, "accepted")
    /\ UNCHANGED <<durable, up, handle, flushing, revival, pc, pin, scope, waking,
                   answers, bounds>>

\* Residency is the one of the handle the call looked up.
RouteDeliver(s) ==
    /\ up
    /\ route[s].step = "deliver"
    /\ Wake(route[s].read = 1)
    /\ Replies(s, "accepted")
    /\ UNCHANGED <<durable, up, handle, flushing, revival, pc, pin, scope, waking,
                   answers, bounds>>

\* The one-shot recorder of a paused run: the append conflicts if the
\* history has moved since it was read.
OneShot(s) ==
    /\ up
    /\ route[s].step = "oneshot"
    /\ IF LastSeq = route[s].read
       THEN RecordReceived(s) /\ Replies(s, "accepted")
       ELSE Replies(s, "rejected") /\ UNCHANGED history
    /\ UNCHANGED <<toggles, peer, target, up, handle, handoff, process, waking,
                   answers, bounds>>

-----------------------------------------------------------------------------
(***************************************************************************)
(* Residency in the registry: an embedder suspends a waiting run and       *)
(* resumes it.                                                             *)
(***************************************************************************)
Suspend ==
    /\ At({"first_parked", "second_parked"})
    /\ ~suspended
    /\ holds < MaxHolds
    /\ holds' = holds + 1
    /\ suspended' = TRUE
    /\ UNCHANGED <<durable, up, registered, consumed, sends, handoff, process,
                   waking, route, answers, crashes>>

resume_workflow ==
    /\ up
    /\ registered
    /\ suspended
    /\ suspended' = FALSE
    /\ flushing' = TRUE
    /\ UNCHANGED <<durable, up, registered, consumed, sends, deferred, revival,
                   process, waking, route, answers, bounds>>

\* The queue is dropped without a delivery.
MutantDeliverDeferred ==
    /\ up
    /\ flushing
    /\ flushing' = FALSE
    /\ deferred' = IF registered /\ ~suspended THEN 0 ELSE deferred
    /\ UNCHANGED <<durable, up, handle, revival, process, waking, route, answers,
                   bounds>>

\* deliver_deferred drains the queue of a resident run.
deliver_deferred ==
    /\ up
    /\ flushing
    /\ flushing' = FALSE
    /\ IF registered /\ ~suspended
       THEN /\ mail' = (mail \/ (deferred > 0 /\ pc \notin {"exited", "gone"}))
            /\ deferred' = 0
       ELSE UNCHANGED <<mail, deferred>>
    /\ UNCHANGED <<durable, up, handle, revival, pc, pin, scope, waking, route,
                   answers, bounds>>

-----------------------------------------------------------------------------
(***************************************************************************)
(* Pause, crash, restart.                                                  *)
(***************************************************************************)
Pause ==
    /\ up
    /\ registered
    /\ holds < MaxHolds
    /\ ~Ended
    /\ ~Paused
    /\ holds' = holds + 1
    /\ toggles' = toggles + 1
    /\ UNCHANGED <<history, peer, target, up, handle, handoff, process, waking,
                   route, answers, crashes>>

\* A fresh process, with fresh counters on a fresh handle.
Respawn ==
    /\ registered' = TRUE
    /\ suspended' = FALSE
    /\ consumed' = 0
    /\ sends' = 0
    /\ pc' = "arm"

\* Resume of a paused run: through the live recorder, or, when the run is
\* not resident, at the head just read and with a respawn behind it.
ResumePaused ==
    /\ up
    /\ Paused
    /\ ~Ended
    /\ revival = -1
    /\ IF registered
       THEN toggles' = toggles + 1 /\ UNCHANGED revival
       ELSE revival' = LastSeq /\ UNCHANGED toggles
    /\ UNCHANGED <<history, peer, target, up, handle, flushing, deferred, process,
                   waking, route, answers, bounds>>

Revive ==
    /\ up
    /\ revival # -1
    /\ revival' = -1
    /\ IF LastSeq = revival
       THEN toggles' = toggles + 1 /\ Respawn
       ELSE UNCHANGED <<toggles, handle, pc>>
    /\ UNCHANGED <<history, peer, target, up, flushing, deferred, mail, pin, scope,
                   waking, route, answers, bounds>>

\* Calls under way end without an answer.
Crash ==
    /\ up
    /\ crashes < MaxCrashes
    /\ crashes' = crashes + 1
    /\ up' = FALSE
    /\ registered' = FALSE
    /\ suspended' = FALSE
    /\ flushing' = FALSE
    /\ deferred' = 0
    /\ revival' = -1
    /\ consumed' = 0
    /\ sends' = 0
    /\ pc' = "none"
    /\ mail' = FALSE
    /\ pin' = NoIndex
    /\ scope' = "live"
    /\ waking' = FALSE
    /\ route' = [s \in Signal |->
                   IF route[s].step \in {"record", "deliver", "oneshot"}
                   THEN [step |-> "lost", read |-> 0] ELSE route[s]]
    /\ UNCHANGED <<durable, answers, holds>>

\* A paused run is not respawned.
Boot ==
    /\ ~up
    /\ up' = TRUE
    /\ IF Ended \/ Paused THEN UNCHANGED <<handle, pc>> ELSE Respawn
    /\ UNCHANGED <<durable, handoff, mail, pin, scope, waking, route, answers,
                   bounds>>

-----------------------------------------------------------------------------
(***************************************************************************)
(* Fairness: the process, its monitor, the wake behind a recorded fire,    *)
(* the calls and the flush under way and the restart of a dead engine.     *)
(* A client's call, the passing of time, pause, resume and suspension are  *)
(* not fair.                                                               *)
(***************************************************************************)
System ==
    \/ arm_scope
    \/ receive_signal
    \/ resume_with_timeout
    \/ send_signal
    \/ RecordSend
    \/ handle_process_exit
    \/ ScopeWakes
    \/ \E s \in Signal : RouteRecord(s) \/ RouteDeliver(s) \/ OneShot(s)
    \/ deliver_deferred
    \/ Revive
    \/ Boot

Next ==
    \/ System
    \/ ScopeFires
    \/ \E s \in Signal : Lookup(s)
    \/ Suspend
    \/ resume_workflow
    \/ Pause
    \/ ResumePaused
    \/ Crash

Spec == Init /\ [][Next]_vars
FairSpec == Spec /\ WF_vars(System)

-----------------------------------------------------------------------------
(***************************************************************************)
(* Properties.                                                             *)
(***************************************************************************)
\* Every variable keeps its type.
TypeOK ==
    /\ history \in Seq(Events)
    /\ toggles \in 0 .. 2 * MaxHolds
    /\ peer \in 0 .. MaxCrashes + 1
    /\ target \in {"peer", "self"}
    /\ {up, registered, suspended, flushing, mail, waking} \subseteq BOOLEAN
    /\ deferred \in 0 .. Cardinality(Signal) + 1
    /\ revival \in -1 .. LastSeq
    /\ consumed \in 0 .. 2
    /\ sends \in 0 .. 1
    /\ pc \in Awaits \cup {"none", "arm", "settle", "send", "record_send", "exited",
                           "gone"}
    /\ pin \in -1 .. Len(history)
    /\ scope \in {"fired", "cancelled", "live"}
    /\ route \in [Signal -> [step : {"new", "record", "deliver", "oneshot", "accepted",
                                     "rejected", "lost"},
                             read : 0 .. LastSeq]]
    /\ got \in [{"first", "second"} -> SUBSET (Signal \cup {Own, Timeout, Error})]
    /\ scopes \subseteq {"expired", "ok"}
    /\ crashes \in 0 .. MaxCrashes
    /\ holds \in 0 .. MaxHolds

\* N-2 (nif_signal.rs:341-346): an execution after a crash gives every
\* receive and every with_timeout the answer the first execution gave,
\* whatever was recorded in between.
ReplayAgrees ==
    /\ \A call \in {"first", "second"} : Cardinality(got[call]) <= 1
    /\ Cardinality(scopes) <= 1

Arrival(n) ==
    {history[i].payload : i \in {j \in Positions(history, {"Received"}) :
                                   Before(history, j, {"Received"}) = n - 1}}

\* "The k-th completed receive consumes the k-th recorded arrival"
\* (nif_signal.rs:314): no arrival is skipped or handed out twice, although
\* a send of the same name sits between them and a timed-out receive
\* consumed nothing.
ReceivesInOrder ==
    LET first == got["first"] \ {Timeout}
        second == got["second"]
    IN  /\ first \subseteq Arrival(1)
        /\ second \subseteq Arrival(IF first = {} THEN 1 ELSE 2)

Routed ==
    IF target = "peer" THEN peer
    ELSE Cardinality({i \in DOMAIN history : history[i] = Event("Received", Own)})

\* "delivery is at-least-once across that window" (nif_signal.rs:363-366): a
\* send is recorded once however often it is replayed, never without its
\* delivery, and only a crash delivers it again.
SentOnce ==
    /\ Cardinality(Positions(history, {"Sent"})) <= 1
    /\ Recorded("Sent") => Routed >= 1
    /\ Routed <= 1 + crashes

\* A client that was told its signal is accepted finds it in the history
\* once, also behind a crash; one that was refused does not.
ToldIsRecorded ==
    \A s \in Signal :
        LET arrivals == Cardinality({i \in DOMAIN history : history[i].payload = s})
        IN  /\ route[s].step = "accepted" => arrivals = 1
            /\ route[s].step \in {"rejected", "new"} => arrivals = 0

\* "a terminal run must reject signals instead of appending after its
\* terminal event" (signal/router.rs:47-49), whichever handle the call holds;
\* and a signal recorded for a paused run never lands behind its resumption.
NothingAfterTheEnd ==
    /\ Ended => history[Len(history)].type = "Ended"
    /\ \A s \in Signal : route[s].step = "oneshot" /\ LastSeq = route[s].read
                            => Paused /\ ~registered

Parked == pc \in {"first_parked", "second_parked"}
Resolvable == resolve_command(history, pin) # 0 \/ expired_scope_deadline

\* A wake is never lost: a parked receive whose answer is recorded has a
\* marker in its mailbox, on its way, or in the hand-off queue.
WakeNotLost ==
    up /\ Parked /\ Resolvable =>
        \/ mail
        \/ waking
        \/ deferred > 0
        \/ \E s \in Signal : route[s].step = "deliver"

\* Types, an answer to the client that the history bears out, no lost wake, one
\* record of the send and none behind the end, whatever routes, holds, the
\* scope's timer and crashes interleave.
Inv == TypeOK /\ ToldIsRecorded /\ WakeNotLost /\ SentOnce /\ NothingAfterTheEnd

\* A receive whose answer is recorded returns it, unless its wake sits in
\* the hand-off queue of a run nobody resumes (again).
ReceivesReturn == <>[](Parked /\ Resolvable => deferred > 0)

=============================================================================
