------------------------------- MODULE Bridge -------------------------------
(***************************************************************************)
(* The worker bridge of the server (crates/aion-server/src/worker): how    *)
(* one activity's blocking dispatch calls meet the worker registry, the    *)
(* heartbeat tracker, the pending map and the two transports.              *)
(*                                                                         *)
(* A call selects a worker, inserts its sender into the pending map,       *)
(* tracks the task, sends it, checks that the worker is still registered   *)
(* and blocks on its receiver.  Answers, teardowns of streams, the expiry  *)
(* sweep, the drain and the liminal reply routers resolve the entry of the *)
(* pending map, whose key names the workflow and the activity and not the  *)
(* attempt.  The broadcast of a drain, and the dispatch of another         *)
(* activity, may deregister a worker and leave its tasks tracked.  Module  *)
(* Activity has the retry loops that make the calls; here a call may begin *)
(* before an earlier one returned, as that of a reopened run does whose    *)
(* first loop is still in its call.                                        *)
(*                                                                         *)
(* Left out: namespaces, task queues and nodes (one pool), payloads,       *)
(* progress reports, acknowledgements, how full a worker's channel is      *)
(* (it may be at any time), poisoned locks, and the server's exit behind a *)
(* drain.                                                                  *)
(***************************************************************************)
EXTENDS Integers, FiniteSetsExt

CONSTANTS
    Calls,       \* the calls made for one activity, numbered in order
    Workers,     \* worker ids, handed out in the order of registration
    Transports   \* the sets of ids that may come over liminal

ASSUME BridgeAssumption ==
    /\ Calls \subseteq Nat \ {0} /\ Workers \subseteq Nat \ {0}
    /\ Transports \subseteq SUBSET Workers

VARIABLES
    link,        \* id -> "new", "up", "down" or "gone": the stream or connection,
                 \* "gone" when the server has handled its end
    liminal,     \* the ids that came over liminal, the others over gRPC
    registered,  \* the worker registry
    tracked,     \* the ids with this activity in the heartbeat tracker
    pending,     \* the call whose sender is in the pending map
    jobs,        \* <<id, call>> executing, or answered and not yet reported
    verdicts,    \* completions on their way to the pending map
    sweep,       \* id -> what is to become of its tasks: deregistered, not collected
    drain,       \* DrainState: "no", "yes", or "over" when the wait for it ended
    toTell,      \* ids that the broadcast of the drain is still to reach
    toPark,      \* ids that the end of the drain is still to park
    call         \* call -> its step, worker and receiver

vars == <<link, liminal, registered, tracked, pending, jobs, verdicts, sweep,
          drain, toTell, toPark, call>>

NoCall == 0
NoWorker == 0

(***************************************************************************)
(* What resolves an entry: a worker's result or error, the failure of a    *)
(* lost worker (retryable), the parked sentinel of a drain.                *)
(***************************************************************************)
Answers == {"reply", "lost", "parked"}
CallSteps == {"none", "call", "nobody", "waiting", "track", "push", "recv", "answered"}

Idle == [pc |-> "none", worker |-> NoWorker, rx |-> "empty"]

Init ==
    /\ link = [w \in Workers |-> "new"]
    /\ liminal \in Transports
    /\ registered = {}
    /\ tracked = {}
    /\ pending = NoCall
    /\ jobs = {}
    /\ verdicts = {}
    /\ sweep = [w \in Workers |-> "idle"]
    /\ drain = "no"
    /\ toTell = {}
    /\ toPark = {}
    /\ call = [c \in Calls |-> Idle]

-----------------------------------------------------------------------------
(* One dispatch_blocking.                                                  *)

\* The next attempt of a retry loop, or the first call of a reopened run, whose
\* earlier loop may still be in its call.
Dispatch(c) ==
    /\ call[c].pc = "none"
    /\ \A d \in Calls : d < c => call[d].pc # "none"
    /\ call' = [call EXCEPT ![c].pc = "call"]
    /\ UNCHANGED <<link, liminal, registered, tracked, pending, jobs, verdicts,
                   sweep, drain, toTell, toPark>>

\* With the answer of its receiver; retryable if its worker was gone before it
\* blocked; else with an unprefixed reason.
Answered == [Idle EXCEPT !.pc = "answered"]

\* Taking the entry out of the map drops the sender in it: the receiver of any
\* other call that was waiting on it fails.
Dropping(c) ==
    IF pending \in Calls \ {c}
    THEN [call EXCEPT ![pending].rx = IF @ = "empty" THEN "dropped" ELSE @]
    ELSE call

\* ensure_accepting refuses with an unprefixed reason.
Refused(c) ==
    /\ call[c].pc \in {"call", "nobody"}
    /\ drain # "no"
    /\ call' = [call EXCEPT ![c] = Answered]
    /\ UNCHANGED <<link, liminal, registered, tracked, pending, jobs, verdicts,
                   sweep, drain, toTell, toPark>>

\* With the check of the drain on either side of the selection.
select_worker(c) ==
    /\ call[c].pc = "call"
    /\ drain = "no"
    /\ call' = IF registered = {}
               THEN [call EXCEPT ![c].pc = "nobody"]
               ELSE [call EXCEPT ![c] = [pc |-> "track", worker |-> Min(registered),
                                         rx |-> "empty"]]
    /\ UNCHANGED <<link, liminal, registered, tracked, pending, jobs, verdicts,
                   sweep, drain, toTell, toPark>>

\* Only now is the waiter known to the Notify.
wait_for_worker(c) ==
    /\ call[c].pc = "nobody"
    /\ drain = "no"
    /\ call' = [call EXCEPT ![c].pc = "waiting"]
    /\ UNCHANGED <<link, liminal, registered, tracked, pending, jobs, verdicts,
                   sweep, drain, toTell, toPark>>

\* The sender and the tracked task are inserted.
track_worker_task(c) ==
    /\ call[c].pc = "track"
    /\ pending' = c
    /\ tracked' = tracked \cup {call[c].worker}
    /\ call' = [Dropping(c) EXCEPT ![c].pc = "push"]
    /\ UNCHANGED <<link, liminal, registered, jobs, verdicts, sweep, drain, toTell, toPark>>

cleanup_activity(c) ==
    /\ pending' = NoCall
    /\ tracked' = tracked \ {call[c].worker}
    /\ call' = [Dropping(c) EXCEPT ![c] = Answered]

\* deliver_result takes the entry out of the map, whoever's it is by now.
deliver_result(c) ==
    /\ pending' = NoCall
    /\ call' = [Dropping(c) EXCEPT ![c] = Answered]
    /\ UNCHANGED tracked

\* The channel is full or closed.
SendFails(c) ==
    /\ call[c].pc = "push"
    /\ cleanup_activity(c)
    /\ UNCHANGED <<link, liminal, registered, jobs, verdicts, sweep, drain, toTell, toPark>>

\* Mutant: the call blocks without looking at the registry again.
MutantCheckRegistered(c) ==
    /\ call' = [call EXCEPT ![c].pc = "recv"]
    /\ UNCHANGED <<pending, tracked>>

\* The check before blocking: a verdict that is there already is preferred.
CheckRegistered(c) ==
    CASE call[c].worker \in registered ->
             /\ call' = [call EXCEPT ![c].pc = "recv"]
             /\ UNCHANGED <<pending, tracked>>
      [] call[c].worker \notin registered /\ call[c].rx \in Answers -> deliver_result(c)
      [] OTHER -> cleanup_activity(c)

(***************************************************************************)
(* The task is sent and the worker checked again, in one step: what can    *)
(* come between the two may as well come before or behind them.  A task    *)
(* put on a gRPC channel whose stream is down is lost; a liminal push has  *)
(* its reply router, which learns of the loss.                             *)
(***************************************************************************)
send_activity_task(c) ==
    LET w == call[c].worker IN
    /\ call[c].pc = "push"
    /\ jobs' = IF link[w] = "up" \/ w \in liminal THEN jobs \cup {<<w, c>>} ELSE jobs
    /\ CheckRegistered(c)
    /\ UNCHANGED <<link, liminal, registered, verdicts, sweep, drain, toTell, toPark>>

await_activity_result(c) ==
    /\ call[c].pc = "recv"
    /\ call[c].rx # "empty"
    /\ IF call[c].rx \in Answers
       THEN deliver_result(c)
       ELSE cleanup_activity(c)
    /\ UNCHANGED <<link, liminal, registered, jobs, verdicts, sweep, drain, toTell, toPark>>

CallStep(c) ==
    \/ Refused(c)
    \/ select_worker(c)
    \/ wait_for_worker(c)
    \/ track_worker_task(c)
    \/ send_activity_task(c)
    \/ SendFails(c)
    \/ await_activity_result(c)

-----------------------------------------------------------------------------
(* Workers.                                                                *)

Verdict(w, answer) == [worker |-> w, answer |-> answer]

\* register: ids in order; notify_waiters wakes the calls that wait by then.
Connect(w) ==
    /\ link[w] = "new"
    /\ \A v \in Workers : v < w => link[v] # "new"
    /\ link' = [link EXCEPT ![w] = "up"]
    /\ registered' = registered \cup {w}
    /\ call' = [c \in Calls |-> IF call[c].pc = "waiting"
                                THEN [call[c] EXCEPT !.pc = "call"] ELSE call[c]]
    /\ UNCHANGED <<liminal, tracked, pending, jobs, verdicts, sweep, drain, toTell, toPark>>

\* A worker answers over the session it got the task on: the tracked entry goes
\* first, the completion follows.  A liminal answer needs its reply router.
Answer(j) ==
    LET w == j[1] IN
    /\ j \in jobs
    /\ link[w] = "up"
    /\ jobs' = jobs \ {j}
    /\ tracked' = tracked \ {w}
    /\ verdicts' = verdicts \cup {Verdict(w, "reply")}
    /\ UNCHANGED <<link, liminal, registered, pending, sweep, drain, toTell, toPark, call>>

\* A result that was not acknowledged is reported again over a later session.
ReReport(j, v) ==
    LET w == j[1] IN
    /\ j \in jobs
    /\ w \notin liminal /\ link[w] \in {"down", "gone"}
    /\ v \notin liminal /\ link[v] = "up"
    /\ jobs' = jobs \ {j}
    /\ tracked' = tracked \ {v}
    /\ verdicts' = verdicts \cup {Verdict(w, "reply")}
    /\ UNCHANGED <<link, liminal, registered, pending, sweep, drain, toTell, toPark, call>>

Disconnect(w) ==
    /\ link[w] = "up"
    /\ link' = [link EXCEPT ![w] = "down"]
    /\ UNCHANGED <<liminal, registered, tracked, pending, jobs, verdicts, sweep,
                   drain, toTell, toPark, call>>

deregister(w) == registered' = registered \ {w}

\* The liminal connection's guard is dropped.
on_worker_unregistered(w) ==
    /\ w \in liminal
    /\ link[w] = "down"
    /\ link' = [link EXCEPT ![w] = "gone"]
    /\ deregister(w)
    /\ UNCHANGED <<liminal, tracked, pending, jobs, verdicts, sweep, drain, toTell, toPark, call>>

\* Mutant: the gate is inverted.
MutantFabricates(j) ==
    LET w == j[1] IN
    /\ j \in jobs
    /\ w \in liminal
    /\ jobs' = jobs \ {j}
    /\ tracked' = tracked \ {w}
    /\ verdicts' = IF w \in tracked
                   THEN verdicts ELSE verdicts \cup {Verdict(w, "lost")}
    /\ UNCHANGED <<link, liminal, registered, pending, sweep, drain, toTell, toPark, call>>

\* The reply router of a push whose connection is lost or whose reply is broken
\* fabricates a failure, but only if it retired the tracked entry itself.
Fabricates(j) ==
    LET w == j[1] IN
    /\ j \in jobs
    /\ w \in liminal
    /\ jobs' = jobs \ {j}
    /\ tracked' = tracked \ {w}
    /\ verdicts' = IF w \in tracked
                   THEN verdicts \cup {Verdict(w, "lost")} ELSE verdicts
    /\ UNCHANGED <<link, liminal, registered, pending, sweep, drain, toTell, toPark, call>>

\* The router of a dispatch resolved elsewhere: a reply that comes later is dropped.
Abandons(j) ==
    /\ j \in jobs
    /\ j[1] \in liminal \ tracked
    /\ jobs' = jobs \ {j}
    /\ UNCHANGED <<link, liminal, registered, tracked, pending, verdicts, sweep, drain, toTell,
                   toPark, call>>

\* What a router does by itself; a broken reply is the worker's doing.
route_liminal_reply(j) ==
    \/ link[j[1]] # "up" /\ Fabricates(j)
    \/ Abandons(j)

-----------------------------------------------------------------------------
(* Sweeps: deregister, then collect the tracked tasks, then resolve them.  *)

Sweep(w, fate) ==
    /\ sweep[w] = "idle"
    /\ deregister(w)
    /\ sweep' = [sweep EXCEPT ![w] = fate]
    /\ UNCHANGED <<liminal, tracked, pending, jobs, verdicts, drain, toTell, call>>

\* A gRPC stream ended.
teardown_worker_stream(w) ==
    /\ w \notin liminal
    /\ link[w] = "down"
    /\ link' = [link EXCEPT ![w] = "gone"]
    /\ Sweep(w, IF drain = "no" THEN "lost" ELSE "parked")
    /\ UNCHANGED toPark

\* A tracked task beyond its heartbeat window: also during a drain.
fail_expired_workers(w) ==
    /\ w \in tracked
    /\ Sweep(w, "lost")
    /\ UNCHANGED <<link, toPark>>

park_all_in_flight_workers(w) ==
    /\ w \in toPark
    /\ Sweep(w, "parked")
    /\ toPark' = toPark \ {w}
    /\ UNCHANGED link

\* What is still tracked is collected and resolved; a park and a failure differ
\* in the answer only.
remove_worker_tasks(w) ==
    /\ sweep[w] # "idle"
    /\ tracked' = tracked \ {w}
    /\ verdicts' = IF w \in tracked
                   THEN verdicts \cup {Verdict(w, sweep[w])} ELSE verdicts
    /\ sweep' = [sweep EXCEPT ![w] = "idle"]
    /\ UNCHANGED <<link, liminal, registered, pending, jobs, drain, toTell, toPark, call>>

\* complete and park_activity.  Without an entry a completion leaves the bridge.
complete(v) ==
    /\ v \in verdicts
    /\ verdicts' = verdicts \ {v}
    /\ pending' = NoCall
    /\ call' = IF pending = NoCall THEN call ELSE [call EXCEPT ![pending].rx = v.answer]
    /\ UNCHANGED <<link, liminal, registered, tracked, jobs, sweep, drain, toTell, toPark>>

-----------------------------------------------------------------------------
(* The drain, and deregistrations that no sweep follows.                   *)

\* begin, and the workers that broadcast_drain reads: none of liminal has a
\* channel for the request.
DrainBegins ==
    /\ drain = "no"
    /\ drain' = "yes"
    /\ toTell' = registered \ liminal
    /\ UNCHANGED <<link, liminal, registered, tracked, pending, jobs, verdicts, sweep,
                   toPark, call>>

\* One worker after the other, by id.  One whose channel is full, or closed although
\* its teardown is still to come, is deregistered and its tasks stay tracked.
broadcast_drain(w) ==
    /\ w \in toTell /\ \A v \in toTell : w =< v
    /\ toTell' = toTell \ {w}
    /\ UNCHANGED registered \/ deregister(w)
    /\ UNCHANGED <<link, liminal, tracked, pending, jobs, verdicts, sweep, drain, toPark,
                   call>>

\* The dispatch of another activity, over gRPC, found the worker's stream closed, or
\* no stream for it.  It looked at the drain before it sent.
send_to_candidates(w) ==
    /\ w \in registered
    /\ w \in liminal \/ link[w] = "down"
    /\ deregister(w)
    /\ UNCHANGED <<link, liminal, tracked, pending, jobs, verdicts, sweep, drain, toTell,
                   toPark, call>>

\* The tracker is empty, or the wait times out and what is tracked is to be parked.
wait_for_drain_or_timeout ==
    /\ drain = "yes"
    /\ toTell = {}
    /\ drain' = "over"
    /\ toPark' = tracked
    /\ UNCHANGED <<link, liminal, registered, tracked, pending, jobs, verdicts, sweep,
                   toTell, call>>

-----------------------------------------------------------------------------

Server ==
    \/ \E c \in Calls : CallStep(c)
    \/ \E v \in verdicts : complete(v)
    \/ \E w \in Workers : \/ teardown_worker_stream(w)
                          \/ park_all_in_flight_workers(w)
                          \/ remove_worker_tasks(w)
                          \/ on_worker_unregistered(w)
                          \/ broadcast_drain(w)
    \/ wait_for_drain_or_timeout
    \/ \E j \in jobs : route_liminal_reply(j)

Environment ==
    \/ \E c \in Calls : Dispatch(c)
    \/ \E w \in Workers : \/ Connect(w) \/ Disconnect(w) \/ fail_expired_workers(w)
                          \/ send_to_candidates(w)
    \/ \E j \in jobs : Answer(j) \/ Fabricates(j) \/ \E v \in Workers : ReReport(j, v)
    \/ DrainBegins

\* Workers are heard while a call is to return and until the drain is over, when
\* the server exits.
Heard == drain # "over" /\ \E c \in Calls : call[c].pc # "answered"

Next == Server \/ (Heard /\ Environment)

\* A worker whose link is down sends no heartbeats, so its window passes.
Silent == \E w \in Workers : link[w] \in {"down", "gone"} /\ fail_expired_workers(w)

Spec == Init /\ [][Next]_vars
FairSpec == Spec /\ WF_vars(Server \/ Silent)

-----------------------------------------------------------------------------

\* The shape of the registry, the tracker, the pending map and the calls.
TypeOK ==
    /\ link \in [Workers -> {"new", "up", "down", "gone"}]
    /\ liminal \subseteq Workers /\ registered \subseteq Workers /\ tracked \subseteq Workers
    /\ pending \in Calls \cup {NoCall}
    /\ jobs \subseteq Workers \X Calls
    /\ verdicts \subseteq [worker : Workers, answer : Answers]
    /\ sweep \in [Workers -> {"idle", "lost", "parked"}]
    /\ drain \in {"no", "yes", "over"}
    /\ toTell \subseteq Workers /\ toPark \subseteq Workers
    /\ call \in [Calls -> [pc : CallSteps,
                           worker : Workers \cup {NoWorker},
                           rx : Answers \cup {"empty", "dropped"}]]

(***************************************************************************)
(* A call that blocks has its sender in the pending map, and a completion  *)
(* is on its way or its task is tracked with somebody still to look: a     *)
(* sweep that has not collected yet; for gRPC the teardown of the stream,  *)
(* which has not ended or whose end is not handled yet; for liminal the    *)
(* reply router of the push.  Whatever other calls, answers, routers and   *)
(* sweeps took out of the map and the tracker meanwhile, and also if the   *)
(* worker was deregistered behind the check of await_activity_result by    *)
(* broadcast_drain or send_to_candidates, which sweep nothing.             *)
(***************************************************************************)
BlockedIsOwned ==
    \A c \in Calls :
        LET w == call[c].worker IN
        call[c].pc = "recv" /\ call[c].rx = "empty" =>
            /\ pending = c
            /\ \/ verdicts # {}
               \/ /\ w \in tracked
                  /\ \/ sweep[w] # "idle"
                     \/ w \notin liminal /\ link[w] \in {"up", "down"}
                     \/ w \in liminal /\ <<w, c>> \in jobs

\* Types and BlockedIsOwned of await_activity_result.
Inv == TypeOK /\ BlockedIsOwned

(***************************************************************************)
(* A call blocks for ever only on a worker that is connected and has its   *)
(* task: a lost stream, a lost connection, a silent worker, an entry that  *)
(* another call took and a drain all end the unbounded wait of             *)
(* await_activity_result.                                                  *)
(***************************************************************************)
CallsReturn ==
    \A c \in Calls :
        <>[](call[c].pc = "recv") =>
            <>[](\E w \in Workers : /\ call[c].worker = w
                                    /\ link[w] = "up"
                                    /\ <<w, c>> \in jobs)
=============================================================================
