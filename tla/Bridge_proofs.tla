---------------------------- MODULE Bridge_proofs ----------------------------
(***************************************************************************)
(* Proofs about module Bridge, for any number of calls, of workers and for *)
(* any mix of transports.                                                  *)
(***************************************************************************)
EXTENDS Bridge, WellFoundedInduction, TLAPS

-----------------------------------------------------------------------------

\* select_worker finds a worker in a registry that has one.
LEMMA MinIsMember ==
    ASSUME NEW S \in SUBSET Nat, S # {}
    PROVE  Min(S) \in S
  <1> DEFINE R == {p \in Nat \X Nat : p[1] < p[2]}
  <1>1. IsWellFoundedOn(R, Nat)
    BY NatLessThanWellFounded, Zenon DEF OpToRel
  <1>2. \E m \in S : \A k \in S : ~(<<k, m>> \in R)
    BY <1>1, WFMin, Zenon
  <1>3. PICK m \in S : \A k \in S : ~(<<k, m>> \in R)
    BY <1>2
  <1>4. ASSUME NEW k \in S PROVE m =< k
    <2>1. m \in Nat /\ k \in Nat
      OBVIOUS
    <2>2. <<k, m>> \in R <=> k < m
      BY <2>1
    <2>3. QED
      BY <1>3, <2>1, <2>2
  <1>5. QED
    BY <1>4 DEF Min

USE BridgeAssumption

-----------------------------------------------------------------------------
(***************************************************************************)
(* A call with a receiver, "push" or "recv", that nothing has resolved or  *)
(* dropped is the one whose sender is in the map, and it is tracked or a   *)
(* verdict is out.  One whose task is at a liminal worker has its router.  *)
(***************************************************************************)
Open(c) == call[c].pc \in {"push", "recv"} /\ call[c].rx = "empty"

SenderInMap == \A c \in Calls : Open(c) => pending = c

OpenIsTracked ==
    \A c \in Calls : Open(c) => call[c].worker \in tracked \/ verdicts # {}

\* A worker is chosen before the call is tracked, and stays the same.
HasWorker ==
    \A c \in Calls : call[c].pc \in {"track", "push", "recv"} => call[c].worker \in Workers

RouterIsThere ==
    \A c \in Calls :
        /\ call[c].pc = "recv"
        /\ call[c].rx = "empty"
        /\ verdicts = {}
        /\ call[c].worker \in liminal
        => <<call[c].worker, c>> \in jobs

\* A gRPC worker is in the registry only while its stream has a teardown to come.
StreamIsOpen == \A w \in registered \ liminal : link[w] \in {"up", "down"}

\* The inductive invariant.
IInv ==
    /\ TypeOK
    /\ HasWorker
    /\ StreamIsOpen
    /\ SenderInMap
    /\ OpenIsTracked
    /\ RouterIsThere
    /\ BlockedIsOwned

-----------------------------------------------------------------------------

(***************************************************************************)
(* The part of the invariant that speaks of open receivers.                *)
(***************************************************************************)
Owned == SenderInMap /\ OpenIsTracked /\ RouterIsThere /\ BlockedIsOwned

\* The record of a call.
Call == [pc : CallSteps, worker : Workers \cup {NoWorker},
         rx : Answers \cup {"empty", "dropped"}]

\* Taking the entry out leaves no other call with an open receiver.
LEMMA DroppingEffect ==
    ASSUME TypeOK, SenderInMap, NEW c \in Calls
    PROVE  /\ Dropping(c) \in [Calls -> Call]
           /\ Dropping(c)[c] = call[c]
           /\ \A d \in Calls : /\ Dropping(c)[d].pc = call[d].pc
                               /\ Dropping(c)[d].worker = call[d].worker
           /\ \A d \in Calls \ {c} : ~(/\ Dropping(c)[d].pc \in {"push", "recv"}
                                       /\ Dropping(c)[d].rx = "empty")
  BY DEF Dropping, TypeOK, SenderInMap, Open, Call, Answers, NoCall

\* Where no receiver is open nothing is owed.
LEMMA NoneOpen ==
    ASSUME \A d \in Calls : ~Open(d)'
    PROVE  Owned'
  BY DEF Owned, Open, SenderInMap, OpenIsTracked, RouterIsThere, BlockedIsOwned

\* A call that cleans up, or takes its result, leaves no receiver open.
LEMMA CallEnds ==
    ASSUME TypeOK, SenderInMap, NEW c \in Calls,
           cleanup_activity(c) \/ deliver_result(c)
    PROVE  Owned'
  <1>1. call' = [Dropping(c) EXCEPT ![c] = Answered]
    BY DEF cleanup_activity, deliver_result
  <1>2. \A d \in Calls : ~Open(d)'
    BY <1>1, DroppingEffect DEF Open, Answered, Idle
  <1>3. QED
    BY <1>2, NoneOpen

\* No step leaves the types, or a call on its way without its worker.
LEMMA TypeStep == TypeOK /\ HasWorker /\ [Next]_vars => TypeOK' /\ HasWorker'
  <1> SUFFICES ASSUME TypeOK, HasWorker, [Next]_vars
               PROVE  TypeOK' /\ HasWorker'
    OBVIOUS
  <1> USE DEF TypeOK, HasWorker
  <1>a. \A j \in jobs : j[1] \in Workers
    OBVIOUS
  <1>b. registered # {} => Min(registered) \in Workers
    <2>1. registered \in SUBSET Nat
      OBVIOUS
    <2>2. QED
      BY <2>1, MinIsMember
  <1>1. ASSUME NEW c \in Calls, Dispatch(c) PROVE TypeOK' /\ HasWorker'
    BY <1>1 DEF Dispatch, CallSteps
  <1>2. ASSUME NEW c \in Calls, Refused(c) PROVE TypeOK' /\ HasWorker'
    BY <1>2 DEF Refused, CallSteps, Answered, Idle, NoWorker
  <1>3. ASSUME NEW c \in Calls, select_worker(c) PROVE TypeOK' /\ HasWorker'
    <2>1. CASE registered = {}
      BY <1>3, <2>1 DEF select_worker, CallSteps
    <2>2. CASE registered # {}
      <3>1. PICK w \in Workers : w = Min(registered)
        BY <2>2, <1>b
      <3>2. /\ call' = [call EXCEPT ![c] = [pc |-> "track", worker |-> w, rx |-> "empty"]]
            /\ UNCHANGED <<link, liminal, registered, tracked, pending, jobs, verdicts,
                           sweep, drain, toTell, toPark>>
        BY <1>3, <2>2, <3>1 DEF select_worker
      <3>3. QED
        BY <3>2 DEF CallSteps
    <2>3. QED
      BY <2>1, <2>2
  <1>4. ASSUME NEW c \in Calls, wait_for_worker(c) PROVE TypeOK' /\ HasWorker'
    BY <1>4 DEF wait_for_worker, CallSteps
  <1>5. ASSUME NEW c \in Calls, track_worker_task(c) PROVE TypeOK' /\ HasWorker'
    BY <1>5 DEF track_worker_task, CallSteps, Dropping, NoCall
  <1>6. ASSUME NEW c \in Calls, SendFails(c) PROVE TypeOK' /\ HasWorker'
    BY <1>6 DEF SendFails, cleanup_activity, Dropping, Answered, Idle, CallSteps, NoCall, NoWorker
  <1>7. ASSUME NEW c \in Calls, send_activity_task(c) PROVE TypeOK' /\ HasWorker'
    BY <1>7 DEF send_activity_task, CheckRegistered, cleanup_activity, deliver_result,
               Dropping, Answered, Idle, CallSteps, NoCall, NoWorker
  <1>8. ASSUME NEW c \in Calls, await_activity_result(c) PROVE TypeOK' /\ HasWorker'
    BY <1>8 DEF await_activity_result, cleanup_activity, deliver_result, Dropping,
               Answered, Idle, CallSteps, NoCall, NoWorker
  <1>9. ASSUME NEW w \in Workers, Connect(w) PROVE TypeOK' /\ HasWorker'
    BY <1>9 DEF Connect, CallSteps
  <1>10. ASSUME NEW j \in jobs, Answer(j) PROVE TypeOK' /\ HasWorker'
    <2>1. Verdict(j[1], "reply") \in [worker : Workers, answer : Answers]
      BY <1>a DEF Verdict, Answers
    <2>2. QED
      BY <1>10, <2>1 DEF Answer
  <1>11. ASSUME NEW w \in Workers, Disconnect(w) PROVE TypeOK' /\ HasWorker'
    BY <1>11 DEF Disconnect
  <1>12. ASSUME NEW w \in Workers, on_worker_unregistered(w) PROVE TypeOK' /\ HasWorker'
    BY <1>12 DEF on_worker_unregistered, deregister
  <1>13. ASSUME NEW j \in jobs, Fabricates(j) PROVE TypeOK' /\ HasWorker'
    <2>1. Verdict(j[1], "lost") \in [worker : Workers, answer : Answers]
      BY <1>a DEF Verdict, Answers
    <2>2. QED
      BY <1>13, <2>1 DEF Fabricates
  <1>14. ASSUME NEW j \in jobs, Abandons(j) PROVE TypeOK' /\ HasWorker'
    BY <1>14 DEF Abandons
  <1>15. ASSUME NEW w \in Workers, teardown_worker_stream(w) PROVE TypeOK' /\ HasWorker'
    BY <1>15 DEF teardown_worker_stream, Sweep, deregister
  <1>16. ASSUME NEW w \in Workers, fail_expired_workers(w) PROVE TypeOK' /\ HasWorker'
    BY <1>16 DEF fail_expired_workers, Sweep, deregister
  <1>17. ASSUME NEW w \in Workers, park_all_in_flight_workers(w) PROVE TypeOK' /\ HasWorker'
    BY <1>17 DEF park_all_in_flight_workers, Sweep, deregister
  <1>18. ASSUME NEW w \in Workers, remove_worker_tasks(w) PROVE TypeOK' /\ HasWorker'
    BY <1>18 DEF remove_worker_tasks, Verdict, Answers
  <1>19. ASSUME NEW v \in verdicts, complete(v) PROVE TypeOK' /\ HasWorker'
    BY <1>19 DEF complete, NoCall
  <1>20. ASSUME NEW j \in jobs, NEW v \in Workers, ReReport(j, v)
        PROVE  TypeOK' /\ HasWorker'
    BY <1>20, <1>a DEF ReReport, Verdict, Answers
  <1>21. CASE DrainBegins
    BY <1>21 DEF DrainBegins
  <1>22. CASE wait_for_drain_or_timeout
    BY <1>22 DEF wait_for_drain_or_timeout
  <1>23. ASSUME NEW w \in Workers, broadcast_drain(w) PROVE TypeOK' /\ HasWorker'
    BY <1>23 DEF broadcast_drain, deregister
  <1>24. ASSUME NEW w \in Workers, send_to_candidates(w) PROVE TypeOK' /\ HasWorker'
    BY <1>24 DEF send_to_candidates, deregister
  <1>25. CASE UNCHANGED vars
    BY <1>25 DEF vars
  <1>26. QED
    BY <1>1, <1>2, <1>3, <1>4, <1>5, <1>6, <1>7, <1>8, <1>9, <1>10, <1>11, <1>12,
       <1>13, <1>14, <1>15, <1>16, <1>17, <1>18, <1>19, <1>20, <1>21, <1>22, <1>23,
       <1>24, <1>25
       DEF Next, Server, Environment, CallStep, route_liminal_reply

\* The teardown of a stream takes its worker out of the registry.
LEMMA StreamStep == TypeOK /\ StreamIsOpen /\ [Next]_vars => StreamIsOpen'
  <1> SUFFICES ASSUME TypeOK, StreamIsOpen, [Next]_vars
               PROVE  StreamIsOpen'
    OBVIOUS
  <1> USE DEF TypeOK, StreamIsOpen
  <1>1. CASE UNCHANGED <<link, liminal, registered>>
    BY <1>1
  <1>2. ASSUME NEW w \in Workers, Connect(w) PROVE StreamIsOpen'
    BY <1>2 DEF Connect
  <1>3. ASSUME NEW w \in Workers, Disconnect(w) PROVE StreamIsOpen'
    BY <1>3 DEF Disconnect
  <1>4. ASSUME NEW w \in Workers, on_worker_unregistered(w) PROVE StreamIsOpen'
    BY <1>4 DEF on_worker_unregistered, deregister
  <1>5. ASSUME NEW w \in Workers, teardown_worker_stream(w) PROVE StreamIsOpen'
    BY <1>5 DEF teardown_worker_stream, Sweep, deregister
  <1>6. ASSUME NEW w \in Workers,
               fail_expired_workers(w) \/ park_all_in_flight_workers(w)
        PROVE  StreamIsOpen'
    BY <1>6 DEF fail_expired_workers, park_all_in_flight_workers, Sweep, deregister
  <1>7. ASSUME NEW w \in Workers, broadcast_drain(w) \/ send_to_candidates(w)
        PROVE  StreamIsOpen'
    BY <1>7 DEF broadcast_drain, send_to_candidates, deregister
  <1>8. ASSUME NEW c \in Calls, Dispatch(c) \/ CallStep(c)
        PROVE  UNCHANGED <<link, liminal, registered>>
    BY <1>8 DEF Dispatch, CallStep, Refused, select_worker, wait_for_worker,
               track_worker_task, send_activity_task, SendFails, await_activity_result
  <1>9. ASSUME NEW j \in jobs,
               \/ Answer(j) \/ Fabricates(j) \/ route_liminal_reply(j)
               \/ \E v \in Workers : ReReport(j, v)
        PROVE  UNCHANGED <<link, liminal, registered>>
    BY <1>9 DEF Answer, Fabricates, route_liminal_reply, Abandons, ReReport
  <1>10. ASSUME \/ \E w \in Workers : remove_worker_tasks(w)
                \/ \E v \in verdicts : complete(v)
                \/ DrainBegins \/ wait_for_drain_or_timeout \/ UNCHANGED vars
         PROVE  UNCHANGED <<link, liminal, registered>>
    BY <1>10 DEF remove_worker_tasks, complete, DrainBegins, wait_for_drain_or_timeout, vars
  <1>11. QED
    BY <1>1, <1>2, <1>3, <1>4, <1>5, <1>6, <1>7, <1>8, <1>9, <1>10
       DEF Next, Server, Environment

\* The invariant is inductive.
LEMMA IInvStep == IInv /\ [Next]_vars => IInv'
  <1> SUFFICES ASSUME IInv, [Next]_vars
               PROVE  IInv'
    OBVIOUS
  <1>t. /\ TypeOK /\ HasWorker /\ StreamIsOpen /\ Owned
        /\ TypeOK' /\ HasWorker' /\ StreamIsOpen'
    BY TypeStep, StreamStep DEF IInv, Owned
  <1> SUFFICES Owned'
    BY <1>t DEF IInv, Owned
  <1> USE DEF Owned, Open, SenderInMap, OpenIsTracked, RouterIsThere, BlockedIsOwned
  <1>1. ASSUME NEW c \in Calls, Dispatch(c) PROVE Owned'
    BY <1>1, <1>t DEF Dispatch, TypeOK
  <1>2. ASSUME NEW c \in Calls, Refused(c) PROVE Owned'
    BY <1>2, <1>t DEF Refused, Answered, Idle, NoWorker, TypeOK
  <1>3. ASSUME NEW c \in Calls, select_worker(c) PROVE Owned'
    BY <1>3, <1>t DEF select_worker, TypeOK
  <1>4. ASSUME NEW c \in Calls, wait_for_worker(c) PROVE Owned'
    BY <1>4, <1>t DEF wait_for_worker, TypeOK
  <1>5. ASSUME NEW c \in Calls, track_worker_task(c) PROVE Owned'
    <2>1. call' = [Dropping(c) EXCEPT ![c].pc = "push"] /\ pending' = c
      BY <1>5 DEF track_worker_task
    <2>2. \A d \in Calls \ {c} : ~Open(d)'
      BY <2>1, <1>t, DroppingEffect
    <2>3. call'[c].pc = "push" /\ call'[c].worker \in tracked'
      BY <1>5, <2>1, <1>t, DroppingEffect DEF track_worker_task
    <2>4. QED
      BY <2>1, <2>2, <2>3
  <1>6. ASSUME NEW c \in Calls, SendFails(c) PROVE Owned'
    BY <1>6, <1>t, CallEnds DEF SendFails
  <1>7. ASSUME NEW c \in Calls, send_activity_task(c) PROVE Owned'
    <2>1. CASE call[c].worker \in registered
      <3>1. /\ call' = [call EXCEPT ![c].pc = "recv"]
            /\ UNCHANGED <<pending, tracked, verdicts, registered, liminal, link, sweep>>
        BY <1>7, <2>1 DEF send_activity_task, CheckRegistered
      <3>2. /\ jobs \subseteq jobs'
            /\ call[c].worker \in liminal => <<call[c].worker, c>> \in jobs'
        BY <1>7 DEF send_activity_task
      <3>3. call[c].pc = "push"
        BY <1>7 DEF send_activity_task
      <3>4. call[c].worker \notin liminal => link[call[c].worker] \in {"up", "down"}
        BY <2>1, <1>t DEF StreamIsOpen
      <3>5. QED
        BY <3>1, <3>2, <3>3, <3>4, <1>t DEF TypeOK
    <2>2. CASE call[c].worker \notin registered
      BY <1>7, <2>2, <1>t, CallEnds DEF send_activity_task, CheckRegistered
    <2>3. QED
      BY <2>1, <2>2
  <1>8. ASSUME NEW c \in Calls, await_activity_result(c) PROVE Owned'
    BY <1>8, <1>t, CallEnds DEF await_activity_result
  <1>9. ASSUME NEW w \in Workers, Connect(w) PROVE Owned'
    BY <1>9, <1>t DEF Connect, TypeOK
  <1>10. ASSUME NEW j \in jobs, Answer(j) PROVE Owned'
    BY <1>10, <1>t DEF Answer, Verdict, Answers, TypeOK
  <1>11. ASSUME NEW w \in Workers, Disconnect(w) PROVE Owned'
    BY <1>11, <1>t DEF Disconnect, TypeOK
  <1>12. ASSUME NEW w \in Workers, on_worker_unregistered(w) PROVE Owned'
    BY <1>12, <1>t DEF on_worker_unregistered, deregister, TypeOK
  <1>13. ASSUME NEW j \in jobs, Fabricates(j) PROVE Owned'
    <2>1. CASE j[1] \in tracked
      <3>1. verdicts' # {} /\ UNCHANGED <<call, pending>>
        BY <1>13, <2>1 DEF Fabricates
      <3>2. QED
        BY <3>1, <1>t
    <2>2. CASE j[1] \notin tracked
      <3>1. tracked' = tracked /\ verdicts' = verdicts /\ jobs' = jobs \ {j}
        BY <1>13, <2>2 DEF Fabricates
      <3>2. \A c \in Calls : Open(c) /\ verdicts = {} => <<call[c].worker, c>> # j
        <4>1. \A c \in Calls : <<call[c].worker, c>>[1] = call[c].worker
          OBVIOUS
        <4>2. QED
          BY <2>2, <4>1, <1>t
      <3>3. QED
        BY <1>13, <3>1, <3>2, <1>t DEF Fabricates
    <2>3. QED
      BY <2>1, <2>2
  <1>14. ASSUME NEW j \in jobs, Abandons(j) PROVE Owned'
    BY <1>14, <1>t DEF Abandons, TypeOK
  <1>15. ASSUME NEW w \in Workers, teardown_worker_stream(w) PROVE Owned'
    BY <1>15, <1>t DEF teardown_worker_stream, Sweep, deregister, TypeOK
  <1>16. ASSUME NEW w \in Workers, fail_expired_workers(w) PROVE Owned'
    BY <1>16, <1>t DEF fail_expired_workers, Sweep, deregister, TypeOK
  <1>17. ASSUME NEW w \in Workers, park_all_in_flight_workers(w) PROVE Owned'
    BY <1>17, <1>t DEF park_all_in_flight_workers, Sweep, deregister, TypeOK
  <1>18. ASSUME NEW w \in Workers, remove_worker_tasks(w) PROVE Owned'
    <2>1. CASE w \in tracked
      <3>1. verdicts' # {} /\ UNCHANGED <<call, pending>>
        BY <1>18, <2>1 DEF remove_worker_tasks
      <3>2. QED
        BY <3>1, <1>t
    <2>2. CASE w \notin tracked
      <3>1. tracked' = tracked /\ verdicts' = verdicts /\ sweep' = [sweep EXCEPT ![w] = "idle"]
        BY <1>18, <2>2 DEF remove_worker_tasks
      <3>2. QED
        BY <1>18, <2>2, <3>1, <1>t DEF remove_worker_tasks, TypeOK
    <2>3. QED
      BY <2>1, <2>2
  <1>19. ASSUME NEW v \in verdicts, complete(v) PROVE Owned'
    <2>1. \A d \in Calls : ~Open(d)'
      <3>1. CASE pending = NoCall
        BY <1>19, <3>1, <1>t DEF complete, NoCall
      <3>2. CASE pending \in Calls
        <4>1. call' = [call EXCEPT ![pending].rx = v.answer] /\ v.answer # "empty"
          BY <1>19, <3>2, <1>t DEF complete, NoCall, TypeOK, Answers
        <4>2. QED
          BY <3>2, <4>1, <1>t DEF TypeOK
      <3>3. QED
        BY <3>1, <3>2, <1>t DEF TypeOK
    <2>2. QED
      BY <2>1, NoneOpen
  <1>20. ASSUME NEW j \in jobs, NEW v \in Workers, ReReport(j, v)
        PROVE  Owned'
    BY <1>20, <1>t DEF ReReport, Verdict, Answers, TypeOK
  <1>21. CASE DrainBegins
    BY <1>21, <1>t DEF DrainBegins, TypeOK
  <1>22. CASE wait_for_drain_or_timeout
    BY <1>22, <1>t DEF wait_for_drain_or_timeout, TypeOK
  <1>23. ASSUME NEW w \in Workers, broadcast_drain(w) PROVE Owned'
    BY <1>23, <1>t DEF broadcast_drain, deregister, TypeOK
  <1>24. ASSUME NEW w \in Workers, send_to_candidates(w) PROVE Owned'
    BY <1>24, <1>t DEF send_to_candidates, deregister, TypeOK
  <1>25. CASE UNCHANGED vars
    BY <1>25, <1>t DEF vars, TypeOK
  <1>26. QED
    BY <1>1, <1>2, <1>3, <1>4, <1>5, <1>6, <1>7, <1>8, <1>9, <1>10, <1>11, <1>12,
       <1>13, <1>14, <1>15, <1>16, <1>17, <1>18, <1>19, <1>20, <1>21, <1>22, <1>23,
       <1>24, <1>25
       DEF Next, Server, Environment, CallStep, route_liminal_reply

-----------------------------------------------------------------------------

\* At the start nobody calls.
LEMMA IInvInit == Init => IInv
  BY DEF Init, IInv, TypeOK, HasWorker, StreamIsOpen, SenderInMap, OpenIsTracked,
         RouterIsThere, BlockedIsOwned, Open, Idle, NoCall, NoWorker, CallSteps, Answers

(***************************************************************************)
(* Whatever answers, routers, sweeps, drains and other calls do, and       *)
(* whoever deregisters its worker, a call that blocks in                   *)
(* await_activity_result has its sender in the map and somebody who will   *)
(* use it: a completion, a sweep, the teardown of the worker's stream or   *)
(* the router of its push.                                                 *)
(***************************************************************************)
THEOREM BlockedCallsAreOwned == Spec => []Inv
  <1>1. Spec => []IInv
    BY IInvInit, IInvStep, PTL DEF Spec
  <1>2. IInv => Inv
    BY DEF IInv, Inv
  <1>3. QED
    BY <1>1, <1>2, PTL

=============================================================================
