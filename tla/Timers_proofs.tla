---------------------------- MODULE Timers_proofs ----------------------------
(***************************************************************************)
(* Proofs about module Timers, for any number of crashes and failing       *)
(* writes, any deadline policy and any times at which the timers elapse.   *)
(***************************************************************************)
EXTENDS Timers, TLAPS

-----------------------------------------------------------------------------
(* The inductive invariant.                                                *)

(***************************************************************************)
(* What a held slot knows of its timer.  Between the check of liveness and *)
(* the append nobody else settles the timer of a running run; a delivery   *)
(* is of a recorded fire; and behind its decision the deadline handler     *)
(* works on a timed-out run, whose visibility row it has written before it *)
(* retires the deadline.                                                   *)
(***************************************************************************)
SlotsAreTrue ==
    /\ \A t \in Timer :
           /\ slot[t].step = "record" => last[t] = "Started" \/ outcome # "None"
           /\ slot[t].step = "deliver" => last[t] = "Fired"
           /\ slot[t].step \in {"decide", "ordinary", "kill", "visibility", "retire", "deregister"}
                  => t = "deadline"
    /\ slot["deadline"].step \in {"ordinary", "kill", "visibility", "retire", "deregister"}
           => outcome = "TimedOut"
    /\ slot["deadline"].step \in {"retire", "deregister"} => shown

\* The two transitions that append twice, between their appends.
LocksAreTrue ==
    /\ pc = "retire" => lock = "exit" /\ outcome = "Completed"
    /\ client = "retire" => lock = "client" /\ outcome = "Cancelled"
    /\ lock = "exit" => pc = "retire"
    /\ lock = "client" => client = "retire"

\* The process of a run that has not ended is registered, and started what it
\* has gone past.
ProcessIsTrue ==
    /\ Alive /\ outcome = "None" => registered
    /\ client \in {"kill", "remove"} => outcome # "None"
    /\ pc \in {"start", "row_named", "cancel_timer"} => uses = "named"
    /\ pc \in {"arm", "row_scope", "settle", "cancel_scope", "read_scope"} => uses = "scope"
    /\ pc \in {"row_sleep", "cancel_sleep", "read_sleep"} => last["sleep"] # "None"
    /\ pc = "read_sleep" => last["sleep"] \in TimerTerminals \/ outcome # "None"
    /\ /\ uses = "scope"
       /\ pc \in {"row_scope", "sleep", "row_sleep", "parked", "cancel_sleep", "read_sleep",
                 "settle", "cancel_scope", "read_scope"}
       => last["scope"] # "None"
    /\ pc = "read_scope" => last["scope"] \in TimerTerminals \/ outcome # "None"
    /\ scope = "fired" => last["scope"] = "Fired"
    /\ scope = "cancelled" => last["scope"] = "Cancelled"

(***************************************************************************)
(* An answer is the terminal in the history; one that found none was given *)
(* to a run whose teardown is recorded, or by the last process of a run    *)
(* that has ended.                                                         *)
(***************************************************************************)
BeforeSleepAnswer == {"start", "row_named", "arm", "row_scope", "sleep", "row_sleep", "parked",
                      "cancel_sleep", "read_sleep"}

AnswersAreTrue ==
    /\ "fired" \in sleeps => last["sleep"] = "Fired"
    /\ "cancelled" \in sleeps => last["sleep"] = "Cancelled"
    /\ "error" \in sleeps => \/ last["sleep"] = "Teardown"
                             \/ /\ outcome # "None"
                                /\ pc \notin BeforeSleepAnswer
                                /\ last["sleep"] # "None"
                                /\ sleeps = {"error"}
    /\ "expired" \in scopes => last["scope"] = "Fired"
    /\ "ok" \in scopes => last["scope"] = "Cancelled"
    /\ "error" \in scopes => \/ last["scope"] = "Teardown"
                             \/ /\ outcome # "None"
                                /\ pc \in {"done", "exited", "retire", "gone", "none"}
                                /\ scopes = {"error"}

(***************************************************************************)
(* RowedTimersAreDriven through a boot: what the recovery and the re-arm   *)
(* still have to do counts.                                                *)
(***************************************************************************)
Driven(t) == t \in wheel \/ slot[t] # Free \/ t \in todo

RowsAreDriven ==
    Alive /\ outcome = "None" =>
        /\ phase = "recover" =>
               \A t \in rows \cap live_timers : FireAt[t] <= asOf => Driven(t)
        /\ phase = "rearm" =>
               \A t \in rows \cap live_timers : Driven(t)
        /\ phase = "up" /\ client # "timers" =>
               \A t \in rows \cap live_timers : t \in wheel \/ slot[t] # Free

BootIsTrue ==
    /\ client = "timers" => phase = "up"
    /\ starting => phase = "up" /\ pc # "none"
    /\ phase = "up" => todo = {}
    /\ phase \in {"down", "boot"} => /\ pc = "none" /\ todo = {} /\ wheel = {}
                                     /\ slot = AllFree /\ lock = "free"
    /\ Running /\ pc = "none" => outcome # "None"
    /\ phase = "rearm" /\ pc = "none" => todo = {}
    /\ phase = "boot" /\ outcome \in {"Completed", "Cancelled"} /\ "deadline" \in rows
           => "deadline" \notin live_timers
    /\ phase = "boot" /\ outcome # "None" => shown

\* A timer has a row, or is about to get one, only when its start is recorded.
RowsAreStarted ==
    /\ last["deadline"] # "None"
    /\ \A t \in rows : last[t] # "None"
    /\ pc = "row_named" => last["named"] # "None"
    /\ phase = "rearm" => \A t \in todo : last[t] # "None"

\* The deadline is on the wheel once in an engine epoch, and off it for good when
\* its attempts are used up.
AttemptsCounted ==
    /\ "deadline" \in wheel => attempts < MaxAttempts
    /\ slot["deadline"].by = "wheel" => attempts < MaxAttempts
    /\ phase = "recover" => "deadline" \notin wheel
    /\ phase \in {"down", "boot", "recover"} => attempts = 0 /\ slot["deadline"].by # "wheel"
    /\ starting \/ (phase = "rearm" /\ "deadline" \in todo) =>
           attempts = 0 /\ "deadline" \notin wheel /\ slot["deadline"].by # "wheel"

IInv ==
    /\ TypeOK
    /\ AttemptsCounted
    /\ SlotsAreTrue
    /\ LocksAreTrue
    /\ ProcessIsTrue
    /\ AnswersAreTrue
    /\ RowsAreStarted
    /\ RowsAreDriven
    /\ BootIsTrue
    /\ RetiredLast
    /\ NoOrphanedDeadlineAfterBoot

-----------------------------------------------------------------------------
USE TimersConstants

Flags == {shown, registered, starting, mail, expired} \subseteq BOOLEAN

\* The flags stay flags.
LEMMA FlagsStep ==
    ASSUME TypeOK, [Next]_vars
    PROVE  Flags'
  <1> USE DEF TypeOK, Flags, history, durable, boot, hosting, tasks, frame, answers,
              process, caller, bounds
  <1>1. CASE ArmDeadline
    BY <1>1 DEF ArmDeadline, schedule, Resident, Running
  <1>2. CASE Tick
    BY <1>2 DEF Tick
  <1>3. CASE start_timer
    BY <1>3 DEF start_timer, At, Running, RecordStarted, Record
  <1>4. CASE arm_scope
    BY <1>4 DEF arm_scope, At, Running, RecordStarted, Record, timer_terminal_recorded
  <1>5. ASSUME NEW t \in Ordinary, ScheduleRow(t) PROVE Flags'
    BY <1>5 DEF ScheduleRow, schedule, Resident, Running
  <1>6. CASE sleep
    BY <1>6
       DEF sleep, Running, RecordStarted, Record, timer_terminal_recorded,
           expired_scope_deadline, AfterSleep
  <1>7. CASE park_sleep_settled
    BY <1>7 DEF park_sleep_settled, At, Running, timer_terminal_recorded, AfterSleep
  <1>8. CASE resume_with_timeout
    BY <1>8 DEF resume_with_timeout, At, Running, ScopeAnswer
  <1>9. CASE settle_live_scope
    BY <1>9 DEF settle_live_scope, At, Running, ScopeAnswer, timer_terminal_recorded
  <1>10. CASE cancel_timer
    BY <1>10 DEF cancel_timer, At, Running
  <1>11. CASE Exit
    BY <1>11 DEF Exit, At, Running, ProcessDies
  <1>12. ASSUME NEW by \in {"process", "client"}, NEW t \in Timer, CancelCheck(by, t)
         PROVE  Flags'
    BY <1>12
       DEF CancelCheck, Cancels, ClientsNext, CancelReturns, live_timers, Resident, Running
  <1>13. ASSUME NEW by \in {"process", "client"}, NEW t \in Timer, CancelRecord(by, t)
         PROVE  Flags'
    BY <1>13
       DEF CancelRecord, Cancels, ClientsNext, CancelReturns, CancelCause,
           record_workflow_event, Record, Running
  <1>14. ASSUME NEW t \in Timer, CancelRecordFails(t) PROVE Flags'
    BY <1>14 DEF CancelRecordFails, Cancels, ClientsNext, CancelReturns, Running
  <1>15. ASSUME NEW by \in {"wheel", "recovery"}, NEW t \in Timer, FireCheck(by, t)
         PROVE  Flags'
    BY <1>15 DEF FireCheck, Fires, FireEnds, live_timers, Running
  <1>16. ASSUME NEW by \in {"wheel", "recovery"}, NEW t \in Timer, FireRecord(by, t)
         PROVE  Flags'
    BY <1>16 DEF FireRecord, Holds, record_workflow_event, Record, Step, FireEnds, Running
  <1>17. ASSUME NEW by \in {"wheel", "recovery"}, NEW t \in Timer, FireDeliver(by, t)
         PROVE  Flags'
    BY <1>17 DEF FireDeliver, Holds, FireEnds, Resident, Alive, Running
  <1>18. ASSUME NEW by \in {"wheel", "recovery"}, decide_disposition(by) PROVE Flags'
    BY <1>18
       DEF decide_disposition, Holds, live_timers, RecordOutcome, Record, Step, FireEnds,
           Running
  <1>19. ASSUME NEW by \in {"wheel", "recovery"}, RetireOrdinary(by) PROVE Flags'
    BY <1>19 DEF RetireOrdinary, Holds, live_timers, Record, Step, Running
  <1>20. ASSUME NEW by \in {"wheel", "recovery"}, KillTimedOut(by) PROVE Flags'
    BY <1>20 DEF KillTimedOut, Holds, Alive, ProcessDies, Step, Running
  <1>21. ASSUME NEW by \in {"wheel", "recovery"}, ShowTimedOut(by) PROVE Flags'
    BY <1>21 DEF ShowTimedOut, Holds, Step, Running
  <1>22. ASSUME NEW by \in {"wheel", "recovery"}, RetireDeadline(by) PROVE Flags'
    BY <1>22 DEF RetireDeadline, Holds, live_timers, Record, Step, Running
  <1>23. ASSUME NEW by \in {"wheel", "recovery"}, Deregister(by) PROVE Flags'
    BY <1>23 DEF Deregister, Holds, FireEnds, Running
  <1>24. CASE WheelFireFails
    BY <1>24 DEF WheelFireFails, Holds, Running
  <1>25. CASE handle_process_exit
    BY <1>25 DEF handle_process_exit, At, Running, RecordOutcome, Record, live_timers
  <1>26. CASE MonitorRetires
    BY <1>26 DEF MonitorRetires, At, Running, retire_run_deadline, Record, live_timers
  <1>27. CASE CancelRequest
    BY <1>27 DEF CancelRequest, live_timers
  <1>28. CASE ClientTerminates
    BY <1>28 DEF ClientTerminates, RecordOutcome, Running
  <1>29. CASE ClientRetires
    BY <1>29 DEF ClientRetires, retire_run_deadline, Record, live_timers, Running
  <1>30. CASE RetireFails
    BY <1>30 DEF RetireFails, live_timers, Running
  <1>31. CASE ClientKills
    BY <1>31 DEF ClientKills, Alive, ProcessDies, Running
  <1>32. CASE ClientRemoves
    BY <1>32 DEF ClientRemoves, Running
  <1>33. CASE Crash
    BY <1>33 DEF Crash, EngineDies, AllFree
  <1>34. CASE RecoveryFails
    BY <1>34 DEF RecoveryFails, Holds, EngineDies, AllFree, Running
  <1>35. CASE BootSweep
    BY <1>35 DEF BootSweep, live_timers, Record
  <1>36. CASE Repopulate
    BY <1>36 DEF Repopulate, Entry, expired_timers
  <1>37. CASE RearmRead
    BY <1>37 DEF RearmRead, outstanding_future_timers, live_timers
  <1>38. ASSUME NEW t \in Timer, Rearm(t) PROVE Flags'
    BY <1>38 DEF Rearm, schedule, Resident
  <1>39. CASE BootDone
    BY <1>39 DEF BootDone
  <1>40. CASE UNCHANGED vars
    BY <1>40 DEF vars
  <1>41. QED
    BY <1>1, <1>2, <1>3, <1>4, <1>5, <1>6, <1>7, <1>8, <1>9, <1>10, <1>11, <1>12, <1>13,
       <1>14, <1>15, <1>16, <1>17, <1>18, <1>19, <1>20, <1>21, <1>22, <1>23, <1>24, <1>25,
       <1>26, <1>27, <1>28, <1>29, <1>30, <1>31, <1>32, <1>33, <1>34, <1>35, <1>36, <1>37,
       <1>38, <1>39, <1>40
       DEF Next, System, Process, Monitor, ClientCancel, Handle, Fire, Boot, Ordinary, Timer

\* No step leaves the types.
LEMMA TypeStep ==
    ASSUME TypeOK, AttemptsCounted, Flags', [Next]_vars
    PROVE  TypeOK'
  <1> USE DEF TypeOK, Flags, Timer, Ordinary, TimerTerminals, RunTerminals, Slot, Free,
              history, durable, boot, hosting, tasks, frame, answers, process, caller,
              bounds
  <1>1. CASE ArmDeadline
    BY <1>1 DEF ArmDeadline, schedule, Resident, Running
  <1>2. CASE Tick
    BY <1>2 DEF Tick
  <1>3. CASE start_timer
    BY <1>3 DEF start_timer, At, Running, RecordStarted, Record
  <1>4. CASE arm_scope
    BY <1>4 DEF arm_scope, At, Running, RecordStarted, Record, timer_terminal_recorded
  <1>5. ASSUME NEW t \in Ordinary, ScheduleRow(t) PROVE TypeOK'
    BY <1>5 DEF ScheduleRow, schedule, Resident, Running
  <1>6. CASE sleep
    <2> DEFINE answer == timer_terminal_recorded("sleep")
    <2>1. answer \in {"fired", "cancelled", "pending"}
      BY DEF timer_terminal_recorded
    <2> HIDE DEF answer
    <2>2. CASE last["sleep"] = "None"
      <3>1. last' \in [Timer -> TimerTerminals \cup {"None", "Started"}] /\ UNCHANGED outcome
        BY <1>6, <2>2 DEF sleep, RecordStarted, Record
      <3>2. pc' = "row_sleep" /\ UNCHANGED sleeps
        BY <1>6, <2>2 DEF sleep
      <3>3. QED
        BY <1>6, <3>1, <3>2 DEF sleep
    <2>3. CASE last["sleep"] # "None"
      <3>1. sleeps' \subseteq {"fired", "cancelled", "error"}
        BY <1>6, <2>1, <2>3 DEF sleep, answer
      <3>2. pc' \in {"cancel_timer", "settle", "cancel_sleep", "parked"}
        BY <1>6, <2>3 DEF sleep, AfterSleep
      <3>3. UNCHANGED history
        BY <1>6, <2>3 DEF sleep
      <3>4. QED
        BY <1>6, <3>1, <3>2, <3>3 DEF sleep
    <2>4. QED
      BY <2>2, <2>3
  <1>7. CASE park_sleep_settled
    BY <1>7 DEF park_sleep_settled, At, Running, timer_terminal_recorded, AfterSleep
  <1>8. CASE resume_with_timeout
    BY <1>8 DEF resume_with_timeout, At, Running, ScopeAnswer
  <1>9. CASE settle_live_scope
    BY <1>9 DEF settle_live_scope, At, Running, ScopeAnswer, timer_terminal_recorded
  <1>10. CASE cancel_timer
    BY <1>10 DEF cancel_timer, At, Running
  <1>11. CASE Exit
    BY <1>11 DEF Exit, At, Running, ProcessDies
  <1>12. ASSUME NEW by \in {"process", "client"}, NEW t \in Timer, CancelCheck(by, t)
         PROVE  TypeOK'
    <2>1. CASE t \in live_timers
      <3>1. [by |-> by, step |-> "record"] \in Slot
        OBVIOUS
      <3>2. slot' \in [Timer -> Slot]
        BY <1>12, <2>1, <3>1 DEF CancelCheck
      <3>3. wheel' \subseteq Timer
        BY <1>12, <2>1 DEF CancelCheck
      <3>4. UNCHANGED <<pc, cancelling>>
        BY <1>12, <2>1 DEF CancelCheck
      <3>5. QED
        BY <1>12, <3>2, <3>3, <3>4 DEF CancelCheck
    <2>2. CASE t \notin live_timers
      <3>1. pc' \in {pc, "read_sleep", "read_scope"} /\ cancelling' \subseteq Timer
        BY <1>12, <2>2 DEF CancelCheck, CancelReturns
      <3>2. UNCHANGED <<slot, wheel>>
        BY <1>12, <2>2 DEF CancelCheck
      <3>3. QED
        BY <1>12, <3>1, <3>2 DEF CancelCheck
    <2>3. QED
      BY <2>1, <2>2
  <1>13. ASSUME NEW by \in {"process", "client"}, NEW t \in Timer, CancelRecord(by, t)
         PROVE  TypeOK'
    <2>1. CancelCause(by, t) \in TimerTerminals
      BY DEF CancelCause
    <2>2. last' \in [Timer -> TimerTerminals \cup {"None", "Started"}] /\ UNCHANGED outcome
      BY <1>13, <2>1 DEF CancelRecord, record_workflow_event, Record
    <2>3. slot' \in [Timer -> Slot]
      BY <1>13 DEF CancelRecord
    <2>4. pc' \in {pc, "read_sleep", "read_scope"} /\ cancelling' \subseteq Timer
      BY <1>13 DEF CancelRecord, CancelReturns
    <2>5. QED
      BY <1>13, <2>2, <2>3, <2>4 DEF CancelRecord
  <1>14. ASSUME NEW t \in Timer, CancelRecordFails(t) PROVE TypeOK'
    <2>1. failures' \in 0 .. MaxFailures
      BY <1>14 DEF CancelRecordFails
    <2>2. slot' \in [Timer -> Slot]
      BY <1>14 DEF CancelRecordFails
    <2>3. UNCHANGED pc /\ cancelling' \subseteq Timer
      BY <1>14 DEF CancelRecordFails, CancelReturns
    <2>4. QED
      BY <1>14, <2>1, <2>2, <2>3 DEF CancelRecordFails
  <1>15. ASSUME NEW by \in {"wheel", "recovery"}, NEW t \in Timer, FireCheck(by, t)
         PROVE  TypeOK'
    <2> DEFINE r == [by |-> by, step |-> IF t = "deadline" THEN "decide" ELSE "record"]
    <2>1. r \in Slot
      OBVIOUS
    <2>2. t \in live_timers => slot' = [slot EXCEPT ![t] = r] /\ UNCHANGED <<wheel, todo>>
      BY <1>15 DEF FireCheck
    <2> HIDE DEF r
    <2>3. slot' \in [Timer -> Slot] /\ wheel' \subseteq Timer /\ todo' \subseteq Timer
      <3>1. CASE t \in live_timers
        <4>1. slot \in [Timer -> Slot] /\ wheel \subseteq Timer /\ todo \subseteq Timer
          OBVIOUS
        <4> HIDE DEF TypeOK, Slot, Free, Timer
        <4>2. slot' = [slot EXCEPT ![t] = r] /\ UNCHANGED <<wheel, todo>>
          BY <2>2, <3>1
        <4>3. QED
          BY <2>1, <4>1, <4>2
      <3>2. CASE t \notin live_timers
        BY <1>15, <3>2 DEF FireCheck, FireEnds
      <3>3. QED
        BY <3>1, <3>2
    <2>4. QED
      BY <1>15, <2>3 DEF FireCheck
  <1>16. ASSUME NEW by \in {"wheel", "recovery"}, NEW t \in Timer, FireRecord(by, t)
         PROVE  TypeOK'
    BY <1>16 DEF FireRecord, Holds, record_workflow_event, Record, Step, FireEnds, Running
  <1>17. ASSUME NEW by \in {"wheel", "recovery"}, NEW t \in Timer, FireDeliver(by, t)
         PROVE  TypeOK'
    BY <1>17 DEF FireDeliver, Holds, FireEnds, Resident, Alive, Running
  <1>18. ASSUME NEW by \in {"wheel", "recovery"}, decide_disposition(by) PROVE TypeOK'
    BY <1>18
       DEF decide_disposition, Holds, live_timers, RecordOutcome, Record, Step, FireEnds,
           Running
  <1>19. ASSUME NEW by \in {"wheel", "recovery"}, RetireOrdinary(by) PROVE TypeOK'
    BY <1>19 DEF RetireOrdinary, Holds, live_timers, Record, Step, Running
  <1>20. ASSUME NEW by \in {"wheel", "recovery"}, KillTimedOut(by) PROVE TypeOK'
    BY <1>20 DEF KillTimedOut, Holds, Alive, ProcessDies, Step, Running
  <1>21. ASSUME NEW by \in {"wheel", "recovery"}, ShowTimedOut(by) PROVE TypeOK'
    BY <1>21 DEF ShowTimedOut, Holds, Step, Running
  <1>22. ASSUME NEW by \in {"wheel", "recovery"}, RetireDeadline(by) PROVE TypeOK'
    BY <1>22 DEF RetireDeadline, Holds, live_timers, Record, Step, Running
  <1>23. ASSUME NEW by \in {"wheel", "recovery"}, Deregister(by) PROVE TypeOK'
    BY <1>23 DEF Deregister, Holds, FireEnds, Running
  <1>24. CASE WheelFireFails
    <2>1. attempts' \in 0 .. MaxAttempts /\ failures' \in 0 .. MaxFailures
      BY <1>24 DEF WheelFireFails, Holds, AttemptsCounted
    <2>2. slot' \in [Timer -> Slot] /\ wheel' \subseteq Timer
      BY <1>24 DEF WheelFireFails
    <2>3. QED
      BY <1>24, <2>1, <2>2 DEF WheelFireFails
  <1>25. CASE handle_process_exit
    BY <1>25 DEF handle_process_exit, At, Running, RecordOutcome, Record, live_timers
  <1>26. CASE MonitorRetires
    BY <1>26 DEF MonitorRetires, At, Running, retire_run_deadline, Record, live_timers
  <1>27. CASE CancelRequest
    BY <1>27 DEF CancelRequest, live_timers
  <1>28. CASE ClientTerminates
    BY <1>28 DEF ClientTerminates, RecordOutcome, Running
  <1>29. CASE ClientRetires
    BY <1>29 DEF ClientRetires, retire_run_deadline, Record, live_timers, Running
  <1>30. CASE RetireFails
    BY <1>30 DEF RetireFails, live_timers, Running
  <1>31. CASE ClientKills
    BY <1>31 DEF ClientKills, Alive, ProcessDies, Running
  <1>32. CASE ClientRemoves
    BY <1>32 DEF ClientRemoves, Running
  <1>33. CASE Crash
    BY <1>33 DEF Crash, EngineDies, AllFree
  <1>34. CASE RecoveryFails
    BY <1>34 DEF RecoveryFails, Holds, EngineDies, AllFree, Running
  <1>35. CASE BootSweep
    BY <1>35 DEF BootSweep, live_timers, Record
  <1>36. CASE Repopulate
    <2>1. pc' \in {"none", "start", "arm"}
      BY <1>36 DEF Repopulate, Entry
    <2>2. todo' \subseteq Timer
      BY <1>36 DEF Repopulate, expired_timers
    <2>3. QED
      BY <1>36, <2>1, <2>2 DEF Repopulate
  <1>37. CASE RearmRead
    BY <1>37 DEF RearmRead, outstanding_future_timers, live_timers
  <1>38. ASSUME NEW t \in Timer, Rearm(t) PROVE TypeOK'
    BY <1>38 DEF Rearm, schedule, Resident
  <1>39. CASE BootDone
    BY <1>39 DEF BootDone
  <1>40. CASE UNCHANGED vars
    BY <1>40 DEF vars
  <1>41. QED
    BY <1>1, <1>2, <1>3, <1>4, <1>5, <1>6, <1>7, <1>8, <1>9, <1>10, <1>11, <1>12, <1>13,
       <1>14, <1>15, <1>16, <1>17, <1>18, <1>19, <1>20, <1>21, <1>22, <1>23, <1>24, <1>25,
       <1>26, <1>27, <1>28, <1>29, <1>30, <1>31, <1>32, <1>33, <1>34, <1>35, <1>36, <1>37,
       <1>38, <1>39, <1>40
       DEF Next, System, Process, Monitor, ClientCancel, Handle, Fire, Boot, Ordinary, Timer

\* No step uses up more attempts than there are.
LEMMA AttemptsStep ==
    ASSUME TypeOK, AttemptsCounted, BootIsTrue, [Next]_vars
    PROVE  AttemptsCounted'
  <1> USE DEF AttemptsCounted, BootIsTrue, TypeOK, Timer, Ordinary, Free, history, durable,
              boot, hosting, tasks, frame, answers, process, caller, bounds
  <1>1. CASE ArmDeadline
    BY <1>1 DEF ArmDeadline, schedule, Resident, Running
  <1>2. CASE Tick
    BY <1>2 DEF Tick
  <1>3. CASE start_timer
    BY <1>3 DEF start_timer, At, Running, RecordStarted, Record
  <1>4. CASE arm_scope
    BY <1>4 DEF arm_scope, At, Running, RecordStarted, Record, timer_terminal_recorded
  <1>5. ASSUME NEW t \in Ordinary, ScheduleRow(t) PROVE AttemptsCounted'
    BY <1>5 DEF ScheduleRow, schedule, Resident, Running
  <1>6. CASE sleep
    BY <1>6
       DEF sleep, Running, RecordStarted, Record, timer_terminal_recorded,
           expired_scope_deadline, AfterSleep
  <1>7. CASE park_sleep_settled
    BY <1>7 DEF park_sleep_settled, At, Running, timer_terminal_recorded, AfterSleep
  <1>8. CASE resume_with_timeout
    BY <1>8 DEF resume_with_timeout, At, Running, ScopeAnswer
  <1>9. CASE settle_live_scope
    BY <1>9 DEF settle_live_scope, At, Running, ScopeAnswer, timer_terminal_recorded
  <1>10. CASE cancel_timer
    BY <1>10 DEF cancel_timer, At, Running
  <1>11. CASE Exit
    BY <1>11 DEF Exit, At, Running, ProcessDies
  <1>12. ASSUME NEW by \in {"process", "client"}, NEW t \in Timer, CancelCheck(by, t)
         PROVE  AttemptsCounted'
    BY <1>12
       DEF CancelCheck, Cancels, ClientsNext, CancelReturns, live_timers, Resident, Running
  <1>13. ASSUME NEW by \in {"process", "client"}, NEW t \in Timer, CancelRecord(by, t)
         PROVE  AttemptsCounted'
    BY <1>13
       DEF CancelRecord, Cancels, ClientsNext, CancelReturns, CancelCause,
           record_workflow_event, Record, Running
  <1>14. ASSUME NEW t \in Timer, CancelRecordFails(t) PROVE AttemptsCounted'
    BY <1>14 DEF CancelRecordFails, Cancels, ClientsNext, CancelReturns, Running
  <1>15. ASSUME NEW by \in {"wheel", "recovery"}, NEW t \in Timer, FireCheck(by, t)
         PROVE  AttemptsCounted'
    BY <1>15 DEF FireCheck, Fires, FireEnds, live_timers, Running
  <1>16. ASSUME NEW by \in {"wheel", "recovery"}, NEW t \in Timer, FireRecord(by, t)
         PROVE  AttemptsCounted'
    BY <1>16 DEF FireRecord, Holds, record_workflow_event, Record, Step, FireEnds, Running
  <1>17. ASSUME NEW by \in {"wheel", "recovery"}, NEW t \in Timer, FireDeliver(by, t)
         PROVE  AttemptsCounted'
    BY <1>17 DEF FireDeliver, Holds, FireEnds, Resident, Alive, Running
  <1>18. ASSUME NEW by \in {"wheel", "recovery"}, decide_disposition(by)
         PROVE  AttemptsCounted'
    BY <1>18
       DEF decide_disposition, Holds, live_timers, RecordOutcome, Record, Step, FireEnds,
           Running
  <1>19. ASSUME NEW by \in {"wheel", "recovery"}, RetireOrdinary(by) PROVE AttemptsCounted'
    BY <1>19 DEF RetireOrdinary, Holds, live_timers, Record, Step, Running
  <1>20. ASSUME NEW by \in {"wheel", "recovery"}, KillTimedOut(by) PROVE AttemptsCounted'
    BY <1>20 DEF KillTimedOut, Holds, Alive, ProcessDies, Step, Running
  <1>21. ASSUME NEW by \in {"wheel", "recovery"}, ShowTimedOut(by) PROVE AttemptsCounted'
    BY <1>21 DEF ShowTimedOut, Holds, Step, Running
  <1>22. ASSUME NEW by \in {"wheel", "recovery"}, RetireDeadline(by) PROVE AttemptsCounted'
    BY <1>22 DEF RetireDeadline, Holds, live_timers, Record, Step, Running
  <1>23. ASSUME NEW by \in {"wheel", "recovery"}, Deregister(by) PROVE AttemptsCounted'
    BY <1>23 DEF Deregister, Holds, FireEnds, Running
  <1>24. CASE WheelFireFails
    <2>1. /\ attempts < MaxAttempts /\ attempts' = attempts + 1
          /\ wheel' = IF attempts' = MaxAttempts THEN wheel \ {"deadline"} ELSE wheel
          /\ slot'["deadline"].by # "wheel"
          /\ UNCHANGED <<phase, todo, starting>>
      BY <1>24 DEF WheelFireFails, Holds
    <2>2. phase \notin {"down", "boot", "recover"} /\ ~starting
      BY <1>24 DEF WheelFireFails, Holds
    <2>3. phase = "rearm" => "deadline" \notin todo
      BY <1>24 DEF WheelFireFails, Holds
    <2>4. "deadline" \in wheel' => attempts' < MaxAttempts
      BY <2>1
    <2>5. QED
      BY <2>1, <2>2, <2>3, <2>4
  <1>25. CASE handle_process_exit
    BY <1>25 DEF handle_process_exit, At, Running, RecordOutcome, Record, live_timers
  <1>26. CASE MonitorRetires
    BY <1>26 DEF MonitorRetires, At, Running, retire_run_deadline, Record, live_timers
  <1>27. CASE CancelRequest
    BY <1>27 DEF CancelRequest, live_timers
  <1>28. CASE ClientTerminates
    BY <1>28 DEF ClientTerminates, RecordOutcome, Running
  <1>29. CASE ClientRetires
    BY <1>29 DEF ClientRetires, retire_run_deadline, Record, live_timers, Running
  <1>30. CASE RetireFails
    BY <1>30 DEF RetireFails, live_timers, Running
  <1>31. CASE ClientKills
    BY <1>31 DEF ClientKills, Alive, ProcessDies, Running
  <1>32. CASE ClientRemoves
    BY <1>32 DEF ClientRemoves, Running
  <1>33. CASE Crash
    BY <1>33 DEF Crash, EngineDies, AllFree
  <1>34. CASE RecoveryFails
    BY <1>34 DEF RecoveryFails, Holds, EngineDies, AllFree, Running
  <1>35. CASE BootSweep
    BY <1>35 DEF BootSweep, live_timers, Record
  <1>36. CASE Repopulate
    BY <1>36 DEF Repopulate, Entry, expired_timers
  <1>37. CASE RearmRead
    BY <1>37 DEF RearmRead, outstanding_future_timers, live_timers
  <1>38. ASSUME NEW t \in Timer, Rearm(t) PROVE AttemptsCounted'
    BY <1>38 DEF Rearm, schedule, Resident
  <1>39. CASE BootDone
    BY <1>39 DEF BootDone
  <1>40. CASE UNCHANGED vars
    BY <1>40 DEF vars
  <1>41. QED
    BY <1>1, <1>2, <1>3, <1>4, <1>5, <1>6, <1>7, <1>8, <1>9, <1>10, <1>11, <1>12, <1>13,
       <1>14, <1>15, <1>16, <1>17, <1>18, <1>19, <1>20, <1>21, <1>22, <1>23, <1>24, <1>25,
       <1>26, <1>27, <1>28, <1>29, <1>30, <1>31, <1>32, <1>33, <1>34, <1>35, <1>36, <1>37,
       <1>38, <1>39, <1>40
       DEF Next, System, Process, Monitor, ClientCancel, Handle, Fire, Boot, Ordinary, Timer

\* No step makes a held slot untrue.
LEMMA SlotsStep ==
    ASSUME TypeOK, SlotsAreTrue, LocksAreTrue, BootIsTrue, [Next]_vars
    PROVE  SlotsAreTrue'
  <1> USE DEF SlotsAreTrue, LocksAreTrue, TypeOK, Timer, Ordinary, Free, history, durable,
              boot, hosting, tasks, frame, answers, process, caller, bounds
  <1>1. CASE ArmDeadline
    BY <1>1 DEF ArmDeadline, schedule, Resident, Running
  <1>2. CASE Tick
    BY <1>2 DEF Tick
  <1>3. CASE start_timer
    BY <1>3 DEF start_timer, At, Running, RecordStarted, Record
  <1>4. CASE arm_scope
    BY <1>4 DEF arm_scope, At, Running, RecordStarted, Record, timer_terminal_recorded
  <1>5. ASSUME NEW t \in Ordinary, ScheduleRow(t) PROVE SlotsAreTrue'
    BY <1>5 DEF ScheduleRow, schedule, Resident, Running
  <1>6. CASE sleep
    BY <1>6
       DEF sleep, Running, RecordStarted, Record, timer_terminal_recorded,
           expired_scope_deadline, AfterSleep
  <1>7. CASE park_sleep_settled
    BY <1>7 DEF park_sleep_settled, At, Running, timer_terminal_recorded, AfterSleep
  <1>8. CASE resume_with_timeout
    BY <1>8 DEF resume_with_timeout, At, Running, ScopeAnswer
  <1>9. CASE settle_live_scope
    BY <1>9 DEF settle_live_scope, At, Running, ScopeAnswer, timer_terminal_recorded
  <1>10. CASE cancel_timer
    BY <1>10 DEF cancel_timer, At, Running
  <1>11. CASE Exit
    BY <1>11 DEF Exit, At, Running, ProcessDies
  <1>12. ASSUME NEW by \in {"process", "client"}, NEW t \in Timer, CancelCheck(by, t)
         PROVE  SlotsAreTrue'
    BY <1>12
       DEF CancelCheck, Cancels, ClientsNext, CancelReturns, live_timers, Resident, Running
  <1>13. ASSUME NEW by \in {"process", "client"}, NEW t \in Timer, CancelRecord(by, t)
         PROVE  SlotsAreTrue'
    BY <1>13
       DEF CancelRecord, Cancels, ClientsNext, CancelReturns, CancelCause,
           record_workflow_event, Record, Running
  <1>14. ASSUME NEW t \in Timer, CancelRecordFails(t) PROVE SlotsAreTrue'
    BY <1>14 DEF CancelRecordFails, Cancels, ClientsNext, CancelReturns, Running
  <1>15. ASSUME NEW by \in {"wheel", "recovery"}, NEW t \in Timer, FireCheck(by, t)
         PROVE  SlotsAreTrue'
    BY <1>15 DEF FireCheck, Fires, FireEnds, live_timers, Running
  <1>16. ASSUME NEW by \in {"wheel", "recovery"}, NEW t \in Timer, FireRecord(by, t)
         PROVE  SlotsAreTrue'
    BY <1>16 DEF FireRecord, Holds, record_workflow_event, Record, Step, FireEnds, Running
  <1>17. ASSUME NEW by \in {"wheel", "recovery"}, NEW t \in Timer, FireDeliver(by, t)
         PROVE  SlotsAreTrue'
    BY <1>17 DEF FireDeliver, Holds, FireEnds, Resident, Alive, Running
  <1>18. ASSUME NEW by \in {"wheel", "recovery"}, decide_disposition(by) PROVE SlotsAreTrue'
    BY <1>18
       DEF decide_disposition, Holds, live_timers, RecordOutcome, Record, Step, FireEnds,
           Running
  <1>19. ASSUME NEW by \in {"wheel", "recovery"}, RetireOrdinary(by) PROVE SlotsAreTrue'
    BY <1>19 DEF RetireOrdinary, Holds, live_timers, Record, Step, Running
  <1>20. ASSUME NEW by \in {"wheel", "recovery"}, KillTimedOut(by) PROVE SlotsAreTrue'
    BY <1>20 DEF KillTimedOut, Holds, Alive, ProcessDies, Step, Running
  <1>21. ASSUME NEW by \in {"wheel", "recovery"}, ShowTimedOut(by) PROVE SlotsAreTrue'
    BY <1>21 DEF ShowTimedOut, Holds, Step, Running
  <1>22. ASSUME NEW by \in {"wheel", "recovery"}, RetireDeadline(by) PROVE SlotsAreTrue'
    BY <1>22 DEF RetireDeadline, Holds, live_timers, Record, Step, Running
  <1>23. ASSUME NEW by \in {"wheel", "recovery"}, Deregister(by) PROVE SlotsAreTrue'
    BY <1>23 DEF Deregister, Holds, FireEnds, Running
  <1>24. CASE WheelFireFails
    BY <1>24 DEF WheelFireFails, Holds, Running
  <1>25. CASE handle_process_exit
    BY <1>25 DEF handle_process_exit, At, Running, RecordOutcome, Record, live_timers
  <1>26. CASE MonitorRetires
    BY <1>26 DEF MonitorRetires, At, Running, retire_run_deadline, Record, live_timers
  <1>27. CASE CancelRequest
    BY <1>27 DEF CancelRequest, live_timers
  <1>28. CASE ClientTerminates
    BY <1>28 DEF ClientTerminates, RecordOutcome, Running
  <1>29. CASE ClientRetires
    BY <1>29 DEF ClientRetires, retire_run_deadline, Record, live_timers, Running
  <1>30. CASE RetireFails
    BY <1>30 DEF RetireFails, live_timers, Running
  <1>31. CASE ClientKills
    BY <1>31 DEF ClientKills, Alive, ProcessDies, Running
  <1>32. CASE ClientRemoves
    BY <1>32 DEF ClientRemoves, Running
  <1>33. CASE Crash
    BY <1>33 DEF Crash, EngineDies, AllFree
  <1>34. CASE RecoveryFails
    BY <1>34 DEF RecoveryFails, Holds, EngineDies, AllFree, Running
  <1>35. CASE BootSweep
    BY <1>35 DEF BootSweep, live_timers, Record
  <1>36. CASE Repopulate
    BY <1>36 DEF Repopulate, Entry, expired_timers
  <1>37. CASE RearmRead
    BY <1>37 DEF RearmRead, outstanding_future_timers, live_timers
  <1>38. ASSUME NEW t \in Timer, Rearm(t) PROVE SlotsAreTrue'
    BY <1>38 DEF Rearm, schedule, Resident
  <1>39. CASE BootDone
    BY <1>39 DEF BootDone
  <1>40. CASE UNCHANGED vars
    BY <1>40 DEF vars
  <1>41. QED
    BY <1>1, <1>2, <1>3, <1>4, <1>5, <1>6, <1>7, <1>8, <1>9, <1>10, <1>11, <1>12, <1>13,
       <1>14, <1>15, <1>16, <1>17, <1>18, <1>19, <1>20, <1>21, <1>22, <1>23, <1>24, <1>25,
       <1>26, <1>27, <1>28, <1>29, <1>30, <1>31, <1>32, <1>33, <1>34, <1>35, <1>36, <1>37,
       <1>38, <1>39, <1>40
       DEF Next, System, Process, Monitor, ClientCancel, Handle, Fire, Boot, Ordinary, Timer

\* The lock is held between the two appends of a transition.
LEMMA LocksStep ==
    ASSUME TypeOK, SlotsAreTrue, LocksAreTrue, BootIsTrue, [Next]_vars
    PROVE  LocksAreTrue'
  <1> USE DEF LocksAreTrue, BootIsTrue, TypeOK, Timer, Ordinary, Free, history, durable,
              boot, hosting, tasks, frame, answers, process, caller, bounds
  <1>1. CASE ArmDeadline
    BY <1>1 DEF ArmDeadline, schedule, Resident, Running
  <1>2. CASE Tick
    BY <1>2 DEF Tick
  <1>3. CASE start_timer
    BY <1>3 DEF start_timer, At, Running, RecordStarted, Record
  <1>4. CASE arm_scope
    BY <1>4 DEF arm_scope, At, Running, RecordStarted, Record, timer_terminal_recorded
  <1>5. ASSUME NEW t \in Ordinary, ScheduleRow(t) PROVE LocksAreTrue'
    BY <1>5 DEF ScheduleRow, schedule, Resident, Running
  <1>6. CASE sleep
    BY <1>6
       DEF sleep, Running, RecordStarted, Record, timer_terminal_recorded,
           expired_scope_deadline, AfterSleep
  <1>7. CASE park_sleep_settled
    BY <1>7 DEF park_sleep_settled, At, Running, timer_terminal_recorded, AfterSleep
  <1>8. CASE resume_with_timeout
    BY <1>8 DEF resume_with_timeout, At, Running, ScopeAnswer
  <1>9. CASE settle_live_scope
    BY <1>9 DEF settle_live_scope, At, Running, ScopeAnswer, timer_terminal_recorded
  <1>10. CASE cancel_timer
    BY <1>10 DEF cancel_timer, At, Running
  <1>11. CASE Exit
    BY <1>11 DEF Exit, At, Running, ProcessDies
  <1>12. ASSUME NEW by \in {"process", "client"}, NEW t \in Timer, CancelCheck(by, t)
         PROVE  LocksAreTrue'
    BY <1>12
       DEF CancelCheck, Cancels, ClientsNext, CancelReturns, live_timers, Resident, Running
  <1>13. ASSUME NEW by \in {"process", "client"}, NEW t \in Timer, CancelRecord(by, t)
         PROVE  LocksAreTrue'
    BY <1>13
       DEF CancelRecord, Cancels, ClientsNext, CancelReturns, CancelCause,
           record_workflow_event, Record, Running
  <1>14. ASSUME NEW t \in Timer, CancelRecordFails(t) PROVE LocksAreTrue'
    BY <1>14 DEF CancelRecordFails, Cancels, ClientsNext, CancelReturns, Running
  <1>15. ASSUME NEW by \in {"wheel", "recovery"}, NEW t \in Timer, FireCheck(by, t)
         PROVE  LocksAreTrue'
    BY <1>15 DEF FireCheck, Fires, FireEnds, live_timers, Running
  <1>16. ASSUME NEW by \in {"wheel", "recovery"}, NEW t \in Timer, FireRecord(by, t)
         PROVE  LocksAreTrue'
    BY <1>16 DEF FireRecord, Holds, record_workflow_event, Record, Step, FireEnds, Running
  <1>17. ASSUME NEW by \in {"wheel", "recovery"}, NEW t \in Timer, FireDeliver(by, t)
         PROVE  LocksAreTrue'
    BY <1>17 DEF FireDeliver, Holds, FireEnds, Resident, Alive, Running
  <1>18. ASSUME NEW by \in {"wheel", "recovery"}, decide_disposition(by) PROVE LocksAreTrue'
    BY <1>18
       DEF decide_disposition, Holds, live_timers, RecordOutcome, Record, Step, FireEnds,
           Running
  <1>19. ASSUME NEW by \in {"wheel", "recovery"}, RetireOrdinary(by) PROVE LocksAreTrue'
    BY <1>19 DEF RetireOrdinary, Holds, live_timers, Record, Step, Running
  <1>20. ASSUME NEW by \in {"wheel", "recovery"}, KillTimedOut(by) PROVE LocksAreTrue'
    BY <1>20 DEF KillTimedOut, Holds, Alive, ProcessDies, Step, Running
  <1>21. ASSUME NEW by \in {"wheel", "recovery"}, ShowTimedOut(by) PROVE LocksAreTrue'
    BY <1>21 DEF ShowTimedOut, Holds, Step, Running
  <1>22. ASSUME NEW by \in {"wheel", "recovery"}, RetireDeadline(by) PROVE LocksAreTrue'
    BY <1>22 DEF RetireDeadline, Holds, live_timers, Record, Step, Running
  <1>23. ASSUME NEW by \in {"wheel", "recovery"}, Deregister(by) PROVE LocksAreTrue'
    BY <1>23 DEF Deregister, Holds, FireEnds, Running
  <1>24. CASE WheelFireFails
    BY <1>24 DEF WheelFireFails, Holds, Running
  <1>25. CASE handle_process_exit
    BY <1>25 DEF handle_process_exit, At, Running, RecordOutcome, Record, live_timers
  <1>26. CASE MonitorRetires
    BY <1>26 DEF MonitorRetires, At, Running, retire_run_deadline, Record, live_timers
  <1>27. CASE CancelRequest
    BY <1>27 DEF CancelRequest, live_timers
  <1>28. CASE ClientTerminates
    BY <1>28 DEF ClientTerminates, RecordOutcome, Running
  <1>29. CASE ClientRetires
    BY <1>29 DEF ClientRetires, retire_run_deadline, Record, live_timers, Running
  <1>30. CASE RetireFails
    BY <1>30 DEF RetireFails, live_timers, Running
  <1>31. CASE ClientKills
    BY <1>31 DEF ClientKills, Alive, ProcessDies, Running
  <1>32. CASE ClientRemoves
    BY <1>32 DEF ClientRemoves, Running
  <1>33. CASE Crash
    BY <1>33 DEF Crash, EngineDies, AllFree
  <1>34. CASE RecoveryFails
    BY <1>34 DEF RecoveryFails, Holds, EngineDies, AllFree, Running
  <1>35. CASE BootSweep
    BY <1>35 DEF BootSweep, live_timers, Record
  <1>36. CASE Repopulate
    <2>1. pc' \in {"none", "start", "arm"}
      BY <1>36 DEF Repopulate, Entry
    <2>2. QED
      BY <1>36, <2>1 DEF Repopulate
  <1>37. CASE RearmRead
    BY <1>37 DEF RearmRead, outstanding_future_timers, live_timers
  <1>38. ASSUME NEW t \in Timer, Rearm(t) PROVE LocksAreTrue'
    BY <1>38 DEF Rearm, schedule, Resident
  <1>39. CASE BootDone
    BY <1>39 DEF BootDone
  <1>40. CASE UNCHANGED vars
    BY <1>40 DEF vars
  <1>41. QED
    BY <1>1, <1>2, <1>3, <1>4, <1>5, <1>6, <1>7, <1>8, <1>9, <1>10, <1>11, <1>12, <1>13,
       <1>14, <1>15, <1>16, <1>17, <1>18, <1>19, <1>20, <1>21, <1>22, <1>23, <1>24, <1>25,
       <1>26, <1>27, <1>28, <1>29, <1>30, <1>31, <1>32, <1>33, <1>34, <1>35, <1>36, <1>37,
       <1>38, <1>39, <1>40
       DEF Next, System, Process, Monitor, ClientCancel, Handle, Fire, Boot, Ordinary, Timer

\* The process stays true to the history.
LEMMA ProcessStep ==
    ASSUME TypeOK, SlotsAreTrue, LocksAreTrue, ProcessIsTrue, BootIsTrue, [Next]_vars
    PROVE  ProcessIsTrue'
  <1> USE DEF SlotsAreTrue, LocksAreTrue, ProcessIsTrue, BootIsTrue, TimerTerminals, Alive,
              TypeOK, Timer, Ordinary, Free, history, durable, boot, hosting, tasks, frame,
              answers, process, caller, bounds
  <1>1. CASE ArmDeadline
    BY <1>1 DEF ArmDeadline, schedule, Resident, Running
  <1>2. CASE Tick
    BY <1>2 DEF Tick
  <1>3. CASE start_timer
    BY <1>3 DEF start_timer, At, Running, RecordStarted, Record
  <1>4. CASE arm_scope
    BY <1>4 DEF arm_scope, At, Running, RecordStarted, Record, timer_terminal_recorded
  <1>5. ASSUME NEW t \in Ordinary, ScheduleRow(t) PROVE ProcessIsTrue'
    BY <1>5 DEF ScheduleRow, schedule, Resident, Running
  <1>6. CASE sleep
    BY <1>6
       DEF sleep, Running, RecordStarted, Record, timer_terminal_recorded,
           expired_scope_deadline, AfterSleep
  <1>7. CASE park_sleep_settled
    BY <1>7 DEF park_sleep_settled, At, Running, timer_terminal_recorded, AfterSleep
  <1>8. CASE resume_with_timeout
    BY <1>8 DEF resume_with_timeout, At, Running, ScopeAnswer
  <1>9. CASE settle_live_scope
    BY <1>9 DEF settle_live_scope, At, Running, ScopeAnswer, timer_terminal_recorded
  <1>10. CASE cancel_timer
    BY <1>10 DEF cancel_timer, At, Running
  <1>11. CASE Exit
    BY <1>11 DEF Exit, At, Running, ProcessDies
  <1>12. ASSUME NEW by \in {"process", "client"}, NEW t \in Timer, CancelCheck(by, t)
         PROVE  ProcessIsTrue'
    BY <1>12
       DEF CancelCheck, Cancels, ClientsNext, CancelReturns, live_timers, Resident, Running
  <1>13. ASSUME NEW by \in {"process", "client"}, NEW t \in Timer, CancelRecord(by, t)
         PROVE  ProcessIsTrue'
    BY <1>13
       DEF CancelRecord, Cancels, ClientsNext, CancelReturns, CancelCause,
           record_workflow_event, Record, Running
  <1>14. ASSUME NEW t \in Timer, CancelRecordFails(t) PROVE ProcessIsTrue'
    BY <1>14 DEF CancelRecordFails, Cancels, ClientsNext, CancelReturns, Running
  <1>15. ASSUME NEW by \in {"wheel", "recovery"}, NEW t \in Timer, FireCheck(by, t)
         PROVE  ProcessIsTrue'
    BY <1>15 DEF FireCheck, Fires, FireEnds, live_timers, Running
  <1>16. ASSUME NEW by \in {"wheel", "recovery"}, NEW t \in Timer, FireRecord(by, t)
         PROVE  ProcessIsTrue'
    BY <1>16 DEF FireRecord, Holds, record_workflow_event, Record, Step, FireEnds, Running
  <1>17. ASSUME NEW by \in {"wheel", "recovery"}, NEW t \in Timer, FireDeliver(by, t)
         PROVE  ProcessIsTrue'
    BY <1>17 DEF FireDeliver, Holds, FireEnds, Resident, Running
  <1>18. ASSUME NEW by \in {"wheel", "recovery"}, decide_disposition(by)
         PROVE  ProcessIsTrue'
    BY <1>18
       DEF decide_disposition, Holds, live_timers, RecordOutcome, Record, Step, FireEnds,
           Running
  <1>19. ASSUME NEW by \in {"wheel", "recovery"}, RetireOrdinary(by) PROVE ProcessIsTrue'
    BY <1>19 DEF RetireOrdinary, Holds, live_timers, Record, Step, Running
  <1>20. ASSUME NEW by \in {"wheel", "recovery"}, KillTimedOut(by) PROVE ProcessIsTrue'
    BY <1>20 DEF KillTimedOut, Holds, ProcessDies, Step, Running
  <1>21. ASSUME NEW by \in {"wheel", "recovery"}, ShowTimedOut(by) PROVE ProcessIsTrue'
    BY <1>21 DEF ShowTimedOut, Holds, Step, Running
  <1>22. ASSUME NEW by \in {"wheel", "recovery"}, RetireDeadline(by) PROVE ProcessIsTrue'
    BY <1>22 DEF RetireDeadline, Holds, live_timers, Record, Step, Running
  <1>23. ASSUME NEW by \in {"wheel", "recovery"}, Deregister(by) PROVE ProcessIsTrue'
    BY <1>23 DEF Deregister, Holds, FireEnds, Running
  <1>24. CASE WheelFireFails
    BY <1>24 DEF WheelFireFails, Holds, Running
  <1>25. CASE handle_process_exit
    BY <1>25 DEF handle_process_exit, At, Running, RecordOutcome, Record, live_timers
  <1>26. CASE MonitorRetires
    BY <1>26 DEF MonitorRetires, At, Running, retire_run_deadline, Record, live_timers
  <1>27. CASE CancelRequest
    BY <1>27 DEF CancelRequest, live_timers
  <1>28. CASE ClientTerminates
    BY <1>28 DEF ClientTerminates, RecordOutcome, Running
  <1>29. CASE ClientRetires
    BY <1>29 DEF ClientRetires, retire_run_deadline, Record, live_timers, Running
  <1>30. CASE RetireFails
    BY <1>30 DEF RetireFails, live_timers, Running
  <1>31. CASE ClientKills
    BY <1>31 DEF ClientKills, ProcessDies, Running
  <1>32. CASE ClientRemoves
    BY <1>32 DEF ClientRemoves, Running
  <1>33. CASE Crash
    BY <1>33 DEF Crash, EngineDies, AllFree
  <1>34. CASE RecoveryFails
    BY <1>34 DEF RecoveryFails, Holds, EngineDies, AllFree, Running
  <1>35. CASE BootSweep
    BY <1>35 DEF BootSweep, live_timers, Record
  <1>36. CASE Repopulate
    <2>1. pc' = "none" \/ (outcome = "None" /\ registered' /\ pc' = Entry)
      BY <1>36 DEF Repopulate
    <2>2. UNCHANGED <<last, outcome, uses, scope, client>> /\ pc = "none"
      BY <1>36 DEF Repopulate
    <2>3. CASE pc' = "none"
      BY <1>36, <2>2, <2>3 DEF Repopulate
    <2>4. CASE pc' = "start" /\ uses = "named" /\ registered'
      BY <2>2, <2>4
    <2>5. CASE pc' = "arm" /\ uses = "scope" /\ registered'
      BY <2>2, <2>5
    <2>6. QED
      BY <2>1, <2>3, <2>4, <2>5 DEF Entry
  <1>37. CASE RearmRead
    BY <1>37 DEF RearmRead, outstanding_future_timers, live_timers
  <1>38. ASSUME NEW t \in Timer, Rearm(t) PROVE ProcessIsTrue'
    BY <1>38 DEF Rearm, schedule, Resident
  <1>39. CASE BootDone
    BY <1>39 DEF BootDone
  <1>40. CASE UNCHANGED vars
    BY <1>40 DEF vars
  <1>41. QED
    BY <1>1, <1>2, <1>3, <1>4, <1>5, <1>6, <1>7, <1>8, <1>9, <1>10, <1>11, <1>12, <1>13,
       <1>14, <1>15, <1>16, <1>17, <1>18, <1>19, <1>20, <1>21, <1>22, <1>23, <1>24, <1>25,
       <1>26, <1>27, <1>28, <1>29, <1>30, <1>31, <1>32, <1>33, <1>34, <1>35, <1>36, <1>37,
       <1>38, <1>39, <1>40
       DEF Next, System, Process, Monitor, ClientCancel, Handle, Fire, Boot, Ordinary, Timer

\* Only started timers get rows.
LEMMA StartedStep ==
    ASSUME TypeOK, ProcessIsTrue, BootIsTrue, RowsAreStarted, [Next]_vars
    PROVE  RowsAreStarted'
  <1> USE DEF ProcessIsTrue, BootIsTrue, RowsAreStarted, TypeOK, Timer, Ordinary, Free,
              history, durable, boot, hosting, tasks, frame, answers, process, caller,
              bounds
  <1>1. CASE ArmDeadline
    BY <1>1 DEF ArmDeadline, schedule, Resident, Running
  <1>2. CASE Tick
    BY <1>2 DEF Tick
  <1>3. CASE start_timer
    BY <1>3 DEF start_timer, At, Running, RecordStarted, Record
  <1>4. CASE arm_scope
    BY <1>4 DEF arm_scope, At, Running, RecordStarted, Record, timer_terminal_recorded
  <1>5. ASSUME NEW t \in Ordinary, ScheduleRow(t) PROVE RowsAreStarted'
    BY <1>5 DEF ScheduleRow, schedule, Resident, Running
  <1>6. CASE sleep
    <2>1. UNCHANGED <<rows, phase, todo>> /\ pc' # "row_named"
      BY <1>6 DEF sleep, AfterSleep
    <2>2. last' = last \/ last' = [last EXCEPT !["sleep"] = "Started"]
      BY <1>6 DEF sleep, RecordStarted, Record
    <2>3. QED
      BY <2>1, <2>2
  <1>7. CASE park_sleep_settled
    BY <1>7 DEF park_sleep_settled, At, Running, timer_terminal_recorded, AfterSleep
  <1>8. CASE resume_with_timeout
    BY <1>8 DEF resume_with_timeout, At, Running, ScopeAnswer
  <1>9. CASE settle_live_scope
    BY <1>9 DEF settle_live_scope, At, Running, ScopeAnswer, timer_terminal_recorded
  <1>10. CASE cancel_timer
    BY <1>10 DEF cancel_timer, At, Running
  <1>11. CASE Exit
    BY <1>11 DEF Exit, At, Running, ProcessDies
  <1>12. ASSUME NEW by \in {"process", "client"}, NEW t \in Timer, CancelCheck(by, t)
         PROVE  RowsAreStarted'
    BY <1>12
       DEF CancelCheck, Cancels, ClientsNext, CancelReturns, live_timers, Resident, Running
  <1>13. ASSUME NEW by \in {"process", "client"}, NEW t \in Timer, CancelRecord(by, t)
         PROVE  RowsAreStarted'
    BY <1>13
       DEF CancelRecord, Cancels, ClientsNext, CancelReturns, CancelCause,
           record_workflow_event, Record, Running
  <1>14. ASSUME NEW t \in Timer, CancelRecordFails(t) PROVE RowsAreStarted'
    BY <1>14 DEF CancelRecordFails, Cancels, ClientsNext, CancelReturns, Running
  <1>15. ASSUME NEW by \in {"wheel", "recovery"}, NEW t \in Timer, FireCheck(by, t)
         PROVE  RowsAreStarted'
    BY <1>15 DEF FireCheck, Fires, FireEnds, live_timers, Running
  <1>16. ASSUME NEW by \in {"wheel", "recovery"}, NEW t \in Timer, FireRecord(by, t)
         PROVE  RowsAreStarted'
    BY <1>16 DEF FireRecord, Holds, record_workflow_event, Record, Step, FireEnds, Running
  <1>17. ASSUME NEW by \in {"wheel", "recovery"}, NEW t \in Timer, FireDeliver(by, t)
         PROVE  RowsAreStarted'
    BY <1>17 DEF FireDeliver, Holds, FireEnds, Resident, Alive, Running
  <1>18. ASSUME NEW by \in {"wheel", "recovery"}, decide_disposition(by)
         PROVE  RowsAreStarted'
    BY <1>18
       DEF decide_disposition, Holds, live_timers, RecordOutcome, Record, Step, FireEnds,
           Running
  <1>19. ASSUME NEW by \in {"wheel", "recovery"}, RetireOrdinary(by) PROVE RowsAreStarted'
    BY <1>19 DEF RetireOrdinary, Holds, live_timers, Record, Step, Running
  <1>20. ASSUME NEW by \in {"wheel", "recovery"}, KillTimedOut(by) PROVE RowsAreStarted'
    BY <1>20 DEF KillTimedOut, Holds, Alive, ProcessDies, Step, Running
  <1>21. ASSUME NEW by \in {"wheel", "recovery"}, ShowTimedOut(by) PROVE RowsAreStarted'
    BY <1>21 DEF ShowTimedOut, Holds, Step, Running
  <1>22. ASSUME NEW by \in {"wheel", "recovery"}, RetireDeadline(by) PROVE RowsAreStarted'
    BY <1>22 DEF RetireDeadline, Holds, live_timers, Record, Step, Running
  <1>23. ASSUME NEW by \in {"wheel", "recovery"}, Deregister(by) PROVE RowsAreStarted'
    BY <1>23 DEF Deregister, Holds, FireEnds, Running
  <1>24. CASE WheelFireFails
    BY <1>24 DEF WheelFireFails, Holds, Running
  <1>25. CASE handle_process_exit
    BY <1>25 DEF handle_process_exit, At, Running, RecordOutcome, Record, live_timers
  <1>26. CASE MonitorRetires
    BY <1>26 DEF MonitorRetires, At, Running, retire_run_deadline, Record, live_timers
  <1>27. CASE CancelRequest
    BY <1>27 DEF CancelRequest, live_timers
  <1>28. CASE ClientTerminates
    BY <1>28 DEF ClientTerminates, RecordOutcome, Running
  <1>29. CASE ClientRetires
    BY <1>29 DEF ClientRetires, retire_run_deadline, Record, live_timers, Running
  <1>30. CASE RetireFails
    BY <1>30 DEF RetireFails, live_timers, Running
  <1>31. CASE ClientKills
    BY <1>31 DEF ClientKills, Alive, ProcessDies, Running
  <1>32. CASE ClientRemoves
    BY <1>32 DEF ClientRemoves, Running
  <1>33. CASE Crash
    BY <1>33 DEF Crash, EngineDies, AllFree
  <1>34. CASE RecoveryFails
    BY <1>34 DEF RecoveryFails, Holds, EngineDies, AllFree, Running
  <1>35. CASE BootSweep
    BY <1>35 DEF BootSweep, live_timers, Record
  <1>36. CASE Repopulate
    <2>1. pc' \in {"none", "start", "arm"}
      BY <1>36 DEF Repopulate, Entry
    <2>2. QED
      BY <1>36, <2>1 DEF Repopulate
  <1>37. CASE RearmRead
    BY <1>37 DEF RearmRead, outstanding_future_timers, live_timers
  <1>38. ASSUME NEW t \in Timer, Rearm(t) PROVE RowsAreStarted'
    BY <1>38 DEF Rearm, schedule, Resident
  <1>39. CASE BootDone
    BY <1>39 DEF BootDone
  <1>40. CASE UNCHANGED vars
    BY <1>40 DEF vars
  <1>41. QED
    BY <1>1, <1>2, <1>3, <1>4, <1>5, <1>6, <1>7, <1>8, <1>9, <1>10, <1>11, <1>12, <1>13,
       <1>14, <1>15, <1>16, <1>17, <1>18, <1>19, <1>20, <1>21, <1>22, <1>23, <1>24, <1>25,
       <1>26, <1>27, <1>28, <1>29, <1>30, <1>31, <1>32, <1>33, <1>34, <1>35, <1>36, <1>37,
       <1>38, <1>39, <1>40
       DEF Next, System, Process, Monitor, ClientCancel, Handle, Fire, Boot, Ordinary, Timer

\* No step makes an answer untrue.
LEMMA AnswersStep ==
    ASSUME TypeOK, SlotsAreTrue, LocksAreTrue, ProcessIsTrue, AnswersAreTrue, BootIsTrue,
           [Next]_vars
    PROVE  AnswersAreTrue'
  <1> USE DEF SlotsAreTrue, LocksAreTrue, ProcessIsTrue, AnswersAreTrue, BootIsTrue,
              TimerTerminals, BeforeSleepAnswer, TypeOK, Timer, Ordinary, Free, history,
              durable, boot, hosting, tasks, frame, answers, process, caller, bounds
  <1>1. CASE ArmDeadline
    BY <1>1 DEF ArmDeadline, schedule, Resident, Running
  <1>2. CASE Tick
    BY <1>2 DEF Tick
  <1>3. CASE start_timer
    BY <1>3 DEF start_timer, At, Running, RecordStarted, Record
  <1>4. CASE arm_scope
    BY <1>4 DEF arm_scope, At, Running, RecordStarted, Record, timer_terminal_recorded
  <1>5. ASSUME NEW t \in Ordinary, ScheduleRow(t) PROVE AnswersAreTrue'
    BY <1>5 DEF ScheduleRow, schedule, Resident, Running
  <1>6. CASE sleep
    <2>1. CASE last["sleep"] = "None"
      <3>1. sleeps = {} /\ UNCHANGED sleeps
        BY <1>6, <2>1 DEF sleep
      <3>2. last'["scope"] = last["scope"] /\ pc' = "row_sleep" /\ UNCHANGED <<outcome, scopes>>
        BY <1>6, <2>1 DEF sleep, RecordStarted, Record
      <3>3. "error" \in scopes => last["scope"] = "Teardown"
        BY <1>6 DEF sleep
      <3>4. QED
        BY <3>1, <3>2, <3>3
    <2>2. CASE last["sleep"] # "None" /\ timer_terminal_recorded("sleep") = "pending"
      <3>1. UNCHANGED <<last, outcome, sleeps, scopes>>
        BY <1>6, <2>2 DEF sleep
      <3>2. "error" \in scopes => last["scope"] = "Teardown"
        BY <1>6 DEF sleep
      <3>3. "error" \in sleeps => last["sleep"] = "Teardown"
        BY <1>6 DEF sleep
      <3>4. QED
        BY <3>1, <3>2, <3>3
    <2>3. CASE last["sleep"] # "None" /\ timer_terminal_recorded("sleep") # "pending"
      <3>1. /\ UNCHANGED <<last, outcome, scopes>>
            /\ sleeps' = sleeps \cup {timer_terminal_recorded("sleep")}
        BY <1>6, <2>3 DEF sleep
      <3>2. "error" \in scopes => last["scope"] = "Teardown"
        BY <1>6 DEF sleep
      <3>3. "error" \in sleeps => last["sleep"] = "Teardown"
        BY <1>6 DEF sleep
      <3>4. "error" \notin sleeps
        BY <2>3, <3>3 DEF timer_terminal_recorded
      <3>5. QED
        BY <2>3, <3>1, <3>2, <3>4 DEF timer_terminal_recorded
    <2>4. QED
      BY <2>1, <2>2, <2>3
  <1>7. CASE park_sleep_settled
    BY <1>7 DEF park_sleep_settled, At, Running, timer_terminal_recorded, AfterSleep
  <1>8. CASE resume_with_timeout
    BY <1>8 DEF resume_with_timeout, At, Running, ScopeAnswer
  <1>9. CASE settle_live_scope
    BY <1>9 DEF settle_live_scope, At, Running, ScopeAnswer, timer_terminal_recorded
  <1>10. CASE cancel_timer
    BY <1>10 DEF cancel_timer, At, Running
  <1>11. CASE Exit
    BY <1>11 DEF Exit, At, Running, ProcessDies
  <1>12. ASSUME NEW by \in {"process", "client"}, NEW t \in Timer, CancelCheck(by, t)
         PROVE  AnswersAreTrue'
    BY <1>12
       DEF CancelCheck, Cancels, ClientsNext, CancelReturns, live_timers, Resident, Running
  <1>13. ASSUME NEW by \in {"process", "client"}, NEW t \in Timer, CancelRecord(by, t)
         PROVE  AnswersAreTrue'
    BY <1>13
       DEF CancelRecord, Cancels, ClientsNext, CancelReturns, CancelCause,
           record_workflow_event, Record, Running
  <1>14. ASSUME NEW t \in Timer, CancelRecordFails(t) PROVE AnswersAreTrue'
    BY <1>14 DEF CancelRecordFails, Cancels, ClientsNext, CancelReturns, Running
  <1>15. ASSUME NEW by \in {"wheel", "recovery"}, NEW t \in Timer, FireCheck(by, t)
         PROVE  AnswersAreTrue'
    BY <1>15 DEF FireCheck, Fires, FireEnds, live_timers, Running
  <1>16. ASSUME NEW by \in {"wheel", "recovery"}, NEW t \in Timer, FireRecord(by, t)
         PROVE  AnswersAreTrue'
    BY <1>16 DEF FireRecord, Holds, record_workflow_event, Record, Step, FireEnds, Running
  <1>17. ASSUME NEW by \in {"wheel", "recovery"}, NEW t \in Timer, FireDeliver(by, t)
         PROVE  AnswersAreTrue'
    BY <1>17 DEF FireDeliver, Holds, FireEnds, Resident, Alive, Running
  <1>18. ASSUME NEW by \in {"wheel", "recovery"}, decide_disposition(by)
         PROVE  AnswersAreTrue'
    BY <1>18
       DEF decide_disposition, Holds, live_timers, RecordOutcome, Record, Step, FireEnds,
           Running
  <1>19. ASSUME NEW by \in {"wheel", "recovery"}, RetireOrdinary(by) PROVE AnswersAreTrue'
    BY <1>19 DEF RetireOrdinary, Holds, live_timers, Record, Step, Running
  <1>20. ASSUME NEW by \in {"wheel", "recovery"}, KillTimedOut(by) PROVE AnswersAreTrue'
    BY <1>20 DEF KillTimedOut, Holds, Alive, ProcessDies, Step, Running
  <1>21. ASSUME NEW by \in {"wheel", "recovery"}, ShowTimedOut(by) PROVE AnswersAreTrue'
    BY <1>21 DEF ShowTimedOut, Holds, Step, Running
  <1>22. ASSUME NEW by \in {"wheel", "recovery"}, RetireDeadline(by) PROVE AnswersAreTrue'
    BY <1>22 DEF RetireDeadline, Holds, live_timers, Record, Step, Running
  <1>23. ASSUME NEW by \in {"wheel", "recovery"}, Deregister(by) PROVE AnswersAreTrue'
    BY <1>23 DEF Deregister, Holds, FireEnds, Running
  <1>24. CASE WheelFireFails
    BY <1>24 DEF WheelFireFails, Holds, Running
  <1>25. CASE handle_process_exit
    BY <1>25 DEF handle_process_exit, At, Running, RecordOutcome, Record, live_timers
  <1>26. CASE MonitorRetires
    BY <1>26 DEF MonitorRetires, At, Running, retire_run_deadline, Record, live_timers
  <1>27. CASE CancelRequest
    BY <1>27 DEF CancelRequest, live_timers
  <1>28. CASE ClientTerminates
    BY <1>28 DEF ClientTerminates, RecordOutcome, Running
  <1>29. CASE ClientRetires
    BY <1>29 DEF ClientRetires, retire_run_deadline, Record, live_timers, Running
  <1>30. CASE RetireFails
    BY <1>30 DEF RetireFails, live_timers, Running
  <1>31. CASE ClientKills
    BY <1>31 DEF ClientKills, Alive, ProcessDies, Running
  <1>32. CASE ClientRemoves
    BY <1>32 DEF ClientRemoves, Running
  <1>33. CASE Crash
    BY <1>33 DEF Crash, EngineDies, AllFree
  <1>34. CASE RecoveryFails
    BY <1>34 DEF RecoveryFails, Holds, EngineDies, AllFree, Running
  <1>35. CASE BootSweep
    BY <1>35 DEF BootSweep, live_timers, Record
  <1>36. CASE Repopulate
    <2>1. pc' \in {"none", "start", "arm"}
      BY <1>36 DEF Repopulate, Entry
    <2>2. QED
      BY <1>36, <2>1 DEF Repopulate
  <1>37. CASE RearmRead
    BY <1>37 DEF RearmRead, outstanding_future_timers, live_timers
  <1>38. ASSUME NEW t \in Timer, Rearm(t) PROVE AnswersAreTrue'
    BY <1>38 DEF Rearm, schedule, Resident
  <1>39. CASE BootDone
    BY <1>39 DEF BootDone
  <1>40. CASE UNCHANGED vars
    BY <1>40 DEF vars
  <1>41. QED
    BY <1>1, <1>2, <1>3, <1>4, <1>5, <1>6, <1>7, <1>8, <1>9, <1>10, <1>11, <1>12, <1>13,
       <1>14, <1>15, <1>16, <1>17, <1>18, <1>19, <1>20, <1>21, <1>22, <1>23, <1>24, <1>25,
       <1>26, <1>27, <1>28, <1>29, <1>30, <1>31, <1>32, <1>33, <1>34, <1>35, <1>36, <1>37,
       <1>38, <1>39, <1>40
       DEF Next, System, Process, Monitor, ClientCancel, Handle, Fire, Boot, Ordinary, Timer

\* No step drops an armed timer.
LEMMA DrivenStep ==
    ASSUME TypeOK, SlotsAreTrue, LocksAreTrue, ProcessIsTrue, RowsAreStarted, RowsAreDriven,
           BootIsTrue, [Next]_vars
    PROVE  RowsAreDriven'
  <1> USE DEF SlotsAreTrue, LocksAreTrue, ProcessIsTrue, BootIsTrue, RowsAreStarted,
              RowsAreDriven, Driven, Alive, live_timers, TypeOK, Timer, Ordinary, Free,
              history, durable, boot, hosting, tasks, frame, answers, process, caller,
              bounds
  <1>1. CASE ArmDeadline
    BY <1>1 DEF ArmDeadline, schedule, Resident, Running
  <1>2. CASE Tick
    BY <1>2 DEF Tick
  <1>3. CASE start_timer
    BY <1>3 DEF start_timer, At, Running, RecordStarted, Record
  <1>4. CASE arm_scope
    BY <1>4 DEF arm_scope, At, Running, RecordStarted, Record, timer_terminal_recorded
  <1>5. ASSUME NEW t \in Ordinary, ScheduleRow(t) PROVE RowsAreDriven'
    BY <1>5 DEF ScheduleRow, schedule, Resident, Running
  <1>6. CASE sleep
    <2>1. CASE last["sleep"] = "None"
      <3>1. /\ last' = [last EXCEPT !["sleep"] = "Started"] /\ "sleep" \notin rows
            /\ UNCHANGED <<outcome, rows, phase, asOf, todo, wheel, slot, client>>
        BY <1>6, <2>1 DEF sleep, RecordStarted, Record
      <3>2. rows \cap live_timers' = rows \cap live_timers
        BY <3>1
      <3>3. pc \in {"sleep", "parked"}
        BY <1>6 DEF sleep
      <3>4. QED
        BY <3>1, <3>2, <3>3
    <2>2. CASE last["sleep"] # "None"
      <3>1. UNCHANGED <<last, outcome, rows, phase, asOf, todo, wheel, slot, client>>
        BY <1>6, <2>2 DEF sleep
      <3>2. pc \in {"sleep", "parked"}
        BY <1>6 DEF sleep
      <3>3. QED
        BY <3>1, <3>2
    <2>3. QED
      BY <2>1, <2>2
  <1>7. CASE park_sleep_settled
    BY <1>7 DEF park_sleep_settled, At, Running, timer_terminal_recorded, AfterSleep
  <1>8. CASE resume_with_timeout
    BY <1>8 DEF resume_with_timeout, At, Running, ScopeAnswer
  <1>9. CASE settle_live_scope
    BY <1>9 DEF settle_live_scope, At, Running, ScopeAnswer, timer_terminal_recorded
  <1>10. CASE cancel_timer
    BY <1>10 DEF cancel_timer, At, Running
  <1>11. CASE Exit
    BY <1>11 DEF Exit, At, Running, ProcessDies
  <1>12. ASSUME NEW by \in {"process", "client"}, NEW t \in Timer, CancelCheck(by, t)
         PROVE  RowsAreDriven'
    BY <1>12 DEF CancelCheck, Cancels, ClientsNext, CancelReturns, Resident, Running
  <1>13. ASSUME NEW by \in {"process", "client"}, NEW t \in Timer, CancelRecord(by, t)
         PROVE  RowsAreDriven'
    BY <1>13
       DEF CancelRecord, Cancels, ClientsNext, CancelReturns, CancelCause,
           record_workflow_event, Record, Running
  <1>14. ASSUME NEW t \in Timer, CancelRecordFails(t) PROVE RowsAreDriven'
    BY <1>14 DEF CancelRecordFails, Cancels, ClientsNext, CancelReturns, Running
  <1>15. ASSUME NEW by \in {"wheel", "recovery"}, NEW t \in Timer, FireCheck(by, t)
         PROVE  RowsAreDriven'
    BY <1>15 DEF FireCheck, Fires, FireEnds, Running
  <1>16. ASSUME NEW by \in {"wheel", "recovery"}, NEW t \in Timer, FireRecord(by, t)
         PROVE  RowsAreDriven'
    BY <1>16 DEF FireRecord, Holds, record_workflow_event, Record, Step, FireEnds, Running
  <1>17. ASSUME NEW by \in {"wheel", "recovery"}, NEW t \in Timer, FireDeliver(by, t)
         PROVE  RowsAreDriven'
    BY <1>17 DEF FireDeliver, Holds, FireEnds, Resident, Running
  <1>18. ASSUME NEW by \in {"wheel", "recovery"}, decide_disposition(by)
         PROVE  RowsAreDriven'
    BY <1>18 DEF decide_disposition, Holds, RecordOutcome, Record, Step, FireEnds, Running
  <1>19. ASSUME NEW by \in {"wheel", "recovery"}, RetireOrdinary(by) PROVE RowsAreDriven'
    BY <1>19 DEF RetireOrdinary, Holds, Record, Step, Running
  <1>20. ASSUME NEW by \in {"wheel", "recovery"}, KillTimedOut(by) PROVE RowsAreDriven'
    BY <1>20 DEF KillTimedOut, Holds, ProcessDies, Step, Running
  <1>21. ASSUME NEW by \in {"wheel", "recovery"}, ShowTimedOut(by) PROVE RowsAreDriven'
    BY <1>21 DEF ShowTimedOut, Holds, Step, Running
  <1>22. ASSUME NEW by \in {"wheel", "recovery"}, RetireDeadline(by) PROVE RowsAreDriven'
    BY <1>22 DEF RetireDeadline, Holds, Record, Step, Running
  <1>23. ASSUME NEW by \in {"wheel", "recovery"}, Deregister(by) PROVE RowsAreDriven'
    BY <1>23 DEF Deregister, Holds, FireEnds, Running
  <1>24. CASE WheelFireFails
    BY <1>24 DEF WheelFireFails, Holds, Running
  <1>25. CASE handle_process_exit
    BY <1>25 DEF handle_process_exit, At, Running, RecordOutcome, Record
  <1>26. CASE MonitorRetires
    BY <1>26 DEF MonitorRetires, At, Running, retire_run_deadline, Record
  <1>27. CASE CancelRequest
    BY <1>27 DEF CancelRequest
  <1>28. CASE ClientTerminates
    BY <1>28 DEF ClientTerminates, RecordOutcome, Running
  <1>29. CASE ClientRetires
    BY <1>29 DEF ClientRetires, retire_run_deadline, Record, Running
  <1>30. CASE RetireFails
    BY <1>30 DEF RetireFails, Running
  <1>31. CASE ClientKills
    BY <1>31 DEF ClientKills, ProcessDies, Running
  <1>32. CASE ClientRemoves
    BY <1>32 DEF ClientRemoves, Running
  <1>33. CASE Crash
    BY <1>33 DEF Crash, EngineDies, AllFree
  <1>34. CASE RecoveryFails
    BY <1>34 DEF RecoveryFails, Holds, EngineDies, AllFree, Running
  <1>35. CASE BootSweep
    BY <1>35 DEF BootSweep, Record
  <1>36. CASE Repopulate
    <2>1. pc' \in {"none", "start", "arm"}
      BY <1>36 DEF Repopulate, Entry
    <2>2. QED
      BY <1>36, <2>1 DEF Repopulate, expired_timers
  <1>37. CASE RearmRead
    BY <1>37 DEF RearmRead, outstanding_future_timers
  <1>38. ASSUME NEW t \in Timer, Rearm(t) PROVE RowsAreDriven'
    BY <1>38 DEF Rearm, schedule, Resident
  <1>39. CASE BootDone
    BY <1>39 DEF BootDone
  <1>40. CASE UNCHANGED vars
    BY <1>40 DEF vars
  <1>41. QED
    BY <1>1, <1>2, <1>3, <1>4, <1>5, <1>6, <1>7, <1>8, <1>9, <1>10, <1>11, <1>12, <1>13,
       <1>14, <1>15, <1>16, <1>17, <1>18, <1>19, <1>20, <1>21, <1>22, <1>23, <1>24, <1>25,
       <1>26, <1>27, <1>28, <1>29, <1>30, <1>31, <1>32, <1>33, <1>34, <1>35, <1>36, <1>37,
       <1>38, <1>39, <1>40
       DEF Next, System, Process, Monitor, ClientCancel, Handle, Fire, Boot, Ordinary, Timer

\* No step makes the boot untrue.
LEMMA BootStep ==
    ASSUME TypeOK, SlotsAreTrue, LocksAreTrue, ProcessIsTrue, BootIsTrue, [Next]_vars
    PROVE  BootIsTrue'
  <1> USE DEF SlotsAreTrue, BootIsTrue, Running, live_timers, AllFree, TypeOK, Timer,
              Ordinary, Free, history, durable, boot, hosting, tasks, frame, answers,
              process, caller, bounds
  <1>1. CASE ArmDeadline
    BY <1>1 DEF ArmDeadline, schedule, Resident
  <1>2. CASE Tick
    BY <1>2 DEF Tick
  <1>3. CASE start_timer
    BY <1>3 DEF start_timer, At, RecordStarted, Record
  <1>4. CASE arm_scope
    BY <1>4 DEF arm_scope, At, RecordStarted, Record, timer_terminal_recorded
  <1>5. ASSUME NEW t \in Ordinary, ScheduleRow(t) PROVE BootIsTrue'
    BY <1>5 DEF ScheduleRow, schedule, Resident
  <1>6. CASE sleep
    BY <1>6
       DEF sleep, RecordStarted, Record, timer_terminal_recorded, expired_scope_deadline,
           AfterSleep
  <1>7. CASE park_sleep_settled
    BY <1>7 DEF park_sleep_settled, At, timer_terminal_recorded, AfterSleep
  <1>8. CASE resume_with_timeout
    BY <1>8 DEF resume_with_timeout, At, ScopeAnswer
  <1>9. CASE settle_live_scope
    BY <1>9 DEF settle_live_scope, At, ScopeAnswer, timer_terminal_recorded
  <1>10. CASE cancel_timer
    BY <1>10 DEF cancel_timer, At
  <1>11. CASE Exit
    BY <1>11 DEF Exit, At, ProcessDies
  <1>12. ASSUME NEW by \in {"process", "client"}, NEW t \in Timer, CancelCheck(by, t)
         PROVE  BootIsTrue'
    BY <1>12 DEF CancelCheck, Cancels, ClientsNext, CancelReturns, Resident
  <1>13. ASSUME NEW by \in {"process", "client"}, NEW t \in Timer, CancelRecord(by, t)
         PROVE  BootIsTrue'
    BY <1>13
       DEF CancelRecord, Cancels, ClientsNext, CancelReturns, CancelCause,
           record_workflow_event, Record
  <1>14. ASSUME NEW t \in Timer, CancelRecordFails(t) PROVE BootIsTrue'
    BY <1>14 DEF CancelRecordFails, Cancels, ClientsNext, CancelReturns
  <1>15. ASSUME NEW by \in {"wheel", "recovery"}, NEW t \in Timer, FireCheck(by, t)
         PROVE  BootIsTrue'
    BY <1>15 DEF FireCheck, Fires, FireEnds
  <1>16. ASSUME NEW by \in {"wheel", "recovery"}, NEW t \in Timer, FireRecord(by, t)
         PROVE  BootIsTrue'
    BY <1>16 DEF FireRecord, Holds, record_workflow_event, Record, Step, FireEnds
  <1>17. ASSUME NEW by \in {"wheel", "recovery"}, NEW t \in Timer, FireDeliver(by, t)
         PROVE  BootIsTrue'
    BY <1>17 DEF FireDeliver, Holds, FireEnds, Resident, Alive
  <1>18. ASSUME NEW by \in {"wheel", "recovery"}, decide_disposition(by) PROVE BootIsTrue'
    BY <1>18 DEF decide_disposition, Holds, RecordOutcome, Record, Step, FireEnds
  <1>19. ASSUME NEW by \in {"wheel", "recovery"}, RetireOrdinary(by) PROVE BootIsTrue'
    BY <1>19 DEF RetireOrdinary, Holds, Record, Step
  <1>20. ASSUME NEW by \in {"wheel", "recovery"}, KillTimedOut(by) PROVE BootIsTrue'
    BY <1>20 DEF KillTimedOut, Holds, Alive, ProcessDies, Step
  <1>21. ASSUME NEW by \in {"wheel", "recovery"}, ShowTimedOut(by) PROVE BootIsTrue'
    BY <1>21 DEF ShowTimedOut, Holds, Step
  <1>22. ASSUME NEW by \in {"wheel", "recovery"}, RetireDeadline(by) PROVE BootIsTrue'
    BY <1>22 DEF RetireDeadline, Holds, Record, Step
  <1>23. ASSUME NEW by \in {"wheel", "recovery"}, Deregister(by) PROVE BootIsTrue'
    BY <1>23 DEF Deregister, Holds, FireEnds
  <1>24. CASE WheelFireFails
    BY <1>24 DEF WheelFireFails, Holds
  <1>25. CASE handle_process_exit
    BY <1>25 DEF handle_process_exit, At, RecordOutcome, Record
  <1>26. CASE MonitorRetires
    BY <1>26 DEF MonitorRetires, At, retire_run_deadline, Record
  <1>27. CASE CancelRequest
    BY <1>27 DEF CancelRequest
  <1>28. CASE ClientTerminates
    BY <1>28 DEF ClientTerminates, RecordOutcome
  <1>29. CASE ClientRetires
    BY <1>29 DEF ClientRetires, retire_run_deadline, Record
  <1>30. CASE RetireFails
    BY <1>30 DEF RetireFails
  <1>31. CASE ClientKills
    BY <1>31 DEF ClientKills, Alive, ProcessDies
  <1>32. CASE ClientRemoves
    BY <1>32 DEF ClientRemoves
  <1>33. CASE Crash
    BY <1>33 DEF Crash, EngineDies
  <1>34. CASE RecoveryFails
    BY <1>34 DEF RecoveryFails, Holds, EngineDies
  <1>35. CASE BootSweep
    <2>1. /\ phase = "down" /\ phase' = "boot" /\ shown' = (outcome # "None")
          /\ UNCHANGED <<outcome, rows, todo, wheel, slot, lock, pc, client, starting>>
      BY <1>35 DEF BootSweep, Record
    <2>2. /\ outcome \in {"Completed", "Cancelled"} /\ "deadline" \in rows
          => "deadline" \notin live_timers'
      BY <1>35 DEF BootSweep, Record
    <2>3. client # "timers" /\ ~starting
      BY <2>1
    <2>4. pc = "none" /\ todo = {} /\ wheel = {} /\ slot = AllFree /\ lock = "free"
      BY <2>1
    <2>5. outcome' # "None" => shown'
      BY <2>1
    <2> HIDE DEF TypeOK, live_timers, AllFree, SlotsAreTrue
    <2>6. QED
      BY <2>1, <2>2, <2>3, <2>4, <2>5
  <1>36. CASE Repopulate
    <2>1. /\ phase = "boot" /\ phase' = "recover" /\ UNCHANGED <<outcome, client, starting>>
          /\ pc' = "none" => outcome # "None"
      BY <1>36 DEF Repopulate, Entry
    <2>2. client # "timers" /\ ~starting
      BY <2>1
    <2>3. QED
      BY <2>1, <2>2
  <1>37. CASE RearmRead
    BY <1>37 DEF RearmRead, outstanding_future_timers
  <1>38. ASSUME NEW t \in Timer, Rearm(t) PROVE BootIsTrue'
    BY <1>38 DEF Rearm, schedule, Resident
  <1>39. CASE BootDone
    BY <1>39 DEF BootDone
  <1>40. CASE UNCHANGED vars
    BY <1>40 DEF vars
  <1>41. QED
    BY <1>1, <1>2, <1>3, <1>4, <1>5, <1>6, <1>7, <1>8, <1>9, <1>10, <1>11, <1>12, <1>13,
       <1>14, <1>15, <1>16, <1>17, <1>18, <1>19, <1>20, <1>21, <1>22, <1>23, <1>24, <1>25,
       <1>26, <1>27, <1>28, <1>29, <1>30, <1>31, <1>32, <1>33, <1>34, <1>35, <1>36, <1>37,
       <1>38, <1>39, <1>40
       DEF Next, System, Process, Monitor, ClientCancel, Handle, Fire, Boot, Ordinary, Timer

\* The deadline of a timed-out run is retired last, and no boot leaves one behind.
LEMMA RetiredStep ==
    ASSUME TypeOK, SlotsAreTrue, LocksAreTrue, ProcessIsTrue, BootIsTrue, RetiredLast,
           NoOrphanedDeadlineAfterBoot, [Next]_vars
    PROVE  RetiredLast' /\ NoOrphanedDeadlineAfterBoot'
  <1> USE DEF SlotsAreTrue, LocksAreTrue, BootIsTrue, Running, live_timers, RetiredLast,
              NoOrphanedDeadlineAfterBoot, TypeOK, Timer, Ordinary, Free, history, durable,
              boot, hosting, tasks, frame, answers, process, caller, bounds
  <1>1. CASE ArmDeadline
    BY <1>1 DEF ArmDeadline, schedule, Resident
  <1>2. CASE Tick
    BY <1>2 DEF Tick
  <1>3. CASE start_timer
    BY <1>3 DEF start_timer, At, RecordStarted, Record
  <1>4. CASE arm_scope
    BY <1>4 DEF arm_scope, At, RecordStarted, Record, timer_terminal_recorded
  <1>5. ASSUME NEW t \in Ordinary, ScheduleRow(t)
        PROVE  RetiredLast' /\ NoOrphanedDeadlineAfterBoot'
    BY <1>5 DEF ScheduleRow, schedule, Resident
  <1>6. CASE sleep
    <2>1. /\ outcome' = outcome /\ last'["deadline"] = last["deadline"]
          /\ UNCHANGED <<shown, phase, rows>> /\ pc' # "none"
      BY <1>6 DEF sleep, RecordStarted, Record, AfterSleep
    <2>2. QED
      BY <2>1
  <1>7. CASE park_sleep_settled
    BY <1>7 DEF park_sleep_settled, At, timer_terminal_recorded, AfterSleep
  <1>8. CASE resume_with_timeout
    BY <1>8 DEF resume_with_timeout, At, ScopeAnswer
  <1>9. CASE settle_live_scope
    BY <1>9 DEF settle_live_scope, At, ScopeAnswer, timer_terminal_recorded
  <1>10. CASE cancel_timer
    BY <1>10 DEF cancel_timer, At
  <1>11. CASE Exit
    BY <1>11 DEF Exit, At, ProcessDies
  <1>12. ASSUME NEW by \in {"process", "client"}, NEW t \in Timer, CancelCheck(by, t)
         PROVE  RetiredLast' /\ NoOrphanedDeadlineAfterBoot'
    BY <1>12 DEF CancelCheck, Cancels, ClientsNext, CancelReturns, Resident
  <1>13. ASSUME NEW by \in {"process", "client"}, NEW t \in Timer, CancelRecord(by, t)
         PROVE  RetiredLast' /\ NoOrphanedDeadlineAfterBoot'
    BY <1>13
       DEF CancelRecord, Cancels, ClientsNext, CancelReturns, CancelCause,
           record_workflow_event, Record
  <1>14. ASSUME NEW t \in Timer, CancelRecordFails(t)
         PROVE  RetiredLast' /\ NoOrphanedDeadlineAfterBoot'
    BY <1>14 DEF CancelRecordFails, Cancels, ClientsNext, CancelReturns
  <1>15. ASSUME NEW by \in {"wheel", "recovery"}, NEW t \in Timer, FireCheck(by, t)
         PROVE  RetiredLast' /\ NoOrphanedDeadlineAfterBoot'
    BY <1>15 DEF FireCheck, Fires, FireEnds
  <1>16. ASSUME NEW by \in {"wheel", "recovery"}, NEW t \in Timer, FireRecord(by, t)
         PROVE  RetiredLast' /\ NoOrphanedDeadlineAfterBoot'
    BY <1>16 DEF FireRecord, Holds, record_workflow_event, Record, Step, FireEnds
  <1>17. ASSUME NEW by \in {"wheel", "recovery"}, NEW t \in Timer, FireDeliver(by, t)
         PROVE  RetiredLast' /\ NoOrphanedDeadlineAfterBoot'
    BY <1>17 DEF FireDeliver, Holds, FireEnds, Resident, Alive
  <1>18. ASSUME NEW by \in {"wheel", "recovery"}, decide_disposition(by)
         PROVE  RetiredLast' /\ NoOrphanedDeadlineAfterBoot'
    BY <1>18 DEF decide_disposition, Holds, RecordOutcome, Record, Step, FireEnds
  <1>19. ASSUME NEW by \in {"wheel", "recovery"}, RetireOrdinary(by)
         PROVE  RetiredLast' /\ NoOrphanedDeadlineAfterBoot'
    BY <1>19 DEF RetireOrdinary, Holds, Record, Step
  <1>20. ASSUME NEW by \in {"wheel", "recovery"}, KillTimedOut(by)
         PROVE  RetiredLast' /\ NoOrphanedDeadlineAfterBoot'
    BY <1>20 DEF KillTimedOut, Holds, Alive, ProcessDies, Step
  <1>21. ASSUME NEW by \in {"wheel", "recovery"}, ShowTimedOut(by)
         PROVE  RetiredLast' /\ NoOrphanedDeadlineAfterBoot'
    BY <1>21 DEF ShowTimedOut, Holds, Step
  <1>22. ASSUME NEW by \in {"wheel", "recovery"}, RetireDeadline(by)
         PROVE  RetiredLast' /\ NoOrphanedDeadlineAfterBoot'
    BY <1>22 DEF RetireDeadline, Holds, Record, Step
  <1>23. ASSUME NEW by \in {"wheel", "recovery"}, Deregister(by)
         PROVE  RetiredLast' /\ NoOrphanedDeadlineAfterBoot'
    BY <1>23 DEF Deregister, Holds, FireEnds
  <1>24. CASE WheelFireFails
    BY <1>24 DEF WheelFireFails, Holds
  <1>25. CASE handle_process_exit
    BY <1>25 DEF handle_process_exit, At, RecordOutcome, Record
  <1>26. CASE MonitorRetires
    BY <1>26 DEF MonitorRetires, At, retire_run_deadline, Record
  <1>27. CASE CancelRequest
    BY <1>27 DEF CancelRequest
  <1>28. CASE ClientTerminates
    BY <1>28 DEF ClientTerminates, RecordOutcome
  <1>29. CASE ClientRetires
    BY <1>29 DEF ClientRetires, retire_run_deadline, Record
  <1>30. CASE RetireFails
    BY <1>30 DEF RetireFails
  <1>31. CASE ClientKills
    BY <1>31 DEF ClientKills, Alive, ProcessDies
  <1>32. CASE ClientRemoves
    BY <1>32 DEF ClientRemoves
  <1>33. CASE Crash
    BY <1>33 DEF Crash, EngineDies, AllFree
  <1>34. CASE RecoveryFails
    BY <1>34 DEF RecoveryFails, Holds, EngineDies, AllFree
  <1>35. CASE BootSweep
    BY <1>35 DEF BootSweep, Record
  <1>36. CASE Repopulate
    <2>1. pc' \in {"none", "start", "arm"}
      BY <1>36 DEF Repopulate, Entry
    <2>2. QED
      BY <1>36, <2>1 DEF Repopulate, expired_timers
  <1>37. CASE RearmRead
    BY <1>37 DEF RearmRead, outstanding_future_timers
  <1>38. ASSUME NEW t \in Timer, Rearm(t) PROVE RetiredLast' /\ NoOrphanedDeadlineAfterBoot'
    BY <1>38 DEF Rearm, schedule, Resident
  <1>39. CASE BootDone
    BY <1>39 DEF BootDone
  <1>40. CASE UNCHANGED vars
    BY <1>40 DEF vars
  <1>41. QED
    BY <1>1, <1>2, <1>3, <1>4, <1>5, <1>6, <1>7, <1>8, <1>9, <1>10, <1>11, <1>12, <1>13,
       <1>14, <1>15, <1>16, <1>17, <1>18, <1>19, <1>20, <1>21, <1>22, <1>23, <1>24, <1>25,
       <1>26, <1>27, <1>28, <1>29, <1>30, <1>31, <1>32, <1>33, <1>34, <1>35, <1>36, <1>37,
       <1>38, <1>39, <1>40
       DEF Next, System, Process, Monitor, ClientCancel, Handle, Fire, Boot, Ordinary, Timer

\* A recorded terminal of a timer stays: who appends one found the timer live, in the lock
\* it appends under or in the slot it has held since.
LEMMA SettledStep ==
    ASSUME TypeOK, SlotsAreTrue, [Next]_vars
    PROVE  \A u \in Timer : last[u] \in TimerTerminals => last'[u] = last[u]
  <1> USE DEF SlotsAreTrue, TimerTerminals, TypeOK, Timer, Ordinary, Free, history,
              durable, boot, hosting, tasks, frame, answers, process, caller, bounds
  <1>1. CASE ArmDeadline
    BY <1>1 DEF ArmDeadline, schedule, Resident, Running
  <1>2. CASE Tick
    BY <1>2 DEF Tick
  <1>3. CASE start_timer
    BY <1>3 DEF start_timer, At, Running, RecordStarted, Record
  <1>4. CASE arm_scope
    BY <1>4 DEF arm_scope, At, Running, RecordStarted, Record, timer_terminal_recorded
  <1>5. ASSUME NEW t \in Ordinary, ScheduleRow(t)
        PROVE  \A u \in Timer : last[u] \in TimerTerminals => last'[u] = last[u]
    BY <1>5 DEF ScheduleRow, schedule, Resident, Running
  <1>6. CASE sleep
    <2>1. last' = last \/ (last["sleep"] = "None" /\ last' = [last EXCEPT !["sleep"] = "Started"])
      BY <1>6 DEF sleep, RecordStarted, Record
    <2>2. QED
      BY <2>1
  <1>7. CASE park_sleep_settled
    BY <1>7 DEF park_sleep_settled, At, Running, timer_terminal_recorded, AfterSleep
  <1>8. CASE resume_with_timeout
    BY <1>8 DEF resume_with_timeout, At, Running, ScopeAnswer
  <1>9. CASE settle_live_scope
    BY <1>9 DEF settle_live_scope, At, Running, ScopeAnswer, timer_terminal_recorded
  <1>10. CASE cancel_timer
    BY <1>10 DEF cancel_timer, At, Running
  <1>11. CASE Exit
    BY <1>11 DEF Exit, At, Running, ProcessDies
  <1>12. ASSUME NEW by \in {"process", "client"}, NEW t \in Timer, CancelCheck(by, t)
         PROVE  \A u \in Timer : last[u] \in TimerTerminals => last'[u] = last[u]
    BY <1>12
       DEF CancelCheck, Cancels, ClientsNext, CancelReturns, live_timers, Resident, Running
  <1>13. ASSUME NEW by \in {"process", "client"}, NEW t \in Timer, CancelRecord(by, t)
         PROVE  \A u \in Timer : last[u] \in TimerTerminals => last'[u] = last[u]
    BY <1>13
       DEF CancelRecord, Cancels, ClientsNext, CancelReturns, CancelCause,
           record_workflow_event, Record, Running
  <1>14. ASSUME NEW t \in Timer, CancelRecordFails(t)
         PROVE  \A u \in Timer : last[u] \in TimerTerminals => last'[u] = last[u]
    BY <1>14 DEF CancelRecordFails, Cancels, ClientsNext, CancelReturns, Running
  <1>15. ASSUME NEW by \in {"wheel", "recovery"}, NEW t \in Timer, FireCheck(by, t)
         PROVE  \A u \in Timer : last[u] \in TimerTerminals => last'[u] = last[u]
    BY <1>15 DEF FireCheck, Fires, FireEnds, live_timers, Running
  <1>16. ASSUME NEW by \in {"wheel", "recovery"}, NEW t \in Timer, FireRecord(by, t)
         PROVE  \A u \in Timer : last[u] \in TimerTerminals => last'[u] = last[u]
    BY <1>16 DEF FireRecord, Holds, record_workflow_event, Record, Step, FireEnds, Running
  <1>17. ASSUME NEW by \in {"wheel", "recovery"}, NEW t \in Timer, FireDeliver(by, t)
         PROVE  \A u \in Timer : last[u] \in TimerTerminals => last'[u] = last[u]
    BY <1>17 DEF FireDeliver, Holds, FireEnds, Resident, Alive, Running
  <1>18. ASSUME NEW by \in {"wheel", "recovery"}, decide_disposition(by)
         PROVE  \A u \in Timer : last[u] \in TimerTerminals => last'[u] = last[u]
    BY <1>18
       DEF decide_disposition, Holds, live_timers, RecordOutcome, Record, Step, FireEnds,
           Running
  <1>19. ASSUME NEW by \in {"wheel", "recovery"}, RetireOrdinary(by)
         PROVE  \A u \in Timer : last[u] \in TimerTerminals => last'[u] = last[u]
    BY <1>19 DEF RetireOrdinary, Holds, live_timers, Record, Step, Running
  <1>20. ASSUME NEW by \in {"wheel", "recovery"}, KillTimedOut(by)
         PROVE  \A u \in Timer : last[u] \in TimerTerminals => last'[u] = last[u]
    BY <1>20 DEF KillTimedOut, Holds, Alive, ProcessDies, Step, Running
  <1>21. ASSUME NEW by \in {"wheel", "recovery"}, ShowTimedOut(by)
         PROVE  \A u \in Timer : last[u] \in TimerTerminals => last'[u] = last[u]
    BY <1>21 DEF ShowTimedOut, Holds, Step, Running
  <1>22. ASSUME NEW by \in {"wheel", "recovery"}, RetireDeadline(by)
         PROVE  \A u \in Timer : last[u] \in TimerTerminals => last'[u] = last[u]
    BY <1>22 DEF RetireDeadline, Holds, live_timers, Record, Step, Running
  <1>23. ASSUME NEW by \in {"wheel", "recovery"}, Deregister(by)
         PROVE  \A u \in Timer : last[u] \in TimerTerminals => last'[u] = last[u]
    BY <1>23 DEF Deregister, Holds, FireEnds, Running
  <1>24. CASE WheelFireFails
    BY <1>24 DEF WheelFireFails, Holds, Running
  <1>25. CASE handle_process_exit
    BY <1>25 DEF handle_process_exit, At, Running, RecordOutcome, Record, live_timers
  <1>26. CASE MonitorRetires
    BY <1>26 DEF MonitorRetires, At, Running, retire_run_deadline, Record, live_timers
  <1>27. CASE CancelRequest
    BY <1>27 DEF CancelRequest, live_timers
  <1>28. CASE ClientTerminates
    BY <1>28 DEF ClientTerminates, RecordOutcome, Running
  <1>29. CASE ClientRetires
    BY <1>29 DEF ClientRetires, retire_run_deadline, Record, live_timers, Running
  <1>30. CASE RetireFails
    BY <1>30 DEF RetireFails, live_timers, Running
  <1>31. CASE ClientKills
    BY <1>31 DEF ClientKills, Alive, ProcessDies, Running
  <1>32. CASE ClientRemoves
    BY <1>32 DEF ClientRemoves, Running
  <1>33. CASE Crash
    BY <1>33 DEF Crash, EngineDies, AllFree
  <1>34. CASE RecoveryFails
    BY <1>34 DEF RecoveryFails, Holds, EngineDies, AllFree, Running
  <1>35. CASE BootSweep
    BY <1>35 DEF BootSweep, live_timers, Record
  <1>36. CASE Repopulate
    BY <1>36 DEF Repopulate, Entry, expired_timers
  <1>37. CASE RearmRead
    BY <1>37 DEF RearmRead, outstanding_future_timers, live_timers
  <1>38. ASSUME NEW t \in Timer, Rearm(t)
         PROVE  \A u \in Timer : last[u] \in TimerTerminals => last'[u] = last[u]
    BY <1>38 DEF Rearm, schedule, Resident
  <1>39. CASE BootDone
    BY <1>39 DEF BootDone
  <1>40. CASE UNCHANGED vars
    BY <1>40 DEF vars
  <1>41. QED
    BY <1>1, <1>2, <1>3, <1>4, <1>5, <1>6, <1>7, <1>8, <1>9, <1>10, <1>11, <1>12, <1>13,
       <1>14, <1>15, <1>16, <1>17, <1>18, <1>19, <1>20, <1>21, <1>22, <1>23, <1>24, <1>25,
       <1>26, <1>27, <1>28, <1>29, <1>30, <1>31, <1>32, <1>33, <1>34, <1>35, <1>36, <1>37,
       <1>38, <1>39, <1>40
       DEF Next, System, Process, Monitor, ClientCancel, Handle, Fire, Boot, Ordinary, Timer

\* Behind the run's terminal nobody writes another, and nothing fires.
LEMMA EndedStep ==
    ASSUME TypeOK, LocksAreTrue, ProcessIsTrue, SlotsAreTrue, outcome # "None", [Next]_vars
    PROVE  outcome' = outcome /\ \A u \in Timer : last'[u] = "Fired" => last[u] = "Fired"
  <1> USE DEF SlotsAreTrue, LocksAreTrue, ProcessIsTrue, TypeOK, Timer, Ordinary, Free,
              history, durable, boot, hosting, tasks, frame, answers, process, caller,
              bounds
  <1>1. CASE ArmDeadline
    BY <1>1 DEF ArmDeadline, schedule, Resident, Running
  <1>2. CASE Tick
    BY <1>2 DEF Tick
  <1>3. CASE start_timer
    BY <1>3 DEF start_timer, At, Running, RecordStarted, Record
  <1>4. CASE arm_scope
    BY <1>4 DEF arm_scope, At, Running, RecordStarted, Record, timer_terminal_recorded
  <1>5. ASSUME NEW t \in Ordinary, ScheduleRow(t)
        PROVE  outcome' = outcome /\ \A u \in Timer : last'[u] = "Fired" => last[u] = "Fired"
    BY <1>5 DEF ScheduleRow, schedule, Resident, Running
  <1>6. CASE sleep
    <2>1. outcome' = outcome /\ (last' = last \/ last' = [last EXCEPT !["sleep"] = "Started"])
      BY <1>6 DEF sleep, RecordStarted, Record
    <2>2. QED
      BY <2>1
  <1>7. CASE park_sleep_settled
    BY <1>7 DEF park_sleep_settled, At, Running, timer_terminal_recorded, AfterSleep
  <1>8. CASE resume_with_timeout
    BY <1>8 DEF resume_with_timeout, At, Running, ScopeAnswer
  <1>9. CASE settle_live_scope
    BY <1>9 DEF settle_live_scope, At, Running, ScopeAnswer, timer_terminal_recorded
  <1>10. CASE cancel_timer
    BY <1>10 DEF cancel_timer, At, Running
  <1>11. CASE Exit
    BY <1>11 DEF Exit, At, Running, ProcessDies
  <1>12. ASSUME NEW by \in {"process", "client"}, NEW t \in Timer, CancelCheck(by, t)
         PROVE  outcome' = outcome /\ \A u \in Timer : last'[u] = "Fired" => last[u] = "Fired"
    BY <1>12
       DEF CancelCheck, Cancels, ClientsNext, CancelReturns, live_timers, Resident, Running
  <1>13. ASSUME NEW by \in {"process", "client"}, NEW t \in Timer, CancelRecord(by, t)
         PROVE  outcome' = outcome /\ \A u \in Timer : last'[u] = "Fired" => last[u] = "Fired"
    BY <1>13
       DEF CancelRecord, Cancels, ClientsNext, CancelReturns, CancelCause,
           record_workflow_event, Record, Running
  <1>14. ASSUME NEW t \in Timer, CancelRecordFails(t)
         PROVE  outcome' = outcome /\ \A u \in Timer : last'[u] = "Fired" => last[u] = "Fired"
    BY <1>14 DEF CancelRecordFails, Cancels, ClientsNext, CancelReturns, Running
  <1>15. ASSUME NEW by \in {"wheel", "recovery"}, NEW t \in Timer, FireCheck(by, t)
         PROVE  outcome' = outcome /\ \A u \in Timer : last'[u] = "Fired" => last[u] = "Fired"
    BY <1>15 DEF FireCheck, Fires, FireEnds, live_timers, Running
  <1>16. ASSUME NEW by \in {"wheel", "recovery"}, NEW t \in Timer, FireRecord(by, t)
         PROVE  outcome' = outcome /\ \A u \in Timer : last'[u] = "Fired" => last[u] = "Fired"
    BY <1>16 DEF FireRecord, Holds, record_workflow_event, Record, Step, FireEnds, Running
  <1>17. ASSUME NEW by \in {"wheel", "recovery"}, NEW t \in Timer, FireDeliver(by, t)
         PROVE  outcome' = outcome /\ \A u \in Timer : last'[u] = "Fired" => last[u] = "Fired"
    BY <1>17 DEF FireDeliver, Holds, FireEnds, Resident, Alive, Running
  <1>18. ASSUME NEW by \in {"wheel", "recovery"}, decide_disposition(by)
         PROVE  outcome' = outcome /\ \A u \in Timer : last'[u] = "Fired" => last[u] = "Fired"
    BY <1>18
       DEF decide_disposition, Holds, live_timers, RecordOutcome, Record, Step, FireEnds,
           Running
  <1>19. ASSUME NEW by \in {"wheel", "recovery"}, RetireOrdinary(by)
         PROVE  outcome' = outcome /\ \A u \in Timer : last'[u] = "Fired" => last[u] = "Fired"
    BY <1>19 DEF RetireOrdinary, Holds, live_timers, Record, Step, Running
  <1>20. ASSUME NEW by \in {"wheel", "recovery"}, KillTimedOut(by)
         PROVE  outcome' = outcome /\ \A u \in Timer : last'[u] = "Fired" => last[u] = "Fired"
    BY <1>20 DEF KillTimedOut, Holds, Alive, ProcessDies, Step, Running
  <1>21. ASSUME NEW by \in {"wheel", "recovery"}, ShowTimedOut(by)
         PROVE  outcome' = outcome /\ \A u \in Timer : last'[u] = "Fired" => last[u] = "Fired"
    BY <1>21 DEF ShowTimedOut, Holds, Step, Running
  <1>22. ASSUME NEW by \in {"wheel", "recovery"}, RetireDeadline(by)
         PROVE  outcome' = outcome /\ \A u \in Timer : last'[u] = "Fired" => last[u] = "Fired"
    BY <1>22 DEF RetireDeadline, Holds, live_timers, Record, Step, Running
  <1>23. ASSUME NEW by \in {"wheel", "recovery"}, Deregister(by)
         PROVE  outcome' = outcome /\ \A u \in Timer : last'[u] = "Fired" => last[u] = "Fired"
    BY <1>23 DEF Deregister, Holds, FireEnds, Running
  <1>24. CASE WheelFireFails
    BY <1>24 DEF WheelFireFails, Holds, Running
  <1>25. CASE handle_process_exit
    BY <1>25 DEF handle_process_exit, At, Running, RecordOutcome, Record, live_timers
  <1>26. CASE MonitorRetires
    BY <1>26 DEF MonitorRetires, At, Running, retire_run_deadline, Record, live_timers
  <1>27. CASE CancelRequest
    BY <1>27 DEF CancelRequest, live_timers
  <1>28. CASE ClientTerminates
    BY <1>28 DEF ClientTerminates, RecordOutcome, Running
  <1>29. CASE ClientRetires
    BY <1>29 DEF ClientRetires, retire_run_deadline, Record, live_timers, Running
  <1>30. CASE RetireFails
    BY <1>30 DEF RetireFails, live_timers, Running
  <1>31. CASE ClientKills
    BY <1>31 DEF ClientKills, Alive, ProcessDies, Running
  <1>32. CASE ClientRemoves
    BY <1>32 DEF ClientRemoves, Running
  <1>33. CASE Crash
    BY <1>33 DEF Crash, EngineDies, AllFree
  <1>34. CASE RecoveryFails
    BY <1>34 DEF RecoveryFails, Holds, EngineDies, AllFree, Running
  <1>35. CASE BootSweep
    BY <1>35 DEF BootSweep, live_timers, Record
  <1>36. CASE Repopulate
    BY <1>36 DEF Repopulate, Entry, expired_timers
  <1>37. CASE RearmRead
    BY <1>37 DEF RearmRead, outstanding_future_timers, live_timers
  <1>38. ASSUME NEW t \in Timer, Rearm(t)
         PROVE  outcome' = outcome /\ \A u \in Timer : last'[u] = "Fired" => last[u] = "Fired"
    BY <1>38 DEF Rearm, schedule, Resident
  <1>39. CASE BootDone
    BY <1>39 DEF BootDone
  <1>40. CASE UNCHANGED vars
    BY <1>40 DEF vars
  <1>41. QED
    BY <1>1, <1>2, <1>3, <1>4, <1>5, <1>6, <1>7, <1>8, <1>9, <1>10, <1>11, <1>12, <1>13,
       <1>14, <1>15, <1>16, <1>17, <1>18, <1>19, <1>20, <1>21, <1>22, <1>23, <1>24, <1>25,
       <1>26, <1>27, <1>28, <1>29, <1>30, <1>31, <1>32, <1>33, <1>34, <1>35, <1>36, <1>37,
       <1>38, <1>39, <1>40
       DEF Next, System, Process, Monitor, ClientCancel, Handle, Fire, Boot, Ordinary, Timer

-----------------------------------------------------------------------------
\* A run that start_workflow has just spawned satisfies the invariant.
LEMMA IInvInit == Init => IInv
  <1> SUFFICES ASSUME Init PROVE IInv
    OBVIOUS
  <1> USE DEF Init, Entry, Timer, Ordinary, AllFree, Free, Slot, TimerTerminals, RunTerminals
  <1>1. Flags
    BY DEF Flags
  <1>2. TypeOK
    <2>1. slot \in [Timer -> Slot]
      OBVIOUS
    <2>2. last \in [Timer -> TimerTerminals \cup {"None", "Started"}]
      OBVIOUS
    <2>3. pc \in {"start", "arm"}
      OBVIOUS
    <2>4. QED
      BY <1>1, <2>1, <2>2, <2>3 DEF TypeOK, Flags
  <1>3. AttemptsCounted
    BY DEF AttemptsCounted
  <1>4. SlotsAreTrue /\ LocksAreTrue /\ RowsAreStarted
    BY DEF SlotsAreTrue, LocksAreTrue, RowsAreStarted
  <1>5. ProcessIsTrue /\ AnswersAreTrue
    BY DEF ProcessIsTrue, AnswersAreTrue, Alive
  <1>6. RowsAreDriven /\ BootIsTrue
    BY DEF RowsAreDriven, BootIsTrue, Running
  <1>7. RetiredLast /\ NoOrphanedDeadlineAfterBoot
    BY DEF RetiredLast, NoOrphanedDeadlineAfterBoot
  <1>8. QED
    BY <1>2, <1>3, <1>4, <1>5, <1>6, <1>7 DEF IInv

\* And every step keeps it.
LEMMA IInvStep == IInv /\ [Next]_vars => IInv'
  <1> SUFFICES ASSUME IInv, [Next]_vars PROVE IInv'
    OBVIOUS
  <1> USE DEF IInv
  <1>1. TypeOK'
    BY FlagsStep, TypeStep
  <1>2. AttemptsCounted' /\ SlotsAreTrue' /\ LocksAreTrue'
    BY AttemptsStep, SlotsStep, LocksStep
  <1>3. ProcessIsTrue' /\ AnswersAreTrue'
    BY ProcessStep, AnswersStep
  <1>4. RowsAreStarted' /\ RowsAreDriven'
    BY StartedStep, DrivenStep
  <1>5. BootIsTrue' /\ RetiredLast' /\ NoOrphanedDeadlineAfterBoot'
    BY BootStep, RetiredStep
  <1>6. QED
    BY <1>1, <1>2, <1>3, <1>4, <1>5

-----------------------------------------------------------------------------
\* No armed timer of a running run is dropped by any interleaving of the wheel, the run's
\* program, a cancel, failing writes and any number of crashes and boots; the deadline of a
\* timed-out run is retired last, and no boot leaves behind the deadline of an ended run.
THEOREM TimersAreDriven == Spec => []Inv
  <1>1. IInv => Inv
    BY DEF IInv, Inv, RowsAreDriven, RowedTimersAreDriven
  <1>2. QED
    BY IInvInit, IInvStep, <1>1, PTL DEF Spec

\* Every answer of a sleep and of a with_timeout, replays after any number of crashes
\* included, is the one the history holds.
THEOREM TimerAnswersReplay == Spec => []ReplayAgrees
  <1>1. IInv => ReplayAgrees
    <2> SUFFICES ASSUME IInv PROVE ReplayAgrees
      OBVIOUS
    <2> USE DEF IInv, TypeOK
    <2>1. \A a, b \in sleeps : a = b
      BY DEF AnswersAreTrue
    <2>2. \A a, b \in scopes : a = b
      BY DEF AnswersAreTrue
    <2>3. QED
      BY <2>1, <2>2 DEF ReplayAgrees
  <1>2. QED
    BY IInvInit, IInvStep, <1>1, PTL DEF Spec

\* The terminal of a timer is recorded once, whoever races to record it and wherever the
\* engine dies.
THEOREM FirstTerminalWins == Spec => FirstRecordedWins
  <1>1. IInv /\ [Next]_vars
        => [\A t \in Timer : last[t] \in TimerTerminals => last'[t] = last[t]]_vars
    BY SettledStep DEF IInv
  <1>2. QED
    BY IInvInit, IInvStep, <1>1, PTL DEF Spec, FirstRecordedWins

\* A run ends once, and none of its timers fires behind its end.
THEOREM EndsOnce == Spec => NothingFiresAfterTheEnd
  <1>1. IInv /\ [Next]_vars
        => [outcome # "None" => /\ outcome' = outcome
                                /\ \A t \in Timer : last'[t] = "Fired" => last[t] = "Fired"]_vars
    BY EndedStep DEF IInv
  <1>2. QED
    BY IInvInit, IInvStep, <1>1, PTL DEF Spec, NothingFiresAfterTheEnd

=============================================================================
