------------------------------ MODULE Collect ------------------------------
(***************************************************************************)
(* One `collect_all` / `collect_race` await of one workflow run: the       *)
(* two-phase resolution core of crates/aion/src/runtime/nif_collect.rs and *)
(* nif_collect_settlement.rs, with the durable outbox switched on.         *)
(*                                                                         *)
(* Every mailbox wake invokes collect_step afresh.  One invocation reads   *)
(* the run segment of the history (Wake), stages the members that have no  *)
(* ActivityScheduled yet or, at the first arrival of an engine epoch,      *)
(* re-arms the ones that lost their dispatch, visits the members in        *)
(* ordinal order and records each completion waiting in the runtime maps   *)
(* (TakeAndRecord), and settles: it returns a result, records the          *)
(* cancellations of the unresolved members one append at a time            *)
(* (RecordCancelled), or parks.  The engine may die between any two        *)
(* appends; a restarted engine replays the same call from the history.     *)
(*                                                                         *)
(* Abstracted: payloads (only the kind of an outcome matters here),        *)
(* ActivityStarted (always appended right behind ActivityScheduled),       *)
(* determinism checks on activity names, queries, and the path a dispatch  *)
(* takes to a worker and back, which module Outbox models: here            *)
(* `outstanding` is the set of members whose dispatch will still produce   *)
(* a delivery.                                                             *)
(***************************************************************************)
EXTENDS Integers, Sequences

CONSTANTS
    Count,       \* number of fan-out members
    Kind,        \* CollectKind: "All" or "Race"
    Scoped,      \* whether the await runs inside a with_timeout scope
    Prior,       \* ordinals resolved in the history of earlier runs
    MaxCrashes   \* bound on engine crashes

ASSUME CountAssumption == Count \in Nat \ {0}
ASSUME KindAssumption == Kind \in {"All", "Race"}
ASSUME ScopedAssumption == Scoped \in BOOLEAN
ASSUME PriorAssumption == Prior \subseteq 0 .. (Count - 1)
ASSUME MaxCrashesAssumption == MaxCrashes \in Nat

Ordinals == 0 .. (Count - 1)

(***************************************************************************)
(* The events of a run segment that a collect reads or writes.             *)
(***************************************************************************)
ActivityTerminals == {"Completed", "Failed", "Cancelled"}
ActivityEvent(type, o) == [type |-> type, ordinal |-> o]
TimerFiredEvent == [type |-> "TimerFired", ordinal |-> 0]
Events == [type : ActivityTerminals \cup {"Scheduled", "TimerFired"},
           ordinal : Ordinals]

(***************************************************************************)
(* What collect_step hands back to workflow code (CollectStep without      *)
(* Suspend).  `winner` is the ordinal the result is about, Count if none;  *)
(* `kind` tells a winning success from a winning failure.                  *)
(***************************************************************************)
Outcome(step, winner, kind) == [step |-> step, winner |-> winner, kind |-> kind]
NoOutcome == Outcome("None", Count, "None")
ScopeExpired == Outcome("ScopeExpired", Count, "None")
AllCompleted == Outcome("AllCompleted", Count, "Completed")
FailFast(o) == Outcome("FailFast", o, "Failed")
RaceWon(o, kind) == Outcome("RaceWon", o, kind)
Outcomes == [step : {"None", "ScopeExpired", "AllCompleted", "FailFast", "RaceWon"},
             winner : 0 .. Count, kind : {"None", "Completed", "Failed"}]

VARIABLES
    segment,      \* durable: this run's recorded events, in order
    up,           \* whether an engine process hosts the run
    pc,           \* where the workflow process is in its collect call
    snapshot,     \* the run segment this invocation of collect_step read
    pos,          \* next ordinal of the loop in progress
    states,       \* the OrdinalState vector of the sweep
    verdict,      \* the result the invocation has settled on
    retained,     \* activity_results / activity_errors of the live process
    mail,         \* a marker is queued in the process mailbox
    outstanding,  \* members whose dispatch will still be delivered
    outcomes,     \* every result the call has returned, replays included
    crashes

vars == <<segment, up, pc, snapshot, pos, states, verdict, retained, mail,
          outstanding, outcomes, crashes>>

locals == <<snapshot, pos, states, verdict>>

(***************************************************************************)
(* Reading a history.                                                      *)
(***************************************************************************)
TerminalPositions(history, o) ==
    {i \in 1 .. Len(history) :
        history[i].ordinal = o /\ history[i].type \in ActivityTerminals}

IsScheduled(history, o) ==
    \E i \in 1 .. Len(history) : history[i] = ActivityEvent("Scheduled", o)

ResolvedIn(history, o) == TerminalPositions(history, o) # {}

First(positions) == CHOOSE i \in positions : \A j \in positions : i <= j

\* Any event of the ordinal taken for its terminal.
MutantRecordedTerminal(history, o) ==
    IF \E i \in 1 .. Len(history) : history[i].ordinal = o
    THEN history[First({i \in 1 .. Len(history) : history[i].ordinal = o})].type
    ELSE "Pending"

\* recorded_terminal: the first terminal of the ordinal, in segment order.
recorded_terminal(history, o) ==
    IF ResolvedIn(history, o)
    THEN history[First(TerminalPositions(history, o))].type
    ELSE "Pending"

WinnerPositions(history) ==
    {i \in 1 .. Len(history) : history[i].type \in {"Completed", "Failed"}}

\* recorded_race_winner: the earliest recorded terminal that is no cancellation.
recorded_race_winner(history) ==
    LET i == First(WinnerPositions(history))
    IN  RaceWon(history[i].ordinal, history[i].type)

\* expired_scope_deadline, on the snapshot and on nothing newer.
expired_scope_deadline(history) ==
    Scoped /\ \E i \in 1 .. Len(history) : history[i].type = "TimerFired"

(***************************************************************************)
(* ordinal_is_resolved as record_fan_out_completion consults it.  The      *)
(* collect passes no run id, so the scan covers the whole history of the   *)
(* workflow, earlier runs included, and not this run's segment alone.      *)
(***************************************************************************)
ordinal_is_resolved(o) == o \in Prior \/ ResolvedIn(segment, o)

NoRetained == [o \in Ordinals |-> {}]
AllPending == [o \in Ordinals |-> "Pending"]

Init ==
    /\ segment = <<>>
    /\ up = TRUE
    /\ pc = "call"
    /\ snapshot = <<>>
    /\ pos = 0
    /\ states = AllPending
    /\ verdict = NoOutcome
    /\ retained = NoRetained
    /\ mail = FALSE
    /\ outstanding = {}
    /\ outcomes = {}
    /\ crashes = 0

-----------------------------------------------------------------------------
(***************************************************************************)
(* The workflow process.                                                   *)
(***************************************************************************)

\* The batch of Scheduled events one record_fan_out_dispatch appends.
ScheduledBatch == [i \in 1 .. Count |-> ActivityEvent("Scheduled", i - 1)]

\* A first arrival that trusts the dispatches of the engine before it.
MutantStaleMembers(firstArrival) == {}

\* The members to re-dispatch: scheduled, unresolved, first arrival only.
stale_members(firstArrival) ==
    {o \in Ordinals : firstArrival /\ IsScheduled(segment, o)
                                   /\ ~ResolvedIn(segment, o)}

(***************************************************************************)
(* Entry of collect_step: pin or reuse the ordinal range, read the         *)
(* segment, then dispatch_unscheduled.  The fresh members are recorded by  *)
(* one atomic append together with their outbox rows, so a member is fresh *)
(* only if all of them are.                                                *)
(***************************************************************************)
Wake ==
    /\ up
    /\ \/ pc = "call"
       \/ pc = "parked" /\ mail
    /\ LET fresh == \E o \in Ordinals : ~IsScheduled(segment, o)
       IN  /\ segment' = IF fresh THEN segment \o ScheduledBatch ELSE segment
           /\ outstanding' = IF fresh THEN outstanding \cup Ordinals
                             ELSE outstanding \cup stale_members(pc = "call")
    /\ snapshot' = segment
    /\ pc' = "sweep"
    /\ pos' = 0
    /\ states' = AllPending
    /\ verdict' = NoOutcome
    /\ mail' = FALSE
    /\ UNCHANGED <<up, retained, outcomes, crashes>>

\* The map entry take_and_record takes: a result before an error.
Takeable(o) == IF "Completed" \in retained[o] THEN "Completed" ELSE "Failed"

(***************************************************************************)
(* take_and_record on the member at pos: the retained outcome leaves the   *)
(* runtime map and record_fan_out_completion appends it, unless it finds   *)
(* the ordinal resolved and drops it.  The caller sees the outcome taken   *)
(* in both cases.                                                          *)
(***************************************************************************)
record_fan_out_completion(o, type) ==
    segment' = IF ordinal_is_resolved(o) THEN segment
               ELSE Append(segment, ActivityEvent(type, o))

SweepVisits(o) ==
    /\ up
    /\ pc = "sweep"
    /\ pos < Count
    /\ o = pos
    /\ Kind = "Race" => WinnerPositions(snapshot) = {}

\* A race that keeps sweeping past its winner.
MutantSweepAdvances(o, type) ==
    /\ states' = [states EXCEPT ![o] = type]
    /\ pos' = pos + 1
    /\ verdict' = IF Kind = "Race" /\ type \in {"Completed", "Failed"}
                  THEN RaceWon(o, type) ELSE verdict
    /\ UNCHANGED pc

\* The loop goes on to the next member; a race stops at its winner.
SweepAdvances(o, type) ==
    /\ states' = [states EXCEPT ![o] = type]
    /\ pos' = pos + 1
    /\ IF Kind = "Race" /\ type \in {"Completed", "Failed"}
       THEN /\ verdict' = RaceWon(o, type)
            /\ pc' = "settle"
       ELSE UNCHANGED <<verdict, pc>>

TakeAndRecord(o) ==
    /\ SweepVisits(o)
    /\ ~ResolvedIn(snapshot, o)
    /\ retained[o] # {}
    /\ LET type == Takeable(o)
       IN  /\ record_fan_out_completion(o, type)
           /\ retained' = [retained EXCEPT ![o] = @ \ {type}]
           /\ SweepAdvances(o, type)
    /\ UNCHANGED <<up, snapshot, mail, outstanding, outcomes, crashes>>

\* A member already resolved in the snapshot, or with nothing delivered yet.
\* A race skips a resolved member: only cancellations are left to meet.
SkipMember(o) ==
    /\ SweepVisits(o)
    /\ ResolvedIn(snapshot, o) \/ retained[o] = {}
    /\ SweepAdvances(o, recorded_terminal(snapshot, o))
    /\ UNCHANGED <<segment, up, snapshot, retained, mail, outstanding,
                   outcomes, crashes>>

(***************************************************************************)
(* The settlement rules.  Both are functions of what the sweep saw.        *)
(***************************************************************************)
Failures == {o \in Ordinals : states[o] = "Failed"}

settle_all ==
    IF Failures # {} THEN FailFast(First(Failures))
    ELSE IF \A o \in Ordinals : states[o] = "Completed" THEN AllCompleted
    ELSE IF \/ expired_scope_deadline(snapshot)
            \/ \A o \in Ordinals : states[o] # "Pending"
         THEN ScopeExpired
    ELSE NoOutcome

settle_race ==
    IF verdict # NoOutcome THEN verdict
    ELSE IF WinnerPositions(snapshot) # {} THEN recorded_race_winner(snapshot)
    ELSE IF \/ expired_scope_deadline(snapshot)
            \/ \A o \in Ordinals : recorded_terminal(snapshot, o) = "Cancelled"
         THEN ScopeExpired
    ELSE NoOutcome

Settlement == IF Kind = "All" THEN settle_all ELSE settle_race

\* The sweep is over: it visited every member, or the race has its winner.
SweepOver ==
    \/ pc = "settle"
    \/ pc = "sweep" /\ pos = Count
    \/ pc = "sweep" /\ Kind = "Race" /\ WinnerPositions(snapshot) # {}

Settle ==
    /\ up
    /\ SweepOver
    /\ verdict' = Settlement
    /\ pos' = 0
    /\ pc' = IF Settlement = NoOutcome THEN "parked" ELSE "abort"
    /\ UNCHANGED <<segment, up, snapshot, states, retained, mail, outstanding,
                   outcomes, crashes>>

\* Every member but the winner is cancelled, resolved or not.
MutantMustCancel(o) == o # verdict.winner

\* Nothing is cancelled: the result is returned over an open record.
MutantNoCancel(o) == FALSE

(***************************************************************************)
(* cancel_pending and the loser loops of settle_race.  A race judges a     *)
(* loser by the snapshot, an all-collect by the sweep's state vector.      *)
(***************************************************************************)
MustCancel(o) ==
    IF Kind = "All" THEN states[o] = "Pending"
    ELSE o # verdict.winner /\ ~ResolvedIn(snapshot, o)

\* A race drops the map entries of every loser, an all-collect only those
\* of the members it cancels.
DropsEntries(o) ==
    IF Kind = "All" THEN MustCancel(o) ELSE o # verdict.winner

RecordCancelled(o) ==
    /\ up
    /\ pc = "abort"
    /\ pos < Count
    /\ o = pos
    /\ segment' = IF MustCancel(o)
                  THEN Append(segment, ActivityEvent("Cancelled", o))
                  ELSE segment
    /\ retained' = IF DropsEntries(o) THEN [retained EXCEPT ![o] = {}]
                   ELSE retained
    /\ pos' = pos + 1
    /\ UNCHANGED <<up, pc, snapshot, states, verdict, mail, outstanding,
                   outcomes, crashes>>

\* The pin is removed and the result is handed to workflow code.
Return ==
    /\ up
    /\ pc = "abort"
    /\ pos = Count
    /\ pc' = "returned"
    /\ outcomes' = outcomes \cup {verdict}
    /\ UNCHANGED <<segment, up, snapshot, pos, states, verdict, retained, mail,
                   outstanding, crashes>>

-----------------------------------------------------------------------------
(***************************************************************************)
(* The rest of the system.                                                 *)
(***************************************************************************)

(***************************************************************************)
(* retain_activity_outcome_and_deliver_marker: under the process's         *)
(* delivery gate the outcome is retained, then the marker is queued.  A    *)
(* delivery may be repeated (`last` is FALSE): workers re-report and rows  *)
(* are re-dispatched.  The gate admits a live process only.                *)
(***************************************************************************)
Deliver(o, type, last) ==
    /\ o \in outstanding
    /\ outstanding' = IF last THEN outstanding \ {o} ELSE outstanding
    /\ retained' = IF up THEN [retained EXCEPT ![o] = @ \cup {type}]
                   ELSE retained
    /\ mail' = (mail \/ up)
    /\ UNCHANGED <<segment, up, pc, outcomes, crashes, locals>>

\* The timer service records the scope's deadline and wakes the process.
TimerFires ==
    /\ up
    /\ Scoped
    /\ ~expired_scope_deadline(segment)
    /\ segment # <<>>
    /\ segment' = Append(segment, TimerFiredEvent)
    /\ mail' = TRUE
    /\ UNCHANGED <<up, pc, retained, outstanding, outcomes, crashes, locals>>

(***************************************************************************)
(* The engine process dies: pins, maps and mailbox are gone, and any of    *)
(* the dispatches in flight may be lost with it.                           *)
(***************************************************************************)
Crash ==
    /\ up
    /\ crashes < MaxCrashes
    /\ crashes' = crashes + 1
    /\ up' = FALSE
    /\ pc' = "call"
    /\ snapshot' = <<>>
    /\ pos' = 0
    /\ states' = AllPending
    /\ verdict' = NoOutcome
    /\ retained' = NoRetained
    /\ mail' = FALSE
    /\ outstanding' \in SUBSET outstanding
    /\ UNCHANGED <<segment, outcomes>>

\* Recovery respawns the run, which replays up to the same call.
Restart ==
    /\ ~up
    /\ up' = TRUE
    /\ UNCHANGED <<segment, pc, retained, mail, outstanding, outcomes, crashes,
                   locals>>

Process ==
    \/ Wake
    \/ \E o \in Ordinals : TakeAndRecord(o) \/ SkipMember(o) \/ RecordCancelled(o)
    \/ Settle
    \/ Return

Next ==
    \/ Process
    \/ \E o \in Ordinals, type \in {"Completed", "Failed"}, last \in BOOLEAN :
          Deliver(o, type, last)
    \/ TimerFires
    \/ Crash
    \/ Restart

Spec == Init /\ [][Next]_vars

(***************************************************************************)
(* Fairness: the scheduler keeps running the process, a supervisor         *)
(* restarts the engine, and the at-least-once dispatch of module Outbox    *)
(* eventually delivers an outcome for every member it holds.               *)
(***************************************************************************)
Fairness ==
    /\ WF_vars(Process)
    /\ WF_vars(Restart)
    /\ \A o \in Ordinals :
          WF_vars(up /\ \E type \in {"Completed", "Failed"} : Deliver(o, type, TRUE))

FairSpec == Spec /\ Fairness

-----------------------------------------------------------------------------
(***************************************************************************)
(* Properties.                                                             *)
(***************************************************************************)

\* Every variable keeps its type.
TypeOK ==
    /\ segment \in Seq(Events)
    /\ up \in BOOLEAN
    /\ pc \in {"call", "sweep", "settle", "abort", "parked", "returned"}
    /\ snapshot \in Seq(Events)
    /\ pos \in 0 .. Count
    /\ states \in [Ordinals -> ActivityTerminals \cup {"Pending"}]
    /\ verdict \in Outcomes
    /\ retained \in [Ordinals -> SUBSET {"Completed", "Failed"}]
    /\ mail \in BOOLEAN
    /\ outstanding \in SUBSET Ordinals
    /\ outcomes \in SUBSET Outcomes
    /\ crashes \in 0 .. MaxCrashes

\* "Replay never re-races and never consults the runtime maps: the result is
\* a total function of the per-ordinal recorded terminal set"
\* (nif_collect.rs:22-23).  Whatever result a call has once handed to
\* workflow code, every replay of the call after a crash hands it out again.
ReplayAgrees == \A a, b \in outcomes : a = b

\* The dedup promise of record_fan_out_completion and of the cancellation
\* loops together: a redelivered completion, a completion racing a
\* cancellation, or a crash between two appends never gives an ordinal a
\* second terminal in its run.
AtMostOneTerminal ==
    \A o \in Ordinals : \A i, j \in TerminalPositions(segment, o) : i = j

\* settle_race: a race records at most one outcome, whatever was delivered;
\* all other members end up cancelled.
RaceHasOneWinner ==
    Kind = "Race" => \A i, j \in WinnerPositions(segment) : i = j

\* A result is handed out only when the record it is derived from is
\* complete: no member of a returned collect is left unresolved, so that a
\* replay has nothing to wait for and re-arms nothing.
ReturnedIsResolved ==
    pc = "returned" => \A o \in Ordinals : ResolvedIn(segment, o)

(***************************************************************************)
(* The promise of a fan-out: a member's entry in the abstract record is    *)
(* the terminal recorded_terminal reads off the segment.                   *)
(***************************************************************************)
Promise == INSTANCE FanOut WITH
    Members <- Ordinals,
    Results <- Outcomes,
    record <- [o \in Ordinals |-> recorded_terminal(segment, o)],
    result <- outcomes

\* The result is "a total function of the per-ordinal recorded terminal set"
\* (nif_collect.rs:23), and settling "cancels every unresolved member".
\* Across wakes, redeliveries, crashes and replays, each step of the collect
\* resolves one open member for good, or hands out, over a complete record,
\* the one result that record determines, or shows neither.
Implements == Promise!Spec

\* No lost wake-up and no lost dispatch: the await ends in spite of crashes
\* that lose dispatches in flight, because a first arrival re-arms them.
EventuallyReturns == <>[](pc = "returned")

=============================================================================
