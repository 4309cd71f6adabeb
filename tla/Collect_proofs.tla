--------------------------- MODULE Collect_proofs ---------------------------
(***************************************************************************)
(* Proofs about module Collect, for any number of members, either kind of  *)
(* collect, any scope, any prior runs and any number of crashes.           *)
(***************************************************************************)
EXTENDS Collect, SequenceTheorems, WellFoundedInduction, TLAPS

USE CountAssumption, KindAssumption, ScopedAssumption, PriorAssumption,
    MaxCrashesAssumption

-----------------------------------------------------------------------------
(***************************************************************************)
(* The operators on histories.                                             *)
(***************************************************************************)

\* First picks a member of a nonempty set of naturals.
LEMMA FirstIsMember ==
    ASSUME NEW S \in SUBSET Nat, S # {}
    PROVE  First(S) \in S
  <1> DEFINE R == {p \in Nat \X Nat : p[1] < p[2]}
  <1>1. IsWellFoundedOn(R, Nat)
    BY NatLessThanWellFounded, Zenon DEF OpToRel
  <1>2. \E m \in S : \A k \in S : ~(<<k, m>> \in R)
    BY <1>1, WFMin, Zenon
  <1>3. PICK m \in S : \A k \in S : ~(<<k, m>> \in R)
    BY <1>2
  <1>4. ASSUME NEW k \in S PROVE m <= k
    <2>1. m \in Nat /\ k \in Nat
      OBVIOUS
    <2>2. <<k, m>> \in R <=> k < m
      BY <2>1
    <2>3. QED
      BY <1>3, <2>1, <2>2
  <1>5. QED
    BY <1>4 DEF First

\* The events a collect writes are events.
LEMMA EventTypes ==
    /\ \A o \in Ordinals : \A type \in ActivityTerminals \cup {"Scheduled"} :
          ActivityEvent(type, o) \in Events
    /\ TimerFiredEvent \in Events
    /\ ScheduledBatch \in Seq(Events)
    /\ Len(ScheduledBatch) = Count
    /\ \A i \in 1 .. Count : ScheduledBatch[i].type = "Scheduled"
  <1>1. \A o \in Ordinals : \A type \in ActivityTerminals \cup {"Scheduled"} :
          ActivityEvent(type, o) \in Events
    BY DEF ActivityEvent, Events
  <1>2. TimerFiredEvent \in Events
    BY DEF TimerFiredEvent, Events, Ordinals
  <1>3. \A i \in 1 .. Count : ActivityEvent("Scheduled", i - 1) \in Events
    BY <1>1 DEF Ordinals
  <1>4. ScheduledBatch \in Seq(Events) /\ Len(ScheduledBatch) = Count
    BY <1>3, SMT DEF ScheduledBatch
  <1>5. \A i \in 1 .. Count : ScheduledBatch[i].type = "Scheduled"
    BY DEF ScheduledBatch, ActivityEvent
  <1>6. QED
    BY <1>1, <1>2, <1>4, <1>5

\* An append adds a terminal of an ordinal exactly if it appends one.
LEMMA AppendTerminal ==
    ASSUME NEW s \in Seq(Events), NEW e \in Events, NEW o \in Ordinals
    PROVE  TerminalPositions(Append(s, e), o) =
             TerminalPositions(s, o) \cup
               (IF e.ordinal = o /\ e.type \in ActivityTerminals
                THEN {Len(s) + 1} ELSE {})
  BY AppendProperties DEF TerminalPositions

\* Staging a batch adds no terminal.
LEMMA ConcatTerminal ==
    ASSUME NEW s \in Seq(Events), NEW o \in Ordinals
    PROVE  TerminalPositions(s \o ScheduledBatch, o) = TerminalPositions(s, o)
  <1>1. /\ Len(s \o ScheduledBatch) = Len(s) + Count
        /\ Len(s) \in Nat
        /\ \A i \in 1 .. Len(s) + Count : (s \o ScheduledBatch)[i] =
              IF i <= Len(s) THEN s[i] ELSE ScheduledBatch[i - Len(s)]
    BY ConcatProperties, EventTypes, LenProperties
  <1>2. \A i \in Len(s) + 1 .. Len(s) + Count :
           (s \o ScheduledBatch)[i].type = "Scheduled"
    BY <1>1, EventTypes
  <1>3. QED
    BY <1>1, <1>2 DEF TerminalPositions, ActivityTerminals

\* Positions of terminals and of winners are naturals.
LEMMA PositionTypes ==
    ASSUME NEW s \in Seq(Events), NEW o \in Ordinals
    PROVE  /\ TerminalPositions(s, o) \in SUBSET Nat
           /\ WinnerPositions(s) \in SUBSET Nat
           /\ recorded_terminal(s, o) \in ActivityTerminals \cup {"Pending"}
           /\ ResolvedIn(s, o) <=> recorded_terminal(s, o) # "Pending"
  <1>1. TerminalPositions(s, o) \in SUBSET Nat /\ WinnerPositions(s) \in SUBSET Nat
    BY LenProperties DEF TerminalPositions, WinnerPositions
  <1>2. ResolvedIn(s, o) => recorded_terminal(s, o) \in ActivityTerminals
    <2>1. SUFFICES ASSUME ResolvedIn(s, o)
                   PROVE  recorded_terminal(s, o) \in ActivityTerminals
      OBVIOUS
    <2>2. First(TerminalPositions(s, o)) \in TerminalPositions(s, o)
      BY <1>1, <2>1, FirstIsMember DEF ResolvedIn
    <2>3. QED
      BY <2>1, <2>2 DEF recorded_terminal, TerminalPositions
  <1>3. QED
    BY <1>1, <1>2 DEF recorded_terminal, ActivityTerminals

\* A recorded race winner is an outcome.
LEMMA RaceWinnerType ==
    ASSUME NEW s \in Seq(Events), WinnerPositions(s) # {}
    PROVE  recorded_race_winner(s) \in Outcomes
  <1>1. WinnerPositions(s) \in SUBSET Nat
    BY LenProperties DEF WinnerPositions
  <1>2. PICK i : i = First(WinnerPositions(s)) /\ i \in WinnerPositions(s)
    BY <1>1, FirstIsMember
  <1>3. i \in 1 .. Len(s) /\ s[i] \in Events /\ s[i].type \in {"Completed", "Failed"}
    BY <1>2, LenProperties DEF WinnerPositions
  <1>4. s[i].ordinal \in 0 .. Count
    BY <1>3 DEF Events, Ordinals
  <1>5. QED
    BY <1>2, <1>3, <1>4 DEF recorded_race_winner, RaceWon, Outcome, Outcomes

-----------------------------------------------------------------------------
(***************************************************************************)
(* Type correctness.                                                       *)
(***************************************************************************)

\* What a sweep settles on is an outcome.
LEMMA SettlementType ==
    ASSUME TypeOK
    PROVE  Settlement \in Outcomes
  <1>1. /\ NoOutcome \in Outcomes
        /\ ScopeExpired \in Outcomes
        /\ AllCompleted \in Outcomes
        /\ \A o \in Ordinals : FailFast(o) \in Outcomes
    BY DEF NoOutcome, ScopeExpired, AllCompleted, FailFast, Outcome, Outcomes, Ordinals
  <1>2. Failures # {} => First(Failures) \in Ordinals
    <2>1. Failures \in SUBSET Nat /\ Failures \in SUBSET Ordinals
      BY DEF Failures, Ordinals
    <2>2. QED
      BY <2>1, FirstIsMember
  <1>3. settle_all \in Outcomes
    BY <1>1, <1>2 DEF settle_all
  <1>4. settle_race \in Outcomes
    BY <1>1, RaceWinnerType DEF settle_race, TypeOK
  <1>5. QED
    BY <1>3, <1>4 DEF Settlement

\* The values that Init, a wake and a crash reset the locals to.
LEMMA ResetTypes ==
    /\ NoOutcome \in Outcomes
    /\ AllPending \in [Ordinals -> ActivityTerminals \cup {"Pending"}]
    /\ NoRetained \in [Ordinals -> SUBSET {"Completed", "Failed"}]
    /\ <<>> \in Seq(Events)
  BY DEF NoOutcome, Outcome, Outcomes, AllPending, NoRetained

\* No step of the process, the workers, the timer or a crash leaves the types.
LEMMA TypeStep == TypeOK /\ [Next]_vars => TypeOK'
  <1> SUFFICES ASSUME TypeOK, [Next]_vars
               PROVE  TypeOK'
    OBVIOUS
  <1>a. /\ NoOutcome \in Outcomes
        /\ AllPending \in [Ordinals -> ActivityTerminals \cup {"Pending"}]
        /\ NoRetained \in [Ordinals -> SUBSET {"Completed", "Failed"}]
        /\ <<>> \in Seq(Events)
    BY ResetTypes
  <1>b. \A o \in Ordinals : \A type \in {"Completed", "Failed"} :
           RaceWon(o, type) \in Outcomes
    BY DEF RaceWon, Outcome, Outcomes, Ordinals
  <1>1. CASE Wake
    <2>1. segment \o ScheduledBatch \in Seq(Events)
      BY EventTypes, ConcatProperties DEF TypeOK
    <2>2. stale_members(pc = "call") \in SUBSET Ordinals
      BY DEF stale_members
    <2>3. segment' \in Seq(Events)
      BY <1>1, <2>1, Zenon DEF Wake, TypeOK
    <2>4. \/ outstanding' = outstanding \cup Ordinals
          \/ outstanding' = outstanding \cup stale_members(pc = "call")
      BY <1>1, Zenon DEF Wake
    <2>5. outstanding' \in SUBSET Ordinals
      BY <2>2, <2>4, Zenon DEF TypeOK
    <2>6. /\ states' \in [Ordinals -> ActivityTerminals \cup {"Pending"}]
          /\ verdict' \in Outcomes
          /\ mail' \in BOOLEAN
      BY <1>1, <1>a, Zenon DEF Wake
    <2>7. pos' \in 0 .. Count
      BY <1>1 DEF Wake
    <2>8. QED
      BY <1>1, <2>3, <2>5, <2>6, <2>7, Zenon DEF TypeOK, Wake
  <1>2. ASSUME NEW o \in Ordinals, TakeAndRecord(o) PROVE TypeOK'
    <2>1. Takeable(o) \in {"Completed", "Failed"} /\ Takeable(o) \in ActivityTerminals
      BY DEF Takeable, ActivityTerminals
    <2>2. segment' \in Seq(Events)
      <3>1. Append(segment, ActivityEvent(Takeable(o), o)) \in Seq(Events)
        BY <2>1, EventTypes, AppendProperties DEF TypeOK
      <3>2. QED
        BY <1>2, <3>1 DEF TakeAndRecord, record_fan_out_completion, TypeOK
    <2>3. states' \in [Ordinals -> ActivityTerminals \cup {"Pending"}]
      BY <1>2, <2>1 DEF TakeAndRecord, SweepAdvances, TypeOK
    <2>4. retained' \in [Ordinals -> SUBSET {"Completed", "Failed"}]
      BY <1>2 DEF TakeAndRecord, TypeOK
    <2>5. /\ pos' \in 0 .. Count
          /\ verdict' \in Outcomes
          /\ pc' \in {"call", "sweep", "settle", "abort", "parked", "returned"}
      BY <1>2, <1>b, <2>1 DEF TakeAndRecord, SweepVisits, SweepAdvances, TypeOK
    <2>6. QED
      BY <1>2, <2>2, <2>3, <2>4, <2>5 DEF TakeAndRecord, TypeOK
  <1>3. ASSUME NEW o \in Ordinals, SkipMember(o) PROVE TypeOK'
    <2>1. recorded_terminal(snapshot, o) \in ActivityTerminals \cup {"Pending"}
      BY PositionTypes DEF TypeOK
    <2>2. states' \in [Ordinals -> ActivityTerminals \cup {"Pending"}]
      BY <1>3, <2>1 DEF SkipMember, SweepAdvances, TypeOK
    <2>3. /\ pos' \in 0 .. Count
          /\ verdict' \in Outcomes
          /\ pc' \in {"call", "sweep", "settle", "abort", "parked", "returned"}
      BY <1>3, <1>b DEF SkipMember, SweepVisits, SweepAdvances, TypeOK
    <2>4. QED
      BY <1>3, <2>2, <2>3 DEF SkipMember, TypeOK
  <1>4. ASSUME NEW o \in Ordinals, RecordCancelled(o) PROVE TypeOK'
    <2>1. Append(segment, ActivityEvent("Cancelled", o)) \in Seq(Events)
      BY EventTypes, AppendProperties DEF TypeOK, ActivityTerminals
    <2>2. segment' \in Seq(Events)
      BY <1>4, <2>1 DEF RecordCancelled, TypeOK
    <2>3. retained' \in [Ordinals -> SUBSET {"Completed", "Failed"}]
      BY <1>4 DEF RecordCancelled, TypeOK
    <2>4. QED
      BY <1>4, <2>2, <2>3 DEF RecordCancelled, TypeOK
  <1>5. CASE Settle
    BY <1>5, SettlementType DEF Settle, TypeOK
  <1>6. CASE Return
    BY <1>6 DEF Return, TypeOK
  <1>7. ASSUME NEW o \in Ordinals, NEW type \in {"Completed", "Failed"},
               NEW last \in BOOLEAN, Deliver(o, type, last)
        PROVE  TypeOK'
    <2>1. retained' \in [Ordinals -> SUBSET {"Completed", "Failed"}]
      BY <1>7 DEF Deliver, TypeOK
    <2>2. mail' \in BOOLEAN
      BY <1>7, Zenon DEF Deliver, TypeOK
    <2>3. QED
      BY <1>7, <2>1, <2>2 DEF Deliver, TypeOK, locals
  <1>8. CASE TimerFires
    <2>1. Append(segment, TimerFiredEvent) \in Seq(Events)
      BY EventTypes, AppendProperties DEF TypeOK
    <2>2. QED
      BY <1>8, <2>1 DEF TimerFires, TypeOK, locals
  <1>9. CASE Crash
    <2>1. outstanding' \in SUBSET Ordinals
      BY <1>9, Zenon DEF Crash, TypeOK
    <2>2. crashes' \in 0 .. MaxCrashes
      BY <1>9 DEF Crash, TypeOK
    <2>3. pos' \in 0 .. Count
      BY <1>9 DEF Crash
    <2>4. QED
      BY <1>9, <1>a, <2>1, <2>2, <2>3, Zenon DEF Crash, TypeOK
  <1>10. CASE Restart
    BY <1>10 DEF Restart, TypeOK, locals
  <1>11. CASE UNCHANGED vars
    BY <1>11 DEF vars, TypeOK
  <1>12. QED
    BY <1>1, <1>2, <1>3, <1>4, <1>5, <1>6, <1>7, <1>8, <1>9, <1>10, <1>11
       DEF Next, Process

LEMMA TypeInit == Init => TypeOK
  <1>1. /\ 0 \in 0 .. Count
        /\ 0 \in 0 .. MaxCrashes
        /\ {} \in SUBSET Ordinals
        /\ {} \in SUBSET Outcomes
    OBVIOUS
  <1>2. QED
    BY <1>1, ResetTypes DEF Init, TypeOK

\* Collect keeps the types of its variables: in particular every event that
\* a crash, a race or a redelivery makes it record is well formed, and every
\* settlement is one of the results CollectStep can hand out.
THEOREM TypeCorrect == Spec => []TypeOK
  BY TypeInit, TypeStep, PTL DEF Spec

-----------------------------------------------------------------------------
(***************************************************************************)
(* At most one terminal per ordinal.  The recorder guards a completion by  *)
(* reading the history, but a cancellation is appended on the word of the  *)
(* sweep's state vector (All) or of the snapshot (Race), both older than   *)
(* the append.  The invariant says why that is enough: whatever was        *)
(* recorded since the snapshot was recorded by this very sweep, which has  *)
(* marked it in `states` or in `verdict`.                                  *)
(***************************************************************************)

\* An all-collect's sweep: behind pos the state vector accounts for every
\* recorded terminal, ahead of pos the snapshot does.
AllSweepAccounts ==
    Kind = "All" /\ pc = "sweep" =>
        \A o \in Ordinals : ResolvedIn(segment, o) =>
            IF o < pos THEN states[o] # "Pending" ELSE ResolvedIn(snapshot, o)

\* A race's sweep: the snapshot accounts for every recorded terminal but
\* that of the winner the sweep has just recorded.
RaceSweepAccounts ==
    Kind = "Race" /\ pc \in {"sweep", "settle"} =>
        \A o \in Ordinals : ResolvedIn(segment, o) =>
            \/ ResolvedIn(snapshot, o)
            \/ verdict # NoOutcome /\ verdict.winner = o

\* Only a race leaves its sweep early, and only with a winner.
SweepHasNoVerdict ==
    /\ pc = "sweep" => verdict = NoOutcome
    /\ pc = "settle" => Kind = "Race"

\* The cancellation loop only has open members left to cancel.
AbortCancelsOpen ==
    pc = "abort" =>
        \A o \in Ordinals : pos <= o /\ MustCancel(o) => ~ResolvedIn(segment, o)

IInv ==
    /\ TypeOK
    /\ AtMostOneTerminal
    /\ AllSweepAccounts
    /\ RaceSweepAccounts
    /\ SweepHasNoVerdict
    /\ AbortCancelsOpen

\* An append resolves the ordinal of the terminal it appends and no other.
LEMMA AppendResolved ==
    ASSUME NEW s \in Seq(Events), NEW e \in Events, NEW o \in Ordinals
    PROVE  ResolvedIn(Append(s, e), o) <=>
             ResolvedIn(s, o) \/ (e.ordinal = o /\ e.type \in ActivityTerminals)
  BY AppendTerminal DEF ResolvedIn

\* Staging a batch resolves nothing.
LEMMA ConcatResolved ==
    ASSUME NEW s \in Seq(Events), NEW o \in Ordinals
    PROVE  ResolvedIn(s \o ScheduledBatch, o) <=> ResolvedIn(s, o)
  BY ConcatTerminal DEF ResolvedIn

\* A terminal appended for an open ordinal is its only one.
LEMMA AppendKeepsOne ==
    ASSUME NEW s \in Seq(Events), NEW e \in Events,
           \A o \in Ordinals : \A i, j \in TerminalPositions(s, o) : i = j,
           e.type \in ActivityTerminals => ~ResolvedIn(s, e.ordinal)
    PROVE  \A o \in Ordinals :
              \A i, j \in TerminalPositions(Append(s, e), o) : i = j
  <1> SUFFICES ASSUME NEW o \in Ordinals
               PROVE  \A i, j \in TerminalPositions(Append(s, e), o) : i = j
    OBVIOUS
  <1>1. CASE e.ordinal = o /\ e.type \in ActivityTerminals
    <2>1. TerminalPositions(s, o) = {}
      BY <1>1 DEF ResolvedIn
    <2>2. TerminalPositions(Append(s, e), o) = {Len(s) + 1}
      BY <1>1, <2>1, AppendTerminal
    <2>3. QED
      BY <2>2
  <1>2. CASE ~(e.ordinal = o /\ e.type \in ActivityTerminals)
    <2>1. TerminalPositions(Append(s, e), o) = TerminalPositions(s, o)
      BY <1>2, AppendTerminal
    <2>2. QED
      BY <2>1
  <1>3. QED
    BY <1>1, <1>2

LEMMA IInvInit == Init => IInv
  <1> SUFFICES ASSUME Init PROVE IInv
    OBVIOUS
  <1>1. TypeOK
    BY TypeInit
  <1>2. AtMostOneTerminal
    <2>1. \A o \in Ordinals : TerminalPositions(segment, o) = {}
      BY EmptySeq DEF Init, TerminalPositions
    <2>2. QED
      BY <2>1 DEF AtMostOneTerminal
  <1>3. QED
    BY <1>1, <1>2 DEF Init, IInv, AllSweepAccounts, RaceSweepAccounts,
                      SweepHasNoVerdict, AbortCancelsOpen

\* A step that leaves the record and the locals alone leaves the rest of the
\* invariant alone.
LEMMA IInvFrame ==
    ASSUME IInv, TypeOK', UNCHANGED <<segment, pc, locals>>
    PROVE  IInv'
  BY DEF IInv, locals, AtMostOneTerminal, AllSweepAccounts, RaceSweepAccounts,
         SweepHasNoVerdict, AbortCancelsOpen, MustCancel

\* Entry of collect_step: the snapshot is the record, less the new batch.
LEMMA IInvWake ==
    ASSUME IInv, TypeOK', Wake
    PROVE  IInv'
  <1>1. segment' = segment \/ segment' = segment \o ScheduledBatch
    BY Zenon DEF Wake
  <1>2. \A o \in Ordinals : TerminalPositions(segment', o) = TerminalPositions(segment, o)
    BY <1>1, ConcatTerminal DEF IInv, TypeOK
  <1>3. \A o \in Ordinals : ResolvedIn(segment', o) <=> ResolvedIn(segment, o)
    BY <1>2, Zenon DEF ResolvedIn
  <1>4. AtMostOneTerminal'
    BY <1>2 DEF IInv, AtMostOneTerminal
  <1>5. snapshot' = segment /\ pc' = "sweep" /\ pos' = 0 /\ verdict' = NoOutcome
    BY Zenon DEF Wake
  <1>6. \A o \in Ordinals : ~(o < pos')
    BY <1>5 DEF Ordinals
  <1>7. QED
    BY <1>3, <1>4, <1>5, <1>6 DEF IInv, AllSweepAccounts, RaceSweepAccounts,
                                  SweepHasNoVerdict, AbortCancelsOpen

\* The sweep records a completion, guarded by the recorder's own read.
LEMMA IInvTake ==
    ASSUME IInv, TypeOK', NEW m \in Ordinals, TakeAndRecord(m)
    PROVE  IInv'
  <1> DEFINE type == Takeable(m)
             e == ActivityEvent(type, m)
  <1>1. type \in {"Completed", "Failed"} /\ type \in ActivityTerminals
    BY DEF Takeable, ActivityTerminals
  <1>2. e \in Events /\ e.ordinal = m /\ e.type = type
    BY <1>1, EventTypes DEF ActivityEvent
  <1>3. \/ segment' = segment
        \/ segment' = Append(segment, e) /\ ~ResolvedIn(segment, m)
    BY DEF TakeAndRecord, record_fan_out_completion, ordinal_is_resolved
  <1>4. segment \in Seq(Events)
    BY DEF IInv, TypeOK
  <1>5. AtMostOneTerminal'
    <2>1. CASE segment' = segment
      BY <2>1 DEF IInv, AtMostOneTerminal
    <2>2. CASE segment' = Append(segment, e) /\ ~ResolvedIn(segment, m)
      <3>1. \A o \in Ordinals :
               \A i, j \in TerminalPositions(Append(segment, e), o) : i = j
        BY <1>2, <1>4, <2>2, AppendKeepsOne DEF IInv, AtMostOneTerminal
      <3>2. QED
        BY <2>2, <3>1 DEF AtMostOneTerminal
    <2>3. QED
      BY <1>3, <2>1, <2>2
  <1>6. \A o \in Ordinals : o # m /\ ResolvedIn(segment', o) => ResolvedIn(segment, o)
    BY <1>2, <1>3, <1>4, AppendResolved
  <1>7. pc = "sweep" /\ pos = m /\ snapshot' = snapshot /\ pos' = pos + 1
    BY DEF TakeAndRecord, SweepVisits, SweepAdvances
  <1>8. states' = [states EXCEPT ![m] = type]
    BY DEF TakeAndRecord, SweepAdvances
  <1>9. CASE Kind = "All"
    <2>1. pc' = "sweep" /\ verdict' = verdict
      BY <1>7, <1>9 DEF TakeAndRecord, SweepAdvances
    <2>2. ASSUME NEW o \in Ordinals, ResolvedIn(segment', o)
          PROVE  IF o < pos' THEN states'[o] # "Pending" ELSE ResolvedIn(snapshot', o)
      <3>1. CASE o = m
        BY <1>1, <1>7, <1>8, <3>1 DEF IInv, TypeOK, Ordinals
      <3>2. CASE o # m
        <4>1. IF o < pos THEN states[o] # "Pending" ELSE ResolvedIn(snapshot, o)
          BY <1>6, <1>7, <1>9, <2>2, <3>2 DEF IInv, AllSweepAccounts
        <4>2. states'[o] = states[o]
          BY <1>8, <3>2 DEF IInv, TypeOK
        <4>3. (o < pos') <=> (o < pos)
          BY <1>7, <3>2 DEF Ordinals
        <4>4. QED
          BY <1>7, <4>1, <4>2, <4>3
      <3>3. QED
        BY <3>1, <3>2
    <2>3. AllSweepAccounts'
      BY <2>2 DEF AllSweepAccounts
    <2>4. QED
      BY <1>5, <1>7, <1>9, <2>1, <2>3 DEF IInv, RaceSweepAccounts,
                                          SweepHasNoVerdict, AbortCancelsOpen
  <1>10. CASE Kind = "Race"
    <2>1. pc' = "settle" /\ verdict' = RaceWon(m, type)
      BY <1>1, <1>10 DEF TakeAndRecord, SweepAdvances
    <2>2. verdict' # NoOutcome /\ verdict'.winner = m
      BY <2>1 DEF RaceWon, NoOutcome, Outcome
    <2>3. \A o \in Ordinals : ResolvedIn(segment', o) =>
             ResolvedIn(snapshot', o) \/ (verdict' # NoOutcome /\ verdict'.winner = o)
      BY <1>6, <1>7, <1>10, <2>2 DEF IInv, RaceSweepAccounts, SweepHasNoVerdict
    <2>4. RaceSweepAccounts'
      BY <2>3 DEF RaceSweepAccounts
    <2>5. QED
      BY <1>5, <1>10, <2>1, <2>4 DEF IInv, AllSweepAccounts, SweepHasNoVerdict,
                                     AbortCancelsOpen
  <1>11. QED
    BY <1>9, <1>10

\* The sweep passes a member over: it copies the snapshot's verdict on it.
LEMMA IInvSkip ==
    ASSUME IInv, TypeOK', NEW m \in Ordinals, SkipMember(m)
    PROVE  IInv'
  <1> DEFINE type == recorded_terminal(snapshot, m)
  <1>1. segment' = segment /\ snapshot' = snapshot
    BY DEF SkipMember
  <1>2. ResolvedIn(snapshot, m) <=> type # "Pending"
    BY PositionTypes DEF IInv, TypeOK
  <1>3. pc = "sweep" /\ pos = m /\ pos' = pos + 1 /\ verdict = NoOutcome
    BY DEF SkipMember, SweepVisits, SweepAdvances, IInv, SweepHasNoVerdict
  <1>4. states' = [states EXCEPT ![m] = type]
    BY DEF SkipMember, SweepAdvances
  <1>5. AtMostOneTerminal'
    BY <1>1 DEF IInv, AtMostOneTerminal
  <1>6. CASE Kind = "All"
    <2>1. pc' = "sweep" /\ verdict' = verdict
      BY <1>3, <1>6 DEF SkipMember, SweepAdvances
    <2>2. ASSUME NEW o \in Ordinals, ResolvedIn(segment', o)
          PROVE  IF o < pos' THEN states'[o] # "Pending" ELSE ResolvedIn(snapshot', o)
      <3>1. IF o < pos THEN states[o] # "Pending" ELSE ResolvedIn(snapshot, o)
        BY <1>1, <1>3, <1>6, <2>2 DEF IInv, AllSweepAccounts
      <3>2. CASE o = m
        <4>1. states'[o] = type
          BY <1>4, <3>2 DEF IInv, TypeOK
        <4>2. ResolvedIn(snapshot, m) /\ o < pos'
          BY <1>3, <3>1, <3>2 DEF Ordinals
        <4>3. QED
          BY <1>2, <4>1, <4>2
      <3>3. CASE o # m
        <4>1. states'[o] = states[o]
          BY <1>4, <3>3 DEF IInv, TypeOK
        <4>2. (o < pos') <=> (o < pos)
          BY <1>3, <3>3 DEF Ordinals
        <4>3. QED
          BY <1>1, <3>1, <4>1, <4>2
      <3>4. QED
        BY <3>2, <3>3
    <2>3. AllSweepAccounts'
      BY <2>2 DEF AllSweepAccounts
    <2>4. QED
      BY <1>3, <1>5, <1>6, <2>1, <2>3 DEF IInv, RaceSweepAccounts,
                                          SweepHasNoVerdict, AbortCancelsOpen
  <1>7. CASE Kind = "Race"
    <2>1. \/ pc' = "sweep" /\ verdict' = NoOutcome
          \/ pc' = "settle"
      BY <1>3 DEF SkipMember, SweepAdvances
    <2>2. \A o \in Ordinals : ResolvedIn(segment', o) => ResolvedIn(snapshot', o)
      BY <1>1, <1>3, <1>7 DEF IInv, RaceSweepAccounts
    <2>3. QED
      BY <1>5, <1>7, <2>1, <2>2 DEF IInv, AllSweepAccounts, RaceSweepAccounts,
                                    SweepHasNoVerdict, AbortCancelsOpen
  <1>8. QED
    BY <1>6, <1>7

\* Settling turns what the sweep accounts for into what may be cancelled.
LEMMA IInvSettle ==
    ASSUME IInv, TypeOK', Settle
    PROVE  IInv'
  <1>1. /\ UNCHANGED <<segment, snapshot, states>>
        /\ verdict' = Settlement
        /\ pc' \in {"parked", "abort"}
    BY DEF Settle
  <1>2. ASSUME NEW o \in Ordinals, MustCancel(o)', ResolvedIn(segment, o)
        PROVE  FALSE
    <2>1. CASE Kind = "All"
      <3>1. pc = "sweep" /\ pos = Count
        BY <2>1 DEF Settle, SweepOver, IInv, SweepHasNoVerdict
      <3>2. states[o] # "Pending"
        BY <1>2, <2>1, <3>1 DEF IInv, AllSweepAccounts, Ordinals
      <3>3. QED
        BY <1>1, <1>2, <2>1, <3>2 DEF MustCancel
    <2>2. CASE Kind = "Race"
      <3>1. pc \in {"sweep", "settle"}
        BY DEF Settle, SweepOver
      <3>2. \/ ResolvedIn(snapshot, o)
            \/ verdict # NoOutcome /\ verdict.winner = o
        BY <1>2, <2>2, <3>1 DEF IInv, RaceSweepAccounts
      <3>3. verdict # NoOutcome => verdict' = verdict
        BY <1>1, <2>2 DEF Settlement, settle_race
      <3>4. QED
        BY <1>1, <1>2, <2>2, <3>2, <3>3 DEF MustCancel
    <2>3. QED
      BY <2>1, <2>2
  <1>3. AbortCancelsOpen'
    BY <1>1, <1>2 DEF AbortCancelsOpen
  <1>4. QED
    BY <1>1, <1>3 DEF IInv, AtMostOneTerminal, AllSweepAccounts,
                      RaceSweepAccounts, SweepHasNoVerdict

\* A cancellation closes the member at pos, which the loop then leaves.
LEMMA IInvCancel ==
    ASSUME IInv, TypeOK', NEW m \in Ordinals, RecordCancelled(m)
    PROVE  IInv'
  <1> DEFINE e == ActivityEvent("Cancelled", m)
  <1>1. e \in Events /\ e.ordinal = m /\ e.type = "Cancelled"
    BY EventTypes DEF ActivityEvent, ActivityTerminals
  <1>2. /\ pc = "abort" /\ pc' = "abort" /\ pos = m /\ pos' = pos + 1
        /\ UNCHANGED <<snapshot, states, verdict>>
    BY DEF RecordCancelled
  <1>3. \/ segment' = segment
        \/ segment' = Append(segment, e) /\ MustCancel(m)
    BY DEF RecordCancelled
  <1>4. segment \in Seq(Events)
    BY DEF IInv, TypeOK
  <1>5. MustCancel(m) => ~ResolvedIn(segment, m)
    BY <1>2 DEF IInv, AbortCancelsOpen, Ordinals
  <1>6. AtMostOneTerminal'
    <2>1. CASE segment' = segment
      BY <2>1 DEF IInv, AtMostOneTerminal
    <2>2. CASE segment' = Append(segment, e) /\ MustCancel(m)
      <3>1. \A o \in Ordinals :
               \A i, j \in TerminalPositions(Append(segment, e), o) : i = j
        BY <1>1, <1>4, <1>5, <2>2, AppendKeepsOne DEF IInv, AtMostOneTerminal
      <3>2. QED
        BY <2>2, <3>1 DEF AtMostOneTerminal
    <2>3. QED
      BY <1>3, <2>1, <2>2
  <1>7. ASSUME NEW o \in Ordinals, pos' <= o, MustCancel(o)'
        PROVE  ~ResolvedIn(segment', o)
    <2>1. o # m /\ pos <= o
      BY <1>2, <1>7 DEF Ordinals
    <2>2. MustCancel(o)
      BY <1>2, <1>7 DEF MustCancel
    <2>3. ~ResolvedIn(segment, o)
      BY <1>2, <2>1, <2>2 DEF IInv, AbortCancelsOpen
    <2>4. QED
      BY <1>1, <1>3, <1>4, <2>1, <2>3, AppendResolved
  <1>8. AbortCancelsOpen'
    BY <1>7 DEF AbortCancelsOpen
  <1>9. QED
    BY <1>2, <1>6, <1>8 DEF IInv, AllSweepAccounts, RaceSweepAccounts,
                            SweepHasNoVerdict

\* A timer event is nobody's terminal.
LEMMA IInvTimer ==
    ASSUME IInv, TypeOK', TimerFires
    PROVE  IInv'
  <1>1. /\ segment' = Append(segment, TimerFiredEvent)
        /\ UNCHANGED <<pc, snapshot, pos, states, verdict>>
    BY DEF TimerFires, locals
  <1>2. segment \in Seq(Events) /\ TimerFiredEvent \in Events
    BY EventTypes DEF IInv, TypeOK
  <1>3. TimerFiredEvent.type \notin ActivityTerminals
    BY DEF TimerFiredEvent, ActivityTerminals
  <1>4. \A o \in Ordinals : TerminalPositions(segment', o) = TerminalPositions(segment, o)
    <2>1. ASSUME NEW o \in Ordinals
          PROVE  TerminalPositions(Append(segment, TimerFiredEvent), o) =
                   TerminalPositions(segment, o) \cup {}
      BY <1>2, <1>3, AppendTerminal, Zenon
    <2>2. QED
      BY <1>1, <2>1
  <1>5. \A o \in Ordinals : ResolvedIn(segment', o) <=> ResolvedIn(segment, o)
    BY <1>4, Zenon DEF ResolvedIn
  <1>6. AtMostOneTerminal'
    BY <1>4 DEF IInv, AtMostOneTerminal
  <1>7. \A o \in Ordinals : MustCancel(o)' <=> MustCancel(o)
    BY <1>1, Zenon DEF MustCancel
  <1>8. QED
    BY <1>1, <1>5, <1>6, <1>7 DEF IInv, AllSweepAccounts, RaceSweepAccounts,
                                  SweepHasNoVerdict, AbortCancelsOpen

LEMMA IInvStep == IInv /\ [Next]_vars => IInv'
  <1> SUFFICES ASSUME IInv, [Next]_vars
               PROVE  IInv'
    OBVIOUS
  <1>t. TypeOK'
    BY TypeStep DEF IInv
  <1>1. CASE Wake
    BY <1>t, <1>1, IInvWake
  <1>2. ASSUME NEW o \in Ordinals, TakeAndRecord(o) PROVE IInv'
    BY <1>t, <1>2, IInvTake
  <1>3. ASSUME NEW o \in Ordinals, SkipMember(o) PROVE IInv'
    BY <1>t, <1>3, IInvSkip
  <1>4. ASSUME NEW o \in Ordinals, RecordCancelled(o) PROVE IInv'
    BY <1>t, <1>4, IInvCancel
  <1>5. CASE Settle
    BY <1>t, <1>5, IInvSettle
  <1>6. CASE Return
    BY <1>t, <1>6 DEF Return, IInv, AtMostOneTerminal, AllSweepAccounts,
          RaceSweepAccounts, SweepHasNoVerdict, AbortCancelsOpen
  <1>7. ASSUME NEW o \in Ordinals, NEW type \in {"Completed", "Failed"},
               NEW last \in BOOLEAN, Deliver(o, type, last)
        PROVE  IInv'
    BY <1>t, <1>7, IInvFrame DEF Deliver, locals
  <1>8. CASE TimerFires
    BY <1>t, <1>8, IInvTimer
  <1>9. CASE Crash
    BY <1>t, <1>9 DEF Crash, IInv, AtMostOneTerminal, AllSweepAccounts,
          RaceSweepAccounts, SweepHasNoVerdict, AbortCancelsOpen
  <1>10. CASE Restart
    BY <1>t, <1>10, IInvFrame DEF Restart, locals
  <1>11. CASE UNCHANGED vars
    BY <1>t, <1>11, IInvFrame DEF vars, locals
  <1>12. QED
    BY <1>1, <1>2, <1>3, <1>4, <1>5, <1>6, <1>7, <1>8, <1>9, <1>10, <1>11
       DEF Next, Process

\* The exactly-once promise of the collect record: in every behaviour, with
\* any number of members, crashes and redeliveries, no ordinal of a run gets
\* a second terminal, although cancellations are appended unguarded on the
\* word of a snapshot older than the append.
THEOREM OneTerminalPerOrdinal == Spec => []AtMostOneTerminal
  <1>1. IInv => AtMostOneTerminal
    BY DEF IInv
  <1>2. QED
    BY <1>1, IInvInit, IInvStep, PTL DEF Spec

-----------------------------------------------------------------------------
(***************************************************************************)
(* A single winner of a race.  A race decides by its snapshot whether it   *)
(* may still record a winner.  The invariant says that the snapshot is     *)
(* never behind in this respect: a winner recorded after it was taken ends *)
(* the sweep.                                                              *)
(***************************************************************************)

\* During a race's sweep a recorded winner is in the snapshot.
SweepSeesWinner ==
    Kind = "Race" /\ pc = "sweep" =>
        (WinnerPositions(segment) # {} => WinnerPositions(snapshot) # {})

WInv == TypeOK /\ RaceHasOneWinner /\ SweepSeesWinner

\* An append adds a winner exactly if it appends an outcome.
LEMMA AppendWinner ==
    ASSUME NEW s \in Seq(Events), NEW e \in Events
    PROVE  WinnerPositions(Append(s, e)) =
             WinnerPositions(s) \cup
               (IF e.type \in {"Completed", "Failed"} THEN {Len(s) + 1} ELSE {})
  BY AppendProperties DEF WinnerPositions

\* Staging a batch adds no winner.
LEMMA ConcatWinner ==
    ASSUME NEW s \in Seq(Events)
    PROVE  WinnerPositions(s \o ScheduledBatch) = WinnerPositions(s)
  <1>1. /\ Len(s \o ScheduledBatch) = Len(s) + Count
        /\ Len(s) \in Nat
        /\ \A i \in 1 .. Len(s) + Count : (s \o ScheduledBatch)[i] =
              IF i <= Len(s) THEN s[i] ELSE ScheduledBatch[i - Len(s)]
    BY ConcatProperties, EventTypes, LenProperties
  <1>2. \A i \in Len(s) + 1 .. Len(s) + Count :
           (s \o ScheduledBatch)[i].type = "Scheduled"
    BY <1>1, EventTypes
  <1>3. QED
    BY <1>1, <1>2 DEF WinnerPositions

LEMMA WInvInit == Init => WInv
  <1> SUFFICES ASSUME Init PROVE WInv
    OBVIOUS
  <1>1. TypeOK
    BY TypeInit
  <1>2. WinnerPositions(segment) = {}
    BY EmptySeq DEF Init, WinnerPositions
  <1>3. QED
    BY <1>1, <1>2 DEF WInv, RaceHasOneWinner, SweepSeesWinner

\* A step that records no outcome and stays with its snapshot, or leaves the
\* sweep, keeps the invariant.
LEMMA WInvFrame ==
    ASSUME WInv, TypeOK',
           WinnerPositions(segment') = WinnerPositions(segment),
           pc' = "sweep" => pc = "sweep" /\ snapshot' = snapshot
    PROVE  WInv'
  BY DEF WInv, RaceHasOneWinner, SweepSeesWinner

LEMMA WInvStep == WInv /\ [Next]_vars => WInv'
  <1> SUFFICES ASSUME WInv, [Next]_vars
               PROVE  WInv'
    OBVIOUS
  <1>t. TypeOK'
    BY TypeStep DEF WInv
  <1>s. segment \in Seq(Events)
    BY DEF WInv, TypeOK
  <1>1. CASE Wake
    <2>1. segment' = segment \/ segment' = segment \o ScheduledBatch
      BY <1>1, Zenon DEF Wake
    <2>2. WinnerPositions(segment') = WinnerPositions(segment)
      BY <1>s, <2>1, ConcatWinner
    <2>3. snapshot' = segment
      BY <1>1 DEF Wake
    <2>4. QED
      BY <1>t, <2>2, <2>3 DEF WInv, RaceHasOneWinner, SweepSeesWinner
  <1>2. ASSUME NEW o \in Ordinals, TakeAndRecord(o) PROVE WInv'
    <2> DEFINE type == Takeable(o)
               e == ActivityEvent(type, o)
    <2>1. type \in {"Completed", "Failed"} /\ type \in ActivityTerminals
      BY DEF Takeable, ActivityTerminals
    <2>2. e \in Events /\ e.type = type
      BY <2>1, EventTypes DEF ActivityEvent
    <2>3. segment' = segment \/ segment' = Append(segment, e)
      BY <1>2 DEF TakeAndRecord, record_fan_out_completion
    <2>4. CASE Kind = "Race"
      <3>1. pc' = "settle"
        BY <1>2, <2>1, <2>4 DEF TakeAndRecord, SweepAdvances
      <3>2. WinnerPositions(segment) = {}
        BY <1>2, <2>4 DEF TakeAndRecord, SweepVisits, WInv, SweepSeesWinner
      <3>3. \/ WinnerPositions(segment') = {}
            \/ WinnerPositions(segment') = {Len(segment) + 1}
        BY <1>s, <2>1, <2>2, <2>3, <3>2, AppendWinner
      <3>4. QED
        BY <1>t, <3>1, <3>3 DEF WInv, RaceHasOneWinner, SweepSeesWinner
    <2>5. CASE Kind # "Race"
      BY <1>t, <2>5 DEF WInv, RaceHasOneWinner, SweepSeesWinner
    <2>6. QED
      BY <2>4, <2>5
  <1>3. ASSUME NEW o \in Ordinals, SkipMember(o) PROVE WInv'
    <2>1. segment' = segment /\ snapshot' = snapshot /\ pc = "sweep"
      BY <1>3 DEF SkipMember, SweepVisits
    <2>2. QED
      BY <1>t, <2>1, WInvFrame
  <1>4. ASSUME NEW o \in Ordinals, RecordCancelled(o) PROVE WInv'
    <2> DEFINE e == ActivityEvent("Cancelled", o)
    <2>1. e \in Events /\ e.type = "Cancelled"
      BY EventTypes DEF ActivityEvent, ActivityTerminals
    <2>2. segment' = segment \/ segment' = Append(segment, e)
      BY <1>4 DEF RecordCancelled
    <2>3. WinnerPositions(segment') = WinnerPositions(segment)
      BY <1>s, <2>1, <2>2, AppendWinner
    <2>4. pc' = "abort"
      BY <1>4 DEF RecordCancelled
    <2>5. QED
      BY <1>t, <2>3, <2>4, WInvFrame
  <1>5. CASE Settle \/ Return \/ Crash
    <2>1. segment' = segment /\ pc' # "sweep"
      BY <1>5 DEF Settle, Return, Crash
    <2>2. QED
      BY <1>t, <2>1, WInvFrame
  <1>6. CASE TimerFires
    <2>1. /\ segment' = Append(segment, TimerFiredEvent)
          /\ pc' = pc /\ snapshot' = snapshot
      BY <1>6 DEF TimerFires, locals
    <2>2. TimerFiredEvent \in Events /\ TimerFiredEvent.type = "TimerFired"
      BY EventTypes DEF TimerFiredEvent
    <2>3. WinnerPositions(segment') = WinnerPositions(segment)
      BY <1>s, <2>1, <2>2, AppendWinner
    <2>4. QED
      BY <1>t, <2>1, <2>3, WInvFrame
  <1>7. ASSUME \/ \E o \in Ordinals, type \in {"Completed", "Failed"},
                     last \in BOOLEAN : Deliver(o, type, last)
               \/ Restart
               \/ UNCHANGED vars
        PROVE  WInv'
    <2>1. segment' = segment /\ pc' = pc /\ snapshot' = snapshot
      BY <1>7 DEF Deliver, Restart, vars, locals
    <2>2. QED
      BY <1>t, <2>1, WInvFrame
  <1>8. QED
    BY <1>1, <1>2, <1>3, <1>4, <1>5, <1>6, <1>7 DEF Next, Process

\* settle_race for any number of members: a race never records a second
\* outcome, whatever is delivered while it settles and wherever it crashes.
THEOREM OneRaceWinner == Spec => []RaceHasOneWinner
  <1>1. WInv => RaceHasOneWinner
    BY DEF WInv
  <1>2. QED
    BY <1>1, WInvInit, WInvStep, PTL DEF Spec

-----------------------------------------------------------------------------
(***************************************************************************)
(* A complete record at return.  Needs Prior = {}: if an earlier run       *)
(* resolved an ordinal, the recorder drops the completion that the sweep   *)
(* has counted.  The invariant says that whatever the invocation relies on *)
(* (its snapshot, its state vector, its verdict) is in the record, so that *)
(* what the cancellation loop passes over is resolved.                     *)
(***************************************************************************)

SnapshotRecorded == \A o \in Ordinals : ResolvedIn(snapshot, o) => ResolvedIn(segment, o)

StatesRecorded == \A o \in Ordinals : states[o] # "Pending" => ResolvedIn(segment, o)

VerdictRecorded == \A o \in Ordinals : verdict.winner = o => ResolvedIn(segment, o)

AbortCloses ==
    pc = "abort" =>
        \A o \in Ordinals : o < pos \/ ~MustCancel(o) => ResolvedIn(segment, o)

RInv ==
    /\ TypeOK
    /\ SnapshotRecorded
    /\ StatesRecorded
    /\ VerdictRecorded
    /\ AbortCloses
    /\ ReturnedIsResolved

\* No step takes a terminal back.
LEMMA RecordGrows ==
    ASSUME TypeOK, [Next]_vars, NEW m \in Ordinals, ResolvedIn(segment, m)
    PROVE  ResolvedIn(segment', m)
  <1>s. segment \in Seq(Events)
    BY DEF TypeOK
  <1>1. ASSUME NEW e \in Events PROVE ResolvedIn(Append(segment, e), m)
    BY <1>s, AppendResolved
  <1>2. CASE Wake
    <2>1. segment' = segment \/ segment' = segment \o ScheduledBatch
      BY <1>2, Zenon DEF Wake
    <2>2. QED
      BY <1>s, <2>1, ConcatResolved
  <1>3. ASSUME NEW o \in Ordinals, TakeAndRecord(o) PROVE ResolvedIn(segment', m)
    <2>1. ActivityEvent(Takeable(o), o) \in Events
      BY EventTypes DEF Takeable, ActivityTerminals
    <2>2. \/ segment' = segment
          \/ segment' = Append(segment, ActivityEvent(Takeable(o), o))
      BY <1>3 DEF TakeAndRecord, record_fan_out_completion
    <2>3. QED
      BY <1>1, <2>1, <2>2
  <1>4. ASSUME NEW o \in Ordinals, RecordCancelled(o) PROVE ResolvedIn(segment', m)
    <2>1. ActivityEvent("Cancelled", o) \in Events
      BY EventTypes DEF ActivityTerminals
    <2>2. \/ segment' = segment
          \/ segment' = Append(segment, ActivityEvent("Cancelled", o))
      BY <1>4 DEF RecordCancelled
    <2>3. QED
      BY <1>1, <2>1, <2>2
  <1>5. CASE TimerFires
    BY <1>1, <1>5, EventTypes DEF TimerFires
  <1>6. ASSUME NEW o \in Ordinals, SkipMember(o) PROVE ResolvedIn(segment', m)
    BY <1>6 DEF SkipMember
  <1>7. ASSUME \/ Settle \/ Return \/ Crash \/ Restart \/ UNCHANGED vars
               \/ \E o \in Ordinals, type \in {"Completed", "Failed"},
                     last \in BOOLEAN : Deliver(o, type, last)
        PROVE  ResolvedIn(segment', m)
    <2>1. segment' = segment
      BY <1>7 DEF Settle, Return, Crash, Restart, vars, Deliver
    <2>2. QED
      BY <2>1
  <1>8. QED
    BY <1>2, <1>3, <1>4, <1>5, <1>6, <1>7 DEF Next, Process

LEMMA RInvInit == Init => RInv
  <1> SUFFICES ASSUME Init PROVE RInv
    OBVIOUS
  <1>1. TypeOK
    BY TypeInit
  <1>2. snapshot = segment /\ pc = "call"
    BY DEF Init
  <1>3. \A o \in Ordinals : states[o] = "Pending" /\ verdict.winner # o
    BY DEF Init, AllPending, NoOutcome, Outcome, Ordinals
  <1>4. QED
    BY <1>1, <1>2, <1>3 DEF RInv, SnapshotRecorded, StatesRecorded,
          VerdictRecorded, AbortCloses, ReturnedIsResolved

\* A step that leaves the locals alone.
LEMMA RInvFrame ==
    ASSUME RInv, TypeOK', UNCHANGED <<pc, locals>>,
           \A o \in Ordinals : ResolvedIn(segment, o) => ResolvedIn(segment', o)
    PROVE  RInv'
  <1>1. \A o \in Ordinals : MustCancel(o)' <=> MustCancel(o)
    BY Zenon DEF MustCancel, locals
  <1>2. QED
    BY <1>1 DEF RInv, locals, SnapshotRecorded, StatesRecorded, VerdictRecorded,
                AbortCloses, ReturnedIsResolved

\* The locals are reset: by a wake, whose snapshot is the record, or a crash.
LEMMA RInvReset ==
    ASSUME RInv, TypeOK', Wake \/ Crash,
           \A o \in Ordinals : ResolvedIn(segment, o) => ResolvedIn(segment', o)
    PROVE  RInv'
  <1>1. states' = AllPending /\ verdict' = NoOutcome /\ pc' \notin {"abort", "returned"}
    BY Zenon DEF Wake, Crash
  <1>2. \A o \in Ordinals : states'[o] = "Pending" /\ verdict'.winner # o
    BY <1>1 DEF AllPending, NoOutcome, Outcome, Ordinals
  <1>3. snapshot' = segment \/ snapshot' = <<>>
    BY Zenon DEF Wake, Crash
  <1>4. \A o \in Ordinals : ~ResolvedIn(<<>>, o)
    BY EmptySeq DEF ResolvedIn, TerminalPositions
  <1>5. SnapshotRecorded'
    BY <1>3, <1>4 DEF SnapshotRecorded
  <1>6. QED
    BY <1>1, <1>2, <1>5 DEF RInv, StatesRecorded, VerdictRecorded,
                            AbortCloses, ReturnedIsResolved

\* A turn of the sweep: what it marks in the state vector is in the record.
LEMMA RInvSweep ==
    ASSUME Prior = {}, RInv, TypeOK', NEW m \in Ordinals,
           TakeAndRecord(m) \/ SkipMember(m),
           \A o \in Ordinals : ResolvedIn(segment, o) => ResolvedIn(segment', o)
    PROVE  RInv'
  <1> DEFINE type == IF TakeAndRecord(m) THEN Takeable(m)
                     ELSE recorded_terminal(snapshot, m)
  <1>1. type # "Pending" => ResolvedIn(segment', m)
    <2>1. CASE TakeAndRecord(m)
      <3>1. ActivityEvent(Takeable(m), m) \in Events
        BY EventTypes DEF Takeable, ActivityTerminals
      <3>2. ResolvedIn(Append(segment, ActivityEvent(Takeable(m), m)), m)
        BY <3>1, AppendResolved DEF RInv, TypeOK, ActivityEvent, Takeable,
                                    ActivityTerminals
      <3>3. \/ segment' = Append(segment, ActivityEvent(Takeable(m), m))
            \/ ResolvedIn(segment, m)
        BY <2>1 DEF TakeAndRecord, record_fan_out_completion, ordinal_is_resolved
      <3>4. QED
        BY <3>2, <3>3
    <2>2. CASE ~TakeAndRecord(m)
      <3>1. type = recorded_terminal(snapshot, m)
        BY <2>2
      <3>2. type # "Pending" => ResolvedIn(snapshot, m)
        BY <3>1, PositionTypes DEF RInv, TypeOK
      <3>3. QED
        BY <3>2 DEF RInv, SnapshotRecorded
    <2>3. QED
      BY <2>1, <2>2
  <1>2. SweepAdvances(m, type) /\ snapshot' = snapshot /\ pc = "sweep"
    BY DEF TakeAndRecord, SkipMember, SweepVisits
  <1>3. \A o \in Ordinals : states'[o] # "Pending" => ResolvedIn(segment', o)
    BY <1>1, <1>2 DEF SweepAdvances, RInv, TypeOK, StatesRecorded
  <1>4. \/ verdict' = verdict
        \/ verdict'.winner = m /\ type # "Pending"
    BY <1>2 DEF SweepAdvances, RaceWon, Outcome
  <1>5. VerdictRecorded'
    BY <1>1, <1>4 DEF RInv, VerdictRecorded
  <1>6. pc' \in {"sweep", "settle"}
    BY <1>2 DEF SweepAdvances
  <1>7. QED
    BY <1>2, <1>3, <1>5, <1>6 DEF RInv, SnapshotRecorded, StatesRecorded,
                                  AbortCloses, ReturnedIsResolved

\* Settling: the member a result is about is in the record.
LEMMA RInvSettle ==
    ASSUME RInv, TypeOK', Settle
    PROVE  RInv'
  <1>1. /\ UNCHANGED <<segment, snapshot, states>>
        /\ verdict' = Settlement /\ pos' = 0 /\ pc' \in {"parked", "abort"}
    BY DEF Settle
  <1>2. ASSUME NEW o \in Ordinals, Settlement.winner = o PROVE ResolvedIn(segment, o)
    <2>0. o # Count
      BY DEF Ordinals
    <2>1. CASE Kind = "All"
      <3>1. Failures # {} /\ o = First(Failures)
        BY <1>2, <2>0, <2>1 DEF Settlement, settle_all, FailFast, AllCompleted,
                           ScopeExpired, NoOutcome, Outcome
      <3>2. Failures \in SUBSET Nat
        BY DEF Failures, Ordinals
      <3>3. o \in Failures
        BY <3>1, <3>2, FirstIsMember
      <3>4. QED
        BY <3>3 DEF Failures, RInv, StatesRecorded
    <2>2. CASE Kind = "Race"
      <3>1. \/ verdict.winner = o
            \/ WinnerPositions(snapshot) # {} /\ recorded_race_winner(snapshot).winner = o
        BY <1>2, <2>0, <2>2 DEF Settlement, settle_race, ScopeExpired, NoOutcome, Outcome
      <3>2. CASE verdict.winner = o
        BY <3>2 DEF RInv, VerdictRecorded
      <3>3. CASE WinnerPositions(snapshot) # {} /\ recorded_race_winner(snapshot).winner = o
        <4>1. WinnerPositions(snapshot) \in SUBSET Nat
          BY PositionTypes DEF RInv, TypeOK
        <4>2. First(WinnerPositions(snapshot)) \in WinnerPositions(snapshot)
          BY <3>3, <4>1, FirstIsMember
        <4>3. First(WinnerPositions(snapshot)) \in TerminalPositions(snapshot, o)
          BY <3>3, <4>2 DEF recorded_race_winner, RaceWon, Outcome, WinnerPositions,
                            TerminalPositions, ActivityTerminals
        <4>4. QED
          BY <4>3 DEF ResolvedIn, RInv, SnapshotRecorded
      <3>4. QED
        BY <3>1, <3>2, <3>3
    <2>3. QED
      BY <2>1, <2>2
  <1>3. VerdictRecorded'
    BY <1>1, <1>2 DEF VerdictRecorded
  <1>4. AbortCloses'
    <2>1. SUFFICES ASSUME NEW o \in Ordinals, o < pos' \/ ~MustCancel(o)'
                   PROVE  ResolvedIn(segment', o)
      BY DEF AbortCloses
    <2>2. ~MustCancel(o)'
      BY <1>1, <2>1 DEF Ordinals
    <2>3. QED
      BY <1>1, <1>3, <2>2 DEF MustCancel, RInv, StatesRecorded, SnapshotRecorded,
                              VerdictRecorded
  <1>5. QED
    BY <1>1, <1>3, <1>4 DEF RInv, SnapshotRecorded, StatesRecorded,
                            ReturnedIsResolved

\* The cancellation loop leaves a resolved member behind.
LEMMA RInvCancel ==
    ASSUME RInv, TypeOK', NEW m \in Ordinals, RecordCancelled(m),
           \A o \in Ordinals : ResolvedIn(segment, o) => ResolvedIn(segment', o)
    PROVE  RInv'
  <1>1. /\ pc = "abort" /\ pc' = "abort" /\ pos = m /\ pos' = pos + 1
        /\ UNCHANGED <<snapshot, states, verdict>>
    BY DEF RecordCancelled
  <1>2. \A o \in Ordinals : MustCancel(o)' <=> MustCancel(o)
    BY <1>1, Zenon DEF MustCancel
  <1>3. ResolvedIn(segment', m)
    <2>1. CASE MustCancel(m)
      <3>1. ActivityEvent("Cancelled", m) \in Events
        BY EventTypes DEF ActivityTerminals
      <3>2. ResolvedIn(Append(segment, ActivityEvent("Cancelled", m)), m)
        BY <3>1, AppendResolved DEF RInv, TypeOK, ActivityEvent, ActivityTerminals
      <3>3. QED
        BY <2>1, <3>2 DEF RecordCancelled
    <2>2. CASE ~MustCancel(m)
      BY <1>1, <2>2 DEF RInv, AbortCloses
    <2>3. QED
      BY <2>1, <2>2
  <1>4. ASSUME NEW o \in Ordinals, o < pos' \/ ~MustCancel(o)'
        PROVE  ResolvedIn(segment', o)
    <2>1. o = m \/ o < pos \/ ~MustCancel(o)
      BY <1>1, <1>2, <1>4 DEF Ordinals
    <2>2. QED
      BY <1>1, <1>3, <2>1 DEF RInv, AbortCloses
  <1>5. AbortCloses'
    BY <1>4 DEF AbortCloses
  <1>6. QED
    BY <1>1, <1>5 DEF RInv, SnapshotRecorded, StatesRecorded, VerdictRecorded,
                      ReturnedIsResolved

LEMMA RInvStep ==
    ASSUME Prior = {}
    PROVE  RInv /\ [Next]_vars => RInv'
  <1> SUFFICES ASSUME RInv, [Next]_vars
               PROVE  RInv'
    OBVIOUS
  <1>t. TypeOK'
    BY TypeStep DEF RInv
  <1>g. \A o \in Ordinals : ResolvedIn(segment, o) => ResolvedIn(segment', o)
    BY RecordGrows DEF RInv
  <1>1. CASE Wake \/ Crash
    BY <1>t, <1>g, <1>1, RInvReset
  <1>2. ASSUME NEW o \in Ordinals, TakeAndRecord(o) \/ SkipMember(o) PROVE RInv'
    BY <1>t, <1>g, <1>2, RInvSweep
  <1>3. ASSUME NEW o \in Ordinals, RecordCancelled(o) PROVE RInv'
    BY <1>t, <1>g, <1>3, RInvCancel
  <1>4. CASE Settle
    BY <1>t, <1>4, RInvSettle
  <1>5. CASE Return
    <2>1. /\ UNCHANGED <<segment, snapshot, states, verdict>>
          /\ pc = "abort" /\ pc' = "returned" /\ pos = Count
      BY <1>5 DEF Return
    <2>2. \A o \in Ordinals : o < pos
      BY <2>1 DEF Ordinals
    <2>3. QED
      BY <1>t, <2>1, <2>2 DEF RInv, SnapshotRecorded, StatesRecorded,
            VerdictRecorded, AbortCloses, ReturnedIsResolved
  <1>6. ASSUME \/ TimerFires \/ Restart \/ UNCHANGED vars
               \/ \E o \in Ordinals, type \in {"Completed", "Failed"},
                     last \in BOOLEAN : Deliver(o, type, last)
        PROVE  RInv'
    <2>1. UNCHANGED <<pc, locals>>
      BY <1>6 DEF TimerFires, Restart, vars, Deliver, locals
    <2>2. QED
      BY <1>t, <1>g, <2>1, RInvFrame
  <1>7. QED
    BY <1>1, <1>2, <1>3, <1>4, <1>5, <1>6 DEF Next, Process

\* A result is handed to workflow code only over a complete record, for any
\* number of members, if no ordinal was used by an earlier run.
THEOREM ReturnOverCompleteRecord ==
    ASSUME Prior = {}
    PROVE  Spec => []ReturnedIsResolved
  <1>1. RInv => ReturnedIsResolved
    BY DEF RInv
  <1>2. QED
    BY <1>1, RInvInit, RInvStep, PTL DEF Spec

-----------------------------------------------------------------------------
(***************************************************************************)
(* Replay of a collect, for any number of members and crashes: whatever    *)
(* result the call has once handed to workflow code, every replay hands it *)
(* out again.  As in ReturnOverCompleteRecord, no ordinal may have been    *)
(* resolved by an earlier run.                                             *)
(*                                                                         *)
(* The argument: a result is a function of the record (FinalResult), the   *)
(* record is complete when a result is handed out, and a complete record   *)
(* never gets another terminal.  The work is to show that the locals an    *)
(* invocation settles by, read at different times, agree with the record   *)
(* the moment the result is returned.                                      *)
(***************************************************************************)

(***************************************************************************)
(* The result of a record.                                                 *)
(***************************************************************************)

\* The result of an all-collect whose members ended as f says.
AllResult(f) ==
    LET failed == {o \in Ordinals : f[o] = "Failed"}
    IN  IF failed # {} THEN FailFast(First(failed))
        ELSE IF \A o \in Ordinals : f[o] = "Completed" THEN AllCompleted
        ELSE ScopeExpired

RaceResult(history) ==
    IF WinnerPositions(history) # {} THEN recorded_race_winner(history)
    ELSE ScopeExpired

Terminals(history) == [o \in Ordinals |-> recorded_terminal(history, o)]

FinalResult(history) ==
    IF Kind = "All" THEN AllResult(Terminals(history)) ELSE RaceResult(history)

\* t continues s.
Extended(s, t) == Len(s) <= Len(t) /\ \A i \in 1 .. Len(s) : t[i] = s[i]

LEMMA AppendExtended ==
    ASSUME NEW s \in Seq(Events), NEW e \in Events
    PROVE  Extended(s, Append(s, e))
  BY AppendProperties, LenProperties DEF Extended

LEMMA ConcatExtended ==
    ASSUME NEW s \in Seq(Events)
    PROVE  Extended(s, s \o ScheduledBatch)
  BY ConcatProperties, LenProperties, EventTypes DEF Extended

LEMMA ExtendedTransitive ==
    ASSUME NEW r \in Seq(Events), NEW s \in Seq(Events), NEW t \in Seq(Events),
           Extended(r, s), Extended(s, t)
    PROVE  Extended(r, t)
  <1>1. Len(r) \in Nat /\ Len(s) \in Nat /\ Len(t) \in Nat
    BY LenProperties
  <1>2. QED
    BY <1>1 DEF Extended

\* A continuation without a terminal of the ordinal has the same terminal.
LEMMA SameTerminal ==
    ASSUME NEW s \in Seq(Events), NEW t \in Seq(Events), NEW o \in Ordinals,
           Extended(s, t), TerminalPositions(t, o) = TerminalPositions(s, o)
    PROVE  recorded_terminal(t, o) = recorded_terminal(s, o)
  <1>1. CASE TerminalPositions(s, o) = {}
    BY <1>1 DEF recorded_terminal, ResolvedIn
  <1>2. CASE TerminalPositions(s, o) # {}
    <2>1. First(TerminalPositions(s, o)) \in TerminalPositions(s, o)
      BY <1>2, PositionTypes, FirstIsMember
    <2>2. First(TerminalPositions(s, o)) \in 1 .. Len(s)
      BY <2>1 DEF TerminalPositions
    <2>3. QED
      BY <1>2, <2>2 DEF recorded_terminal, ResolvedIn, Extended
  <1>3. QED
    BY <1>1, <1>2

\* If a record has one terminal per ordinal, what a prefix says of an
\* ordinal it has resolved still stands.
LEMMA PrefixTerminal ==
    ASSUME NEW s \in Seq(Events), NEW t \in Seq(Events), NEW o \in Ordinals,
           Extended(s, t), ResolvedIn(s, o),
           \A i, j \in TerminalPositions(t, o) : i = j
    PROVE  ResolvedIn(t, o) /\ recorded_terminal(t, o) = recorded_terminal(s, o)
  <1>1. TerminalPositions(s, o) \subseteq TerminalPositions(t, o)
    BY LenProperties DEF TerminalPositions, Extended
  <1>2. TerminalPositions(s, o) = TerminalPositions(t, o)
    BY <1>1 DEF ResolvedIn
  <1>3. QED
    BY <1>2, SameTerminal DEF ResolvedIn

\* A terminal appended for an open ordinal is the recorded one.
LEMMA AppendRecorded ==
    ASSUME NEW s \in Seq(Events), NEW e \in Events,
           e.type \in ActivityTerminals, ~ResolvedIn(s, e.ordinal)
    PROVE  recorded_terminal(Append(s, e), e.ordinal) = e.type
  <1>1. e.ordinal \in Ordinals
    BY DEF Events
  <1>2. TerminalPositions(s, e.ordinal) = {}
    BY DEF ResolvedIn
  <1>3. TerminalPositions(Append(s, e), e.ordinal) = {Len(s) + 1}
    BY <1>1, <1>2, AppendTerminal
  <1>4. First({Len(s) + 1}) = Len(s) + 1
    <2>1. {Len(s) + 1} \in SUBSET Nat /\ {Len(s) + 1} # {}
      BY LenProperties
    <2>2. First({Len(s) + 1}) \in {Len(s) + 1}
      BY <2>1, FirstIsMember, Zenon
    <2>3. QED
      BY <2>2
  <1>5. Append(s, e)[Len(s) + 1] = e
    BY AppendProperties
  <1>6. QED
    BY <1>3, <1>4, <1>5 DEF recorded_terminal, ResolvedIn

\* A terminal appended for one ordinal leaves the others alone.
LEMMA AppendOther ==
    ASSUME NEW s \in Seq(Events), NEW e \in Events, NEW o \in Ordinals,
           e.ordinal # o
    PROVE  recorded_terminal(Append(s, e), o) = recorded_terminal(s, o)
  <1>1. TerminalPositions(Append(s, e), o) = TerminalPositions(s, o)
    BY AppendTerminal
  <1>2. Append(s, e) \in Seq(Events)
    BY AppendProperties
  <1>3. QED
    BY <1>1, <1>2, AppendExtended, SameTerminal

\* A continuation without an outcome has the same race winner.
LEMMA SameWinner ==
    ASSUME NEW s \in Seq(Events), NEW t \in Seq(Events),
           Extended(s, t), WinnerPositions(t) = WinnerPositions(s)
    PROVE  /\ WinnerPositions(s) # {} =>
                recorded_race_winner(t) = recorded_race_winner(s)
           /\ RaceResult(t) = RaceResult(s)
  <1>1. ASSUME WinnerPositions(s) # {}
        PROVE  recorded_race_winner(t) = recorded_race_winner(s)
    <2>1. WinnerPositions(s) \in SUBSET Nat
      BY LenProperties DEF WinnerPositions
    <2>2. First(WinnerPositions(s)) \in WinnerPositions(s)
      BY <1>1, <2>1, FirstIsMember
    <2>3. First(WinnerPositions(s)) \in 1 .. Len(s)
      BY <2>2 DEF WinnerPositions
    <2>4. QED
      BY <2>3 DEF recorded_race_winner, Extended
  <1>2. QED
    BY <1>1 DEF RaceResult

\* A continuation without a terminal has the same result.
LEMMA SameResult ==
    ASSUME NEW s \in Seq(Events), NEW t \in Seq(Events), Extended(s, t),
           \A o \in Ordinals : TerminalPositions(t, o) = TerminalPositions(s, o),
           WinnerPositions(t) = WinnerPositions(s)
    PROVE  /\ \A o \in Ordinals : recorded_terminal(t, o) = recorded_terminal(s, o)
           /\ FinalResult(t) = FinalResult(s)
  <1>1. \A o \in Ordinals : recorded_terminal(t, o) = recorded_terminal(s, o)
    BY SameTerminal
  <1>2. Terminals(t) = Terminals(s)
    BY <1>1 DEF Terminals
  <1>3. QED
    BY <1>1, <1>2, SameWinner DEF FinalResult

-----------------------------------------------------------------------------
(***************************************************************************)
(* The invariant: the locals agree with the record.                        *)
(***************************************************************************)

SnapshotAgrees == Extended(snapshot, segment)

StatesAgree ==
    \A o \in Ordinals : states[o] # "Pending" => states[o] = recorded_terminal(segment, o)

\* An all-collect's verdict follows from its state vector; a member it has
\* not seen end is cancelled when the loop has passed it.
AllVerdictAgrees ==
    (Kind = "All" /\ pc = "abort") =>
        /\ verdict = AllResult(states)
        /\ \A o \in Ordinals : (o < pos /\ states[o] = "Pending") =>
              recorded_terminal(segment, o) = "Cancelled"

\* A race's verdict is the recorded winner.
RaceVerdictAgrees ==
    Kind = "Race" =>
        /\ pc = "settle" => /\ WinnerPositions(segment) # {}
                            /\ verdict = recorded_race_winner(segment)
        /\ pc = "abort" => verdict = RaceResult(segment)

\* What was handed out is the result of a complete record.
OutcomesAgree ==
    /\ outcomes # {} => \A o \in Ordinals : ResolvedIn(segment, o)
    /\ \A v \in outcomes : v = FinalResult(segment)

Agreement ==
    /\ SnapshotAgrees
    /\ StatesAgree
    /\ AllVerdictAgrees
    /\ RaceVerdictAgrees
    /\ OutcomesAgree

AInv == IInv /\ WInv /\ RInv /\ Agreement

\* The steps of the parts, under one roof.
LEMMA PartsStep ==
    ASSUME Prior = {}, AInv, [Next]_vars
    PROVE  /\ IInv' /\ WInv' /\ RInv'
           /\ segment \in Seq(Events) /\ segment' \in Seq(Events)
           /\ snapshot \in Seq(Events) /\ snapshot' \in Seq(Events)
  <1>1. IInv' /\ WInv' /\ RInv'
    BY IInvStep, WInvStep, RInvStep DEF AInv
  <1>2. QED
    BY <1>1 DEF AInv, IInv, TypeOK

\* A step that records no terminal keeps what was handed out valid.
LEMMA OutcomesKept ==
    ASSUME AInv, segment \in Seq(Events), segment' \in Seq(Events),
           Extended(segment, segment'), outcomes' = outcomes,
           \A o \in Ordinals : TerminalPositions(segment', o) = TerminalPositions(segment, o),
           WinnerPositions(segment') = WinnerPositions(segment)
    PROVE  /\ OutcomesAgree'
           /\ \A o \in Ordinals : recorded_terminal(segment', o) = recorded_terminal(segment, o)
           /\ WinnerPositions(segment) # {} =>
                 recorded_race_winner(segment') = recorded_race_winner(segment)
           /\ RaceResult(segment') = RaceResult(segment)
  <1>1. /\ \A o \in Ordinals : recorded_terminal(segment', o) = recorded_terminal(segment, o)
        /\ FinalResult(segment') = FinalResult(segment)
    BY SameResult
  <1>2. \A o \in Ordinals : ResolvedIn(segment', o) <=> ResolvedIn(segment, o)
    BY Zenon DEF ResolvedIn
  <1>3. OutcomesAgree'
    BY <1>1, <1>2 DEF AInv, Agreement, OutcomesAgree
  <1>4. QED
    BY <1>1, <1>3, SameWinner

\* The locals are left alone and no terminal is recorded: deliveries, the
\* timer, a restart.
LEMMA AgreementFrame ==
    ASSUME AInv, segment \in Seq(Events), segment' \in Seq(Events),
           snapshot \in Seq(Events), Extended(segment, segment'),
           UNCHANGED <<pc, locals, outcomes>>,
           \A o \in Ordinals : TerminalPositions(segment', o) = TerminalPositions(segment, o),
           WinnerPositions(segment') = WinnerPositions(segment)
    PROVE  Agreement'
  <1>1. /\ snapshot' = snapshot /\ states' = states /\ verdict' = verdict
        /\ pos' = pos /\ pc' = pc /\ outcomes' = outcomes
    BY DEF locals
  <1>2. SnapshotAgrees'
    BY <1>1, ExtendedTransitive DEF AInv, Agreement, SnapshotAgrees
  <1>3. /\ OutcomesAgree'
        /\ \A o \in Ordinals : recorded_terminal(segment', o) = recorded_terminal(segment, o)
        /\ WinnerPositions(segment) # {} =>
              recorded_race_winner(segment') = recorded_race_winner(segment)
        /\ RaceResult(segment') = RaceResult(segment)
    BY <1>1, OutcomesKept
  <1>4. StatesAgree'
    BY <1>1, <1>3 DEF AInv, Agreement, StatesAgree
  <1>5. AllVerdictAgrees'
    BY <1>1, <1>3 DEF AInv, Agreement, AllVerdictAgrees
  <1>6. RaceVerdictAgrees'
    BY <1>1, <1>3 DEF AInv, Agreement, RaceVerdictAgrees
  <1>7. QED
    BY <1>2, <1>3, <1>4, <1>5, <1>6 DEF Agreement

LEMMA AgreementTimer ==
    ASSUME AInv, TimerFires, segment \in Seq(Events), segment' \in Seq(Events),
           snapshot \in Seq(Events)
    PROVE  Agreement'
  <1>1. segment' = Append(segment, TimerFiredEvent) /\ UNCHANGED <<pc, locals, outcomes>>
    BY DEF TimerFires
  <1>2. TimerFiredEvent \in Events
    BY EventTypes
  <1>3. TimerFiredEvent.type \notin ActivityTerminals
    BY DEF TimerFiredEvent, ActivityTerminals
  <1>4. ASSUME NEW o \in Ordinals
        PROVE  TerminalPositions(segment', o) = TerminalPositions(segment, o)
    <2>1. TerminalPositions(Append(segment, TimerFiredEvent), o) =
             TerminalPositions(segment, o) \cup {}
      BY <1>2, <1>3, AppendTerminal, Zenon
    <2>2. QED
      BY <1>1, <2>1
  <1>5. WinnerPositions(segment') = WinnerPositions(segment)
    <2>1. TimerFiredEvent.type = "TimerFired"
      BY DEF TimerFiredEvent
    <2>2. TimerFiredEvent.type \notin {"Completed", "Failed"}
      BY <2>1
    <2>3. WinnerPositions(Append(segment, TimerFiredEvent)) =
             WinnerPositions(segment) \cup {}
      BY <1>2, <2>2, AppendWinner, Zenon
    <2>4. QED
      BY <1>1, <2>3
  <1>6. QED
    BY <1>1, <1>2, <1>4, <1>5, AppendExtended, AgreementFrame

\* A wake or a crash resets the locals.
LEMMA AgreementReset ==
    ASSUME AInv, Wake \/ Crash, segment \in Seq(Events), segment' \in Seq(Events)
    PROVE  Agreement'
  <1>1. /\ states' = AllPending /\ pc' \in {"call", "sweep"} /\ outcomes' = outcomes
        /\ snapshot' = segment \/ (snapshot' = <<>> /\ segment' = segment)
        /\ segment' = segment \/ segment' = segment \o ScheduledBatch
    BY Zenon DEF Wake, Crash
  <1>2. Extended(segment, segment)
    BY LenProperties DEF Extended
  <1>3. Extended(segment, segment')
    BY <1>1, <1>2, ConcatExtended
  <1>4. Extended(<<>>, segment)
    BY LenProperties, EmptySeq DEF Extended
  <1>5. SnapshotAgrees'
    BY <1>1, <1>3, <1>4 DEF SnapshotAgrees
  <1>6. StatesAgree'
    BY <1>1 DEF StatesAgree, AllPending
  <1>7. OutcomesAgree'
    BY <1>1, <1>3, ConcatTerminal, ConcatWinner, OutcomesKept
  <1>8. QED
    BY <1>1, <1>5, <1>6, <1>7 DEF Agreement, AllVerdictAgrees, RaceVerdictAgrees

\* The sweep takes a completion.  Its ordinal is open: the sweep accounts for
\* every terminal recorded since the snapshot.
LEMMA AgreementTake ==
    ASSUME Prior = {}, AInv, IInv', NEW m \in Ordinals, TakeAndRecord(m),
           segment \in Seq(Events), segment' \in Seq(Events), snapshot \in Seq(Events)
    PROVE  Agreement'
  <1> DEFINE type == Takeable(m)
             e == ActivityEvent(type, m)
  <1>1. type \in {"Completed", "Failed"} /\ type \in ActivityTerminals
    BY DEF Takeable, ActivityTerminals
  <1>2. e \in Events /\ e.ordinal = m /\ e.type = type
    BY <1>1, EventTypes DEF ActivityEvent
  <1>3. /\ pc = "sweep" /\ pos = m /\ pos < Count /\ ~ResolvedIn(snapshot, m)
        /\ snapshot' = snapshot /\ outcomes' = outcomes
        /\ states' = [states EXCEPT ![m] = type]
    BY DEF TakeAndRecord, SweepVisits, SweepAdvances
  <1>4. ~ResolvedIn(segment, m)
    <2>1. CASE Kind = "All"
      BY <1>3, <2>1 DEF AInv, IInv, AllSweepAccounts, Ordinals
    <2>2. CASE Kind = "Race"
      BY <1>3, <2>2 DEF AInv, IInv, RaceSweepAccounts, SweepHasNoVerdict
    <2>3. QED
      BY <2>1, <2>2
  <1>5. segment' = Append(segment, e)
    BY <1>4 DEF TakeAndRecord, record_fan_out_completion, ordinal_is_resolved
  <1>6. SnapshotAgrees'
    BY <1>2, <1>3, <1>5, AppendExtended, ExtendedTransitive
       DEF AInv, Agreement, SnapshotAgrees
  <1>7. recorded_terminal(segment', m) = type
    BY <1>1, <1>2, <1>4, <1>5, AppendRecorded
  <1>8. \A o \in Ordinals : o # m =>
           recorded_terminal(segment', o) = recorded_terminal(segment, o)
    BY <1>2, <1>5, AppendOther
  <1>9. StatesAgree'
    BY <1>3, <1>7, <1>8 DEF AInv, IInv, TypeOK, Agreement, StatesAgree
  <1>10. outcomes' = {}
    BY <1>3, <1>4 DEF AInv, Agreement, OutcomesAgree
  <1>11. CASE Kind = "All"
    <2>1. pc' = "sweep"
      BY <1>3, <1>11 DEF TakeAndRecord, SweepAdvances
    <2>2. QED
      BY <1>6, <1>9, <1>10, <1>11, <2>1
         DEF Agreement, AllVerdictAgrees, RaceVerdictAgrees, OutcomesAgree
  <1>12. CASE Kind = "Race"
    <2>1. pc' = "settle" /\ verdict' = RaceWon(m, type)
      BY <1>1, <1>12 DEF TakeAndRecord, SweepAdvances
    <2>2. WinnerPositions(segment) = {}
      BY <1>12 DEF TakeAndRecord, SweepVisits, AInv, WInv, SweepSeesWinner
    <2>3. WinnerPositions(segment') = {Len(segment) + 1}
      <3>1. WinnerPositions(Append(segment, e)) =
               WinnerPositions(segment) \cup {Len(segment) + 1}
        <4>1. e \in Events /\ e.type \in {"Completed", "Failed"}
          BY <1>1, <1>2
        <4> HIDE DEF e
        <4>2. QED
          BY <4>1, AppendWinner, Zenon
      <3>2. QED
        BY <1>5, <2>2, <3>1
    <2>4. First({Len(segment) + 1}) = Len(segment) + 1
      <3>1. {Len(segment) + 1} \in SUBSET Nat /\ {Len(segment) + 1} # {}
        BY LenProperties
      <3>2. First({Len(segment) + 1}) \in {Len(segment) + 1}
        BY <3>1, FirstIsMember, Zenon
      <3>3. QED
        BY <3>2
    <2>5. segment'[Len(segment) + 1] = e
      BY <1>5, AppendProperties
    <2>6. recorded_race_winner(segment') = RaceWon(m, type)
      BY <1>2, <2>3, <2>4, <2>5 DEF recorded_race_winner
    <2>7. QED
      BY <1>6, <1>9, <1>10, <1>12, <2>1, <2>3, <2>6
         DEF Agreement, AllVerdictAgrees, RaceVerdictAgrees, OutcomesAgree
  <1>13. QED
    BY <1>11, <1>12

\* The sweep passes a member: what the snapshot says of it still stands.
LEMMA AgreementSkip ==
    ASSUME AInv, NEW m \in Ordinals, SkipMember(m),
           segment \in Seq(Events), snapshot \in Seq(Events)
    PROVE  Agreement'
  <1> DEFINE type == recorded_terminal(snapshot, m)
  <1>1. /\ pc = "sweep" /\ segment' = segment /\ snapshot' = snapshot
        /\ outcomes' = outcomes /\ states' = [states EXCEPT ![m] = type]
    BY DEF SkipMember, SweepVisits, SweepAdvances
  <1>2. type # "Pending" => type = recorded_terminal(segment, m)
    <2>1. ASSUME type # "Pending" PROVE type = recorded_terminal(segment, m)
      <3>1. ResolvedIn(snapshot, m)
        BY <2>1, PositionTypes
      <3>2. QED
        BY <3>1, PrefixTerminal DEF AInv, IInv, AtMostOneTerminal, Agreement,
                                    SnapshotAgrees
    <2>2. QED
      BY <2>1
  <1>3. StatesAgree'
    BY <1>1, <1>2 DEF AInv, IInv, TypeOK, Agreement, StatesAgree
  <1>4. pc' = "sweep"
    <2>1. CASE Kind = "All"
      BY <1>1, <2>1 DEF SkipMember, SweepAdvances
    <2>2. CASE Kind = "Race"
      <3>1. WinnerPositions(snapshot) = {}
        BY <2>2 DEF SkipMember, SweepVisits
      <3>2. type \notin {"Completed", "Failed"}
        <4>1. SUFFICES ASSUME type \in {"Completed", "Failed"} PROVE FALSE
          OBVIOUS
        <4>2. ResolvedIn(snapshot, m)
          BY <4>1, PositionTypes
        <4>3. First(TerminalPositions(snapshot, m)) \in TerminalPositions(snapshot, m)
          BY <4>2, PositionTypes, FirstIsMember DEF ResolvedIn
        <4>4. First(TerminalPositions(snapshot, m)) \in WinnerPositions(snapshot)
          BY <4>1, <4>2, <4>3 DEF recorded_terminal, TerminalPositions, WinnerPositions
        <4>5. QED
          BY <3>1, <4>4
      <3>3. QED
        BY <1>1, <3>2 DEF SkipMember, SweepAdvances
    <2>3. QED
      BY <2>1, <2>2
  <1>5. QED
    BY <1>1, <1>3, <1>4 DEF AInv, Agreement, SnapshotAgrees, AllVerdictAgrees,
                            RaceVerdictAgrees, OutcomesAgree

\* Settling: the verdict is what the record will say.
LEMMA AgreementSettle ==
    ASSUME AInv, Settle, segment \in Seq(Events), snapshot \in Seq(Events)
    PROVE  Agreement'
  <1>1. /\ UNCHANGED <<segment, snapshot, states, outcomes>>
        /\ verdict' = Settlement /\ pos' = 0
        /\ pc' = IF Settlement = NoOutcome THEN "parked" ELSE "abort"
    BY DEF Settle
  <1>2. AllVerdictAgrees'
    <2>1. SUFFICES ASSUME Kind = "All", pc' = "abort"
                   PROVE  verdict' = AllResult(states)
      BY <1>1 DEF AllVerdictAgrees, Ordinals
    <2>2. settle_all # NoOutcome /\ verdict' = settle_all
      BY <1>1, <2>1 DEF Settlement
    <2>3. QED
      BY <2>2 DEF settle_all, AllResult, Failures
  <1>3. RaceVerdictAgrees'
    <2>1. SUFFICES ASSUME Kind = "Race", pc' = "abort"
                   PROVE  verdict' = RaceResult(segment)
      BY <1>1 DEF RaceVerdictAgrees
    <2>2. settle_race # NoOutcome /\ verdict' = settle_race
      BY <1>1, <2>1 DEF Settlement
    <2>3. CASE pc = "settle"
      <3>1. WinnerPositions(segment) # {} /\ verdict = recorded_race_winner(segment)
        BY <2>1, <2>3 DEF AInv, Agreement, RaceVerdictAgrees
      <3>2. verdict # NoOutcome
        BY <3>1 DEF recorded_race_winner, RaceWon, NoOutcome, Outcome
      <3>3. QED
        BY <2>2, <3>1, <3>2 DEF settle_race, RaceResult
    <2>4. CASE pc = "sweep"
      <3>1. verdict = NoOutcome
        BY <2>4 DEF AInv, IInv, SweepHasNoVerdict
      <3>2. CASE WinnerPositions(snapshot) # {}
        <4>1. WinnerPositions(snapshot) \subseteq WinnerPositions(segment)
          BY LenProperties DEF AInv, Agreement, SnapshotAgrees, Extended, WinnerPositions
        <4>2. WinnerPositions(segment) = WinnerPositions(snapshot)
          BY <2>1, <3>2, <4>1 DEF AInv, WInv, RaceHasOneWinner
        <4>3. recorded_race_winner(segment) = recorded_race_winner(snapshot)
          BY <3>2, <4>2, SameWinner DEF AInv, Agreement, SnapshotAgrees
        <4>4. QED
          BY <2>2, <3>1, <3>2, <4>2, <4>3 DEF settle_race, RaceResult
      <3>3. CASE WinnerPositions(snapshot) = {}
        <4>1. WinnerPositions(segment) = {}
          BY <2>1, <2>4, <3>3 DEF AInv, WInv, SweepSeesWinner
        <4>2. QED
          BY <2>2, <3>1, <3>3, <4>1 DEF settle_race, RaceResult
      <3>4. QED
        BY <3>2, <3>3
    <2>5. QED
      BY <2>3, <2>4 DEF Settle, SweepOver
  <1>4. QED
    BY <1>1, <1>2, <1>3 DEF AInv, Agreement, SnapshotAgrees, StatesAgree,
                            OutcomesAgree

\* A turn of the cancellation loop: an open member is cancelled, so nothing
\* has been handed out yet.
LEMMA AgreementCancel ==
    ASSUME AInv, NEW m \in Ordinals, RecordCancelled(m),
           segment \in Seq(Events), segment' \in Seq(Events), snapshot \in Seq(Events)
    PROVE  Agreement'
  <1> DEFINE e == ActivityEvent("Cancelled", m)
  <1>1. e \in Events /\ e.ordinal = m /\ e.type = "Cancelled"
    BY EventTypes DEF ActivityEvent, ActivityTerminals
  <1>2. /\ pc = "abort" /\ pc' = "abort" /\ pos = m /\ pos' = pos + 1
        /\ UNCHANGED <<snapshot, states, verdict, outcomes>>
    BY DEF RecordCancelled
  <1>3. CASE MustCancel(m)
    <2>1. segment' = Append(segment, e)
      BY <1>3 DEF RecordCancelled
    <2>2. ~ResolvedIn(segment, m)
      BY <1>2, <1>3 DEF AInv, IInv, AbortCancelsOpen, Ordinals
    <2>3. recorded_terminal(segment', m) = "Cancelled"
      BY <1>1, <2>1, <2>2, AppendRecorded DEF ActivityTerminals
    <2>4. \A o \in Ordinals : o # m =>
             recorded_terminal(segment', o) = recorded_terminal(segment, o)
      BY <1>1, <2>1, AppendOther
    <2>5. Extended(segment, segment')
      BY <1>1, <2>1, AppendExtended
    <2>6. SnapshotAgrees'
      BY <1>2, <2>5, ExtendedTransitive DEF AInv, Agreement, SnapshotAgrees
    <2>7. states[m] = "Pending"
      BY <2>2 DEF AInv, RInv, StatesRecorded
    <2>8. StatesAgree'
      BY <1>2, <2>4, <2>7 DEF AInv, Agreement, StatesAgree
    <2>9. ASSUME NEW o \in Ordinals, Kind = "All", o < pos', states'[o] = "Pending"
          PROVE  recorded_terminal(segment', o) = "Cancelled"
      <3>1. CASE o = m
        BY <2>3, <3>1
      <3>2. CASE o # m
        <4>1. o < pos
          BY <1>2, <2>9, <3>2 DEF Ordinals
        <4>2. QED
          BY <1>2, <2>4, <2>9, <3>2, <4>1 DEF AInv, Agreement, AllVerdictAgrees
      <3>3. QED
        BY <3>1, <3>2
    <2>10. AllVerdictAgrees'
      BY <1>2, <2>9 DEF AInv, Agreement, AllVerdictAgrees
    <2>11. WinnerPositions(segment') = WinnerPositions(segment)
      BY <1>1, <2>1, AppendWinner
    <2>12. RaceVerdictAgrees'
      BY <1>2, <2>5, <2>11, SameWinner DEF AInv, Agreement, RaceVerdictAgrees
    <2>13. outcomes' = {}
      BY <1>2, <2>2 DEF AInv, Agreement, OutcomesAgree
    <2>14. QED
      BY <2>6, <2>8, <2>10, <2>12, <2>13 DEF Agreement, OutcomesAgree
  <1>4. CASE ~MustCancel(m)
    <2>1. segment' = segment
      BY <1>4 DEF RecordCancelled
    <2>2. ASSUME NEW o \in Ordinals, Kind = "All", o < pos', states'[o] = "Pending"
          PROVE  recorded_terminal(segment', o) = "Cancelled"
      <3>1. o # m
        BY <1>2, <1>4, <2>2 DEF MustCancel
      <3>2. o < pos
        BY <1>2, <2>2, <3>1 DEF Ordinals
      <3>3. QED
        BY <1>2, <2>1, <2>2, <3>2 DEF AInv, Agreement, AllVerdictAgrees
    <2>3. AllVerdictAgrees'
      BY <1>2, <2>2 DEF AInv, Agreement, AllVerdictAgrees
    <2>4. QED
      BY <1>2, <2>1, <2>3 DEF AInv, Agreement, SnapshotAgrees, StatesAgree,
                              RaceVerdictAgrees, OutcomesAgree
  <1>5. QED
    BY <1>3, <1>4

\* The verdict handed out is the result of the record.
LEMMA AgreementReturn ==
    ASSUME AInv, Return, segment \in Seq(Events)
    PROVE  Agreement'
  <1>1. /\ UNCHANGED <<segment, snapshot, states, verdict>>
        /\ pc = "abort" /\ pc' = "returned" /\ pos = Count
        /\ outcomes' = outcomes \cup {verdict}
    BY DEF Return
  <1>2. \A o \in Ordinals : o < pos
    BY <1>1 DEF Ordinals
  <1>3. \A o \in Ordinals : ResolvedIn(segment, o)
    BY <1>1, <1>2 DEF AInv, RInv, AbortCloses
  <1>4. verdict = FinalResult(segment)
    <2>1. CASE Kind = "All"
      <3>1. \A o \in Ordinals :
               recorded_terminal(segment, o) =
                 IF states[o] = "Pending" THEN "Cancelled" ELSE states[o]
        BY <1>1, <1>2, <2>1 DEF AInv, Agreement, StatesAgree, AllVerdictAgrees
      <3>2. \A o \in Ordinals :
               /\ Terminals(segment)[o] = "Failed" <=> states[o] = "Failed"
               /\ Terminals(segment)[o] = "Completed" <=> states[o] = "Completed"
        BY <3>1 DEF Terminals
      <3>3. {o \in Ordinals : Terminals(segment)[o] = "Failed"} =
               {o \in Ordinals : states[o] = "Failed"}
        BY <3>2
      <3>4. AllResult(Terminals(segment)) = AllResult(states)
        BY <3>2, <3>3 DEF AllResult
      <3>5. QED
        BY <1>1, <2>1, <3>4 DEF AInv, Agreement, AllVerdictAgrees, FinalResult
    <2>2. CASE Kind = "Race"
      BY <1>1, <2>2 DEF AInv, Agreement, RaceVerdictAgrees, FinalResult
    <2>3. QED
      BY <2>1, <2>2
  <1>5. OutcomesAgree'
    BY <1>1, <1>3, <1>4 DEF AInv, Agreement, OutcomesAgree
  <1>6. QED
    BY <1>1, <1>5 DEF AInv, Agreement, SnapshotAgrees, StatesAgree,
                      AllVerdictAgrees, RaceVerdictAgrees

LEMMA AInvInit == Init => AInv
  <1> SUFFICES ASSUME Init PROVE AInv
    OBVIOUS
  <1>1. IInv /\ WInv /\ RInv
    BY IInvInit, WInvInit, RInvInit
  <1>2. SnapshotAgrees
    BY EmptySeq DEF Init, SnapshotAgrees, Extended
  <1>3. StatesAgree /\ AllVerdictAgrees /\ RaceVerdictAgrees /\ OutcomesAgree
    BY DEF Init, AllPending, StatesAgree, AllVerdictAgrees, RaceVerdictAgrees,
           OutcomesAgree
  <1>4. QED
    BY <1>1, <1>2, <1>3 DEF AInv, Agreement

LEMMA AInvStep ==
    ASSUME Prior = {}
    PROVE  AInv /\ [Next]_vars => AInv'
  <1> SUFFICES ASSUME AInv, [Next]_vars
               PROVE  AInv'
    OBVIOUS
  <1>p. /\ IInv' /\ WInv' /\ RInv'
        /\ segment \in Seq(Events) /\ segment' \in Seq(Events)
        /\ snapshot \in Seq(Events) /\ snapshot' \in Seq(Events)
    BY PartsStep
  <1> SUFFICES Agreement'
    BY <1>p DEF AInv
  <1>1. CASE Wake \/ Crash
    BY <1>p, <1>1, AgreementReset
  <1>2. ASSUME NEW o \in Ordinals, TakeAndRecord(o) PROVE Agreement'
    BY <1>p, <1>2, AgreementTake
  <1>3. ASSUME NEW o \in Ordinals, SkipMember(o) PROVE Agreement'
    BY <1>p, <1>3, AgreementSkip
  <1>4. ASSUME NEW o \in Ordinals, RecordCancelled(o) PROVE Agreement'
    BY <1>p, <1>4, AgreementCancel
  <1>5. CASE Settle
    BY <1>p, <1>5, AgreementSettle
  <1>6. CASE Return
    BY <1>p, <1>6, AgreementReturn
  <1>7. CASE TimerFires
    BY <1>p, <1>7, AgreementTimer
  <1>8. ASSUME \/ Restart \/ UNCHANGED vars
               \/ \E o \in Ordinals, type \in {"Completed", "Failed"},
                     last \in BOOLEAN : Deliver(o, type, last)
        PROVE  Agreement'
    <2>1. segment' = segment /\ UNCHANGED <<pc, locals, outcomes>>
      BY <1>8 DEF Restart, vars, Deliver, locals
    <2>2. Extended(segment, segment)
      BY <1>p, LenProperties DEF Extended
    <2>3. QED
      BY <1>p, <2>1, <2>2, AgreementFrame
  <1>9. QED
    BY <1>1, <1>2, <1>3, <1>4, <1>5, <1>6, <1>7, <1>8 DEF Next, Process

\* "Replay never re-races": for any number of members and crashes, a collect
\* hands out one result, whichever invocation computes it, if no ordinal was
\* used by an earlier run.
THEOREM ReplayIsDeterministic ==
    ASSUME Prior = {}
    PROVE  Spec => []ReplayAgrees
  <1>1. AInv => ReplayAgrees
    BY DEF AInv, Agreement, OutcomesAgree, ReplayAgrees
  <1>2. QED
    BY <1>1, AInvInit, AInvStep, PTL DEF Spec

-----------------------------------------------------------------------------
(***************************************************************************)
(* Module Collect implements module FanOut, for either kind of collect,    *)
(* any number of members, any scope and any number of crashes, if no       *)
(* ordinal was resolved by an earlier run.                                 *)
(*                                                                         *)
(* The refinement mapping reads a member's abstract entry off the segment. *)
(* The invariant AInv says what the mapping needs: an append that carries  *)
(* a terminal meets an open ordinal, and a verdict is returned over a      *)
(* complete record and is the result of that record.                       *)
(***************************************************************************)

\* First picks the least member of a nonempty set of naturals.
LEMMA FirstIsLeast ==
    ASSUME NEW S \in SUBSET Nat, S # {}, NEW j \in S
    PROVE  First(S) <= j
  <1> DEFINE R == {p \in Nat \X Nat : p[1] < p[2]}
  <1>1. IsWellFoundedOn(R, Nat)
    BY NatLessThanWellFounded, Zenon DEF OpToRel
  <1>2. \E m \in S : \A k \in S : ~(<<k, m>> \in R)
    BY <1>1, WFMin, Zenon
  <1>3. PICK m \in S : \A k \in S : ~(<<k, m>> \in R)
    BY <1>2
  <1>4. ASSUME NEW k \in S PROVE m <= k
    <2>1. m \in Nat /\ k \in Nat
      OBVIOUS
    <2>2. <<k, m>> \in R <=> k < m
      BY <2>1
    <2>3. QED
      BY <1>3, <2>1, <2>2
  <1>5. \A k \in S : m <= k
    BY <1>4
  <1>6. QED
    BY <1>5 DEF First

-----------------------------------------------------------------------------
(***************************************************************************)
(* The result of a complete record is justified by it.                     *)
(***************************************************************************)

\* In a record with one terminal per ordinal, the terminal at a position is
\* the recorded one of its ordinal.
LEMMA TerminalAt ==
    ASSUME AtMostOneTerminal, segment \in Seq(Events), NEW o \in Ordinals,
           NEW i \in TerminalPositions(segment, o)
    PROVE  recorded_terminal(segment, o) = segment[i].type
  <1>1. First(TerminalPositions(segment, o)) \in TerminalPositions(segment, o)
    BY PositionTypes, FirstIsMember
  <1>2. First(TerminalPositions(segment, o)) = i
    BY <1>1 DEF AtMostOneTerminal
  <1>3. QED
    BY <1>2 DEF recorded_terminal, ResolvedIn

\* A complete record of a race: its winner alone was not cancelled.
LEMMA RaceJustified ==
    ASSUME AtMostOneTerminal, RaceHasOneWinner, Kind = "Race",
           segment \in Seq(Events), \A o \in Ordinals : ResolvedIn(segment, o)
    PROVE  Promise!Justified(RaceResult(segment))
  <1>1. \A o \in Ordinals :
           /\ Terminals(segment)[o] = recorded_terminal(segment, o)
           /\ recorded_terminal(segment, o) \in ActivityTerminals
    BY PositionTypes DEF Terminals
  <1>2. ASSUME NEW o \in Ordinals, recorded_terminal(segment, o) # "Cancelled"
        PROVE  \E i \in WinnerPositions(segment) : segment[i].ordinal = o
    <2>1. PICK i \in TerminalPositions(segment, o) : TRUE
      BY DEF ResolvedIn
    <2>2. segment[i].type = recorded_terminal(segment, o)
      BY TerminalAt
    <2>3. segment[i].type \in {"Completed", "Failed"}
      BY <1>1, <1>2, <2>2 DEF ActivityTerminals
    <2>4. QED
      BY <2>1, <2>3 DEF TerminalPositions, WinnerPositions
  <1>3. CASE WinnerPositions(segment) = {}
    <2>1. RaceResult(segment).step = "ScopeExpired"
      BY <1>3 DEF RaceResult, ScopeExpired, Outcome
    <2>2. \A o \in Ordinals : recorded_terminal(segment, o) = "Cancelled"
      BY <1>2, <1>3
    <2>3. QED
      BY <2>1, <2>2 DEF Promise!Justified
  <1>4. CASE WinnerPositions(segment) # {}
    <2>p. WinnerPositions(segment) \in SUBSET Nat
      BY LenProperties DEF WinnerPositions
    <2>1. PICK i : i = First(WinnerPositions(segment)) /\ i \in WinnerPositions(segment)
      BY <1>4, <2>p, FirstIsMember
    <2>2. i \in 1 .. Len(segment) /\ segment[i].type \in {"Completed", "Failed"}
      BY <2>1 DEF WinnerPositions
    <2>3. segment[i] \in Events
      BY <2>2, LenProperties
    <2>4. segment[i].ordinal \in Ordinals
      BY <2>3 DEF Events
    <2> DEFINE w == segment[i].ordinal
               r == RaceResult(segment)
    <2>5. i \in TerminalPositions(segment, w)
      BY <2>2 DEF TerminalPositions, ActivityTerminals
    <2>6. recorded_terminal(segment, w) = segment[i].type
      BY <2>4, <2>5, TerminalAt
    <2>7. r.step = "RaceWon" /\ r.winner = w /\ r.kind = segment[i].type
      BY <1>4, <2>1 DEF RaceResult, recorded_race_winner, RaceWon, Outcome
    <2>8. \A j \in WinnerPositions(segment) : j = i
      BY <2>1 DEF RaceHasOneWinner
    <2>9. \A n \in Ordinals \ {w} : recorded_terminal(segment, n) = "Cancelled"
      BY <1>2, <2>8
    <2>10. Promise!AloneIn(w)
      BY <2>9 DEF Promise!AloneIn
    <2>11. QED
      BY <2>2, <2>4, <2>6, <2>7, <2>10 DEF Promise!Justified
  <1>5. QED
    BY <1>3, <1>4

\* A complete record of an all-collect: its first failure, else success,
\* else an expired scope.
LEMMA AllJustified ==
    ASSUME Kind = "All", segment \in Seq(Events),
           \A o \in Ordinals : ResolvedIn(segment, o)
    PROVE  Promise!Justified(AllResult(Terminals(segment)))
  <1> DEFINE f == Terminals(segment)
             failed == {o \in Ordinals : f[o] = "Failed"}
  <1>1. \A o \in Ordinals :
           /\ f[o] = recorded_terminal(segment, o)
           /\ f[o] \in ActivityTerminals
    BY PositionTypes DEF Terminals
  <1>2. CASE failed # {}
    <2>1. failed \in SUBSET Nat
      BY DEF Ordinals
    <2>2. First(failed) \in failed
      BY <1>2, <2>1, FirstIsMember
    <2>3. \A o \in failed : First(failed) <= o
      BY <1>2, <2>1, FirstIsLeast
    <2>4. ASSUME NEW o \in Ordinals, o < First(failed)
          PROVE  recorded_terminal(segment, o) # "Failed"
      <3>1. o \in Nat /\ First(failed) \in Nat
        BY <2>2 DEF Ordinals
      <3>2. o \notin failed
        BY <2>3, <2>4, <3>1
      <3>3. QED
        BY <1>1, <3>2
    <2>5. AllResult(f).step = "FailFast" /\ AllResult(f).winner = First(failed)
      BY <1>2 DEF AllResult, FailFast, Outcome
    <2>6. recorded_terminal(segment, First(failed)) = "Failed"
      BY <1>1, <2>2
    <2>7. QED
      BY <2>2, <2>4, <2>5, <2>6 DEF Promise!Justified
  <1>3. CASE failed = {} /\ \A o \in Ordinals : f[o] = "Completed"
    <2>1. AllResult(f).step = "AllCompleted"
      BY <1>3 DEF AllResult, AllCompleted, Outcome
    <2>2. QED
      BY <1>1, <1>3, <2>1 DEF Promise!Justified
  <1>4. CASE failed = {} /\ ~\A o \in Ordinals : f[o] = "Completed"
    <2>1. AllResult(f).step = "ScopeExpired"
      BY <1>4 DEF AllResult, ScopeExpired, Outcome
    <2>2. \A o \in Ordinals : recorded_terminal(segment, o) # "Failed"
      BY <1>1, <1>4
    <2>3. \E o \in Ordinals : recorded_terminal(segment, o) = "Cancelled"
      BY <1>1, <1>4, <2>2 DEF ActivityTerminals
    <2>4. QED
      BY <2>1, <2>2, <2>3 DEF Promise!Justified
  <1>5. QED
    BY <1>2, <1>3, <1>4

-----------------------------------------------------------------------------
(***************************************************************************)
(* Steps.                                                                  *)
(***************************************************************************)

\* A step that appends no terminal and hands out nothing shows nothing.
LEMMA HiddenStep ==
    ASSUME segment \in Seq(Events), segment' \in Seq(Events),
           Extended(segment, segment'), outcomes' = outcomes,
           \A o \in Ordinals :
              TerminalPositions(segment', o) = TerminalPositions(segment, o)
    PROVE  UNCHANGED Promise!vars
  <1>1. \A o \in Ordinals : recorded_terminal(segment', o) = recorded_terminal(segment, o)
    BY SameTerminal
  <1>2. QED
    BY <1>1 DEF Promise!vars

\* A terminal appended to an open ordinal resolves its member.
LEMMA ResolvingStep ==
    ASSUME segment \in Seq(Events), NEW o \in Ordinals, NEW type \in ActivityTerminals,
           ~ResolvedIn(segment, o), outcomes' = outcomes,
           segment' = Append(segment, ActivityEvent(type, o))
    PROVE  Promise!Next
  <1> DEFINE e == ActivityEvent(type, o)
  <1>1. e \in Events /\ e.ordinal = o /\ e.type = type
    BY EventTypes DEF ActivityEvent
  <1>2. recorded_terminal(segment', o) = type
    BY <1>1, AppendRecorded
  <1>3. \A m \in Ordinals : m # o =>
           recorded_terminal(segment', m) = recorded_terminal(segment, m)
    BY <1>1, AppendOther
  <1>4. recorded_terminal(segment, o) = "Pending"
    BY DEF recorded_terminal
  <1>5. Promise!Resolve(o, type)
    BY <1>2, <1>3, <1>4 DEF Promise!Resolve
  <1>6. QED
    BY <1>5 DEF Promise!Next, Promise!Resolutions, ActivityTerminals

\* The first return hands out the result of the record, a later one repeats it.
LEMMA ReturnStep ==
    ASSUME Prior = {}, AInv, Return
    PROVE  [Promise!Next]_(Promise!vars)
  <1>1. AInv'
    BY AInvStep DEF Next, Process
  <1>2. /\ segment' = segment
        /\ outcomes' = outcomes \cup {verdict}
        /\ segment \in Seq(Events) /\ verdict \in Outcomes
    BY DEF Return, AInv, IInv, TypeOK
  <1>3. /\ \A o \in Ordinals : ResolvedIn(segment, o)
        /\ \A v \in outcomes' : v = FinalResult(segment)
    BY <1>1, <1>2 DEF AInv, Agreement, OutcomesAgree
  <1>4. CASE outcomes # {}
    <2>1. outcomes' = outcomes
      BY <1>2, <1>3, <1>4
    <2>2. QED
      BY <1>2, <2>1 DEF Promise!vars
  <1>5. CASE outcomes = {}
    <2>1. verdict = FinalResult(segment) /\ outcomes' = {verdict}
      BY <1>2, <1>3, <1>5
    <2>2. Promise!Justified(verdict)
      <3>1. CASE Kind = "All"
        BY <1>2, <1>3, <2>1, <3>1, AllJustified DEF FinalResult
      <3>2. CASE Kind = "Race"
        BY <1>2, <1>3, <2>1, <3>2, RaceJustified
           DEF FinalResult, AInv, IInv, WInv
      <3>3. QED
        BY <3>1, <3>2
    <2>3. Promise!Resolved
      BY <1>2, <1>3, PositionTypes DEF Promise!Resolved
    <2>4. Promise!HandOut(verdict)
      BY <1>2, <1>5, <2>1, <2>2, <2>3 DEF Promise!HandOut
    <2>5. QED
      BY <1>2, <2>4 DEF Promise!Next
  <1>6. QED
    BY <1>4, <1>5

\* Every step of the collect is a step of the promise or shows nothing.
LEMMA RefinedStep ==
    ASSUME Prior = {}
    PROVE  AInv /\ [Next]_vars => [Promise!Next]_(Promise!vars)
  <1> SUFFICES ASSUME AInv, [Next]_vars
               PROVE  [Promise!Next]_(Promise!vars)
    OBVIOUS
  <1>p. /\ segment \in Seq(Events) /\ segment' \in Seq(Events)
        /\ Extended(segment, segment)
    BY PartsStep, LenProperties DEF Extended
  <1>h. ASSUME segment' = segment, outcomes' = outcomes
        PROVE  [Promise!Next]_(Promise!vars)
    BY <1>p, <1>h, HiddenStep
  <1>1. CASE Wake
    <2>1. /\ outcomes' = outcomes
          /\ segment' = segment \/ segment' = segment \o ScheduledBatch
      BY <1>1, Zenon DEF Wake
    <2>2. QED
      BY <1>p, <1>h, <2>1, ConcatExtended, ConcatTerminal, HiddenStep
  <1>2. ASSUME NEW o \in Ordinals, TakeAndRecord(o)
        PROVE  [Promise!Next]_(Promise!vars)
    <2>1. /\ outcomes' = outcomes
          /\ \/ segment' = segment
             \/ /\ segment' = Append(segment, ActivityEvent(Takeable(o), o))
                /\ ~ResolvedIn(segment, o)
      BY <1>2 DEF TakeAndRecord, record_fan_out_completion, ordinal_is_resolved
    <2>2. Takeable(o) \in ActivityTerminals
      BY DEF Takeable, ActivityTerminals
    <2>3. QED
      BY <1>p, <1>h, <2>1, <2>2, ResolvingStep
  <1>3. ASSUME NEW o \in Ordinals, RecordCancelled(o)
        PROVE  [Promise!Next]_(Promise!vars)
    <2>1. /\ outcomes' = outcomes
          /\ \/ segment' = segment
             \/ /\ segment' = Append(segment, ActivityEvent("Cancelled", o))
                /\ MustCancel(o) /\ pc = "abort" /\ o = pos
      BY <1>3 DEF RecordCancelled
    <2>2. (MustCancel(o) /\ pc = "abort" /\ o = pos) => ~ResolvedIn(segment, o)
      BY DEF AInv, IInv, AbortCancelsOpen, Ordinals
    <2>3. QED
      BY <1>p, <1>h, <2>1, <2>2, ResolvingStep DEF ActivityTerminals
  <1>4. CASE Return
    BY <1>4, ReturnStep
  <1>5. CASE TimerFires
    <2>1. segment' = Append(segment, TimerFiredEvent) /\ outcomes' = outcomes
      BY <1>5 DEF TimerFires
    <2>2. \A o \in Ordinals :
             TerminalPositions(segment', o) = TerminalPositions(segment, o)
      <3>1. TimerFiredEvent \in Events /\ TimerFiredEvent.type \notin ActivityTerminals
        BY EventTypes DEF TimerFiredEvent, ActivityTerminals
      <3>2. ASSUME NEW o \in Ordinals
            PROVE  TerminalPositions(Append(segment, TimerFiredEvent), o) =
                     TerminalPositions(segment, o) \cup {}
        BY <1>p, <3>1, AppendTerminal, Zenon
      <3>3. QED
        BY <2>1, <3>2
    <2>3. QED
      BY <1>p, <2>1, <2>2, EventTypes, AppendExtended, HiddenStep
  <1>6. ASSUME NEW o \in Ordinals, SkipMember(o)
        PROVE  [Promise!Next]_(Promise!vars)
    BY <1>h, <1>6 DEF SkipMember
  <1>7. ASSUME \/ Settle \/ Crash \/ Restart \/ UNCHANGED vars
               \/ \E o \in Ordinals, type \in {"Completed", "Failed"},
                     last \in BOOLEAN : Deliver(o, type, last)
        PROVE  [Promise!Next]_(Promise!vars)
    <2>1. segment' = segment /\ outcomes' = outcomes
      BY <1>7 DEF Settle, Crash, Restart, vars, Deliver
    <2>2. QED
      BY <1>h, <2>1
  <1>8. QED
    BY <1>1, <1>2, <1>3, <1>4, <1>5, <1>6, <1>7 DEF Next, Process

LEMMA RefinedInit == Init => Promise!Init
  <1> SUFFICES ASSUME Init PROVE Promise!Init
    OBVIOUS
  <1>1. segment = <<>> /\ outcomes = {}
    BY DEF Init
  <1>2. \A o \in Ordinals : recorded_terminal(segment, o) = "Pending"
    BY <1>1, EmptySeq DEF recorded_terminal, ResolvedIn, TerminalPositions
  <1>3. QED
    BY <1>1, <1>2 DEF Promise!Init

\* A collect keeps the promise of a fan-out, for either kind, any number of
\* members and crashes, whatever is redelivered: nif_collect.rs resolves every
\* member once and hands out one result, the one the complete record
\* determines, if no ordinal was used by an earlier run.
THEOREM CollectImplementsFanOut ==
    ASSUME Prior = {}
    PROVE  Spec => Implements
  <1>1. Init => Promise!Init
    BY RefinedInit
  <1>2. AInv /\ [Next]_vars => [Promise!Next]_(Promise!vars)
    BY RefinedStep
  <1>3. Init => AInv
    BY AInvInit
  <1>4. AInv /\ [Next]_vars => AInv'
    BY AInvStep
  <1>5. QED
    BY <1>1, <1>2, <1>3, <1>4, PTL DEF Spec, Implements, Promise!Spec

=============================================================================
