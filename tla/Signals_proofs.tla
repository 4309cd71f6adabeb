---------------------------- MODULE Signals_proofs ---------------------------
(***************************************************************************)
(* Proofs about module Signals, for any number of signals, pauses,         *)
(* suspensions and crashes.                                                *)
(***************************************************************************)
EXTENDS Signals, FiniteSetTheorems, TLAPS

-----------------------------------------------------------------------------
(***************************************************************************)
(* What a history says.                                                    *)
(***************************************************************************)
Has(h, type) == \E i \in DOMAIN h : h[i].type = type
Count(h, types) == Cardinality(Positions(h, types))

\* The event at i is the one of its type that has k before it.
Nth(h, type, i, k) == i \in Positions(h, {type}) /\ Before(h, i, {type}) = k

\* The two ways the first receive can end; what is recorded behind them undoes neither.
FirstReceived(h) ==
    \E i \in Positions(h, {"Received"}) : \A f \in Positions(h, {"Fired"}) : i < f
FirstTimedOut(h) ==
    \E f \in Positions(h, {"Fired"}) : \A i \in Positions(h, {"Received"}) : f < i

\* The payload of the k-th arrival, counted from 0.
ArrivalIs(h, k, x) ==
    \E i \in Positions(h, {"Received"}) : Nth(h, "Received", i, k) /\ h[i].payload = x

\* Arrivals are numbered without a gap, the scope is settled one way, a send is
\* recorded once, and nothing behind the end.
Sound(h) ==
    /\ \A k \in Nat : k < Count(h, {"Received"}) =>
           \E i \in Positions(h, {"Received"}) : Nth(h, "Received", i, k)
    /\ ~(Has(h, "Fired") /\ Has(h, "Cancelled"))
    /\ \A i, j \in Positions(h, {"Sent"}) : i = j
    /\ Has(h, "Ended") => h[Len(h)].type = "Ended"

\* Where a payload has arrived, and where the run's own has.
Arrivals(h, s) == {i \in DOMAIN h : h[i].payload = s}
OwnArrivals(h) == {i \in DOMAIN h : h[i] = Event("Received", Own)}

-----------------------------------------------------------------------------
(* The inductive invariant.                                                *)

\* What the process remembers of the scope, and what it answered, is recorded.
ScopeIsTrue ==
    /\ scope = "fired" => Has(history, "Fired")
    /\ scope = "cancelled" => Has(history, "Cancelled")
    /\ "expired" \in scopes => Has(history, "Fired")
    /\ "ok" \in scopes => Has(history, "Cancelled")

(***************************************************************************)
(* Who is registered has a process and no end.  A resume of a paused run   *)
(* that is not resident meets no process.                                  *)
(***************************************************************************)
RegistryIsTrue ==
    /\ ~up => pc = "none" /\ revival = -1
    /\ registered <=> up /\ pc \notin {"none", "gone"}
    /\ Has(history, "Ended") => pc \in {"none", "gone"}
    /\ pc = "gone" => Has(history, "Ended")
    /\ revival # -1 => pc = "none" /\ ~Has(history, "Ended")

(***************************************************************************)
(* The counters of the handle say where the program is, and a receive that *)
(* parked waits for the same index it would be given now.                  *)
(***************************************************************************)
BeforeFirst == {"none", "arm", "first", "first_parked"}
BeforeSecond == {"settle", "send", "record_send", "second", "second_parked"}
Routing == {"record_send", "second", "second_parked", "exited", "gone"}

CountersAreTrue ==
    /\ consumed <= Count(history, {"Received"})
    /\ pc \in BeforeFirst => consumed = 0
    /\ pc \in BeforeSecond => /\ got["first"] # {}
                              /\ \/ consumed = 1 /\ FirstReceived(history)
                                 \/ consumed = 0 /\ FirstTimedOut(history)
    /\ pc \notin Routing => sends = 0
    /\ pc = "record_send" => sends = 0 /\ ~Has(history, "Sent")
    /\ pc \in {"second", "second_parked"} => sends = 1
    /\ pin = IF Parked THEN nth_received_occurrence_index(history, consumed) ELSE NoIndex

\* Each answer of a receive, and the arrival it was.
AnswersAreTrue ==
    /\ \A x \in got["first"] :
           \/ x = Timeout /\ FirstTimedOut(history)
           \/ x # Timeout /\ FirstReceived(history) /\ ArrivalIs(history, 0, x)
    /\ \A x \in got["second"] :
           /\ got["first"] # {}
           /\ \/ FirstTimedOut(history) /\ ArrivalIs(history, 0, x)
              \/ FirstReceived(history) /\ ArrivalIs(history, 1, x)

\* A send is routed once in an epoch, and before it is recorded.
SendsAreTrue ==
    /\ Has(history, "Sent") \/ pc = "record_send" => Routed >= 1
    /\ Routed <= crashes + (IF pc \in Routing THEN 1 ELSE 0)

\* How far a call has got, and what it has recorded.
RecordOf(h, step, s) ==
    /\ step \in {"new", "record", "oneshot", "rejected"} => Arrivals(h, s) = {}
    /\ step \in {"deliver", "accepted"} => \E i \in Arrivals(h, s) : Arrivals(h, s) = {i}

CallsAreTrue == \A s \in Signal : RecordOf(history, route[s].step, s)

\* The one-shot append that can still succeed meets a paused run without a process.
OneShotsAreTrue ==
    \A s \in Signal : route[s].step = "oneshot" /\ LastSeq = route[s].read =>
                          Paused /\ ~registered /\ ~Has(history, "Ended")

\* A resume that can still succeed meets a paused run.
RevivalIsTrue == revival # -1 /\ LastSeq = revival => Paused

\* The hand-off queue holds wakes of accepted calls and of one send.
Accepted == {s \in Signal : route[s].step = "accepted"}
HandoffIsBounded ==
    deferred <= Cardinality(Accepted) + (IF pc \in Routing THEN 1 ELSE 0)

\* A pause is a hold, and a resumption follows its pause.
TogglesAreHeld == toggles + (toggles % 2) <= 2 * holds

\* Only a run that has begun is suspended.
StartedIsTrue == pc \notin {"none", "arm"} \/ suspended => Has(history, "Started")

IInv ==
    /\ TypeOK
    /\ StartedIsTrue
    /\ TogglesAreHeld
    /\ Sound(history)
    /\ ScopeIsTrue
    /\ RegistryIsTrue
    /\ CountersAreTrue
    /\ AnswersAreTrue
    /\ SendsAreTrue
    /\ CallsAreTrue
    /\ OneShotsAreTrue
    /\ RevivalIsTrue
    /\ HandoffIsBounded
    /\ WakeNotLost

-----------------------------------------------------------------------------
USE SignalsConstants

(***************************************************************************)
(* Positions and counts of a history.                                      *)
(***************************************************************************)

\* Positions are positions.
LEMMA PositionFacts ==
    ASSUME NEW h \in Seq(Events), NEW T
    PROVE  /\ Len(h) \in Nat
           /\ DOMAIN h = 1 .. Len(h)
           /\ Positions(h, T) \subseteq 1 .. Len(h)
           /\ IsFiniteSet(Positions(h, T))
           /\ Count(h, T) \in Nat
           /\ Count(h, T) <= Len(h)
  <1>1. Len(h) \in Nat /\ DOMAIN h = 1 .. Len(h)
    OBVIOUS
  <1>2. Positions(h, T) \subseteq 1 .. Len(h)
    BY <1>1 DEF Positions
  <1>3. IsFiniteSet(1 .. Len(h)) /\ Cardinality(1 .. Len(h)) = Len(h)
    BY <1>1, FS_Interval
  <1>4. IsFiniteSet(Positions(h, T)) /\ Cardinality(Positions(h, T)) <= Len(h)
    BY <1>2, <1>3, FS_Subset
  <1>5. QED
    BY <1>1, <1>2, <1>4, FS_CardinalityType DEF Count

\* How many events of a type stand before a position.
LEMMA BeforeFacts ==
    ASSUME NEW h \in Seq(Events), NEW T, NEW i \in Positions(h, T)
    PROVE  /\ Before(h, i, T) \in Nat
           /\ Before(h, i, T) < Count(h, T)
           /\ \A j \in Positions(h, T) : i < j => Before(h, i, T) < Before(h, j, T)
  <1>1. IsFiniteSet(Positions(h, T)) /\ Positions(h, T) \subseteq Int
    BY PositionFacts
  <1> DEFINE B(j) == {k \in Positions(h, T) : k < j}
  <1>2. ASSUME NEW j \in Int PROVE IsFiniteSet(B(j)) /\ Cardinality(B(j)) \in Nat
    BY <1>1, FS_Subset, FS_CardinalityType
  <1>3. Cardinality(B(i) \cup {i}) = Cardinality(B(i)) + 1 /\ IsFiniteSet(B(i) \cup {i})
    <2>1. i \notin B(i)
      BY <1>1
    <2>2. QED
      BY <1>1, <1>2, <2>1, FS_AddElement
  <1>4. Cardinality(B(i) \cup {i}) <= Cardinality(Positions(h, T))
    BY <1>1, FS_Subset
  <1>5. ASSUME NEW j \in Positions(h, T), i < j
        PROVE  Cardinality(B(i) \cup {i}) <= Cardinality(B(j))
    <2>1. B(i) \cup {i} \subseteq B(j)
      BY <1>1, <1>5
    <2>2. IsFiniteSet(B(j))
      BY <1>1, <1>2
    <2>3. QED
      BY <2>1, <2>2, FS_Subset
  <1>6. \A j : Before(h, j, T) = Cardinality(B(j))
    BY DEF Before
  <1> HIDE DEF B
  <1>7. Cardinality(B(i)) \in Nat /\ Cardinality(Positions(h, T)) \in Nat
    BY <1>1, <1>2, FS_CardinalityType
  <1>8. \A j \in Positions(h, T) : Cardinality(B(j)) \in Nat
    BY <1>1, <1>2
  <1>9. \A j \in Positions(h, T) : i < j => Cardinality(B(i)) < Cardinality(B(j))
    <2> SUFFICES ASSUME NEW j \in Positions(h, T), i < j
                 PROVE  Cardinality(B(i)) < Cardinality(B(j))
      OBVIOUS
    <2>1. Cardinality(B(i)) + 1 <= Cardinality(B(j))
      BY <1>3, <1>5
    <2>2. Cardinality(B(i)) \in Nat /\ Cardinality(B(j)) \in Nat
      BY <1>7, <1>8
    <2>3. QED
      BY <2>1, <2>2
  <1>10. QED
    BY <1>3, <1>4, <1>6, <1>7, <1>9 DEF Count

\* A number names one position.
LEMMA BeforeIsUnique ==
    ASSUME NEW h \in Seq(Events), NEW T, NEW i \in Positions(h, T), NEW j \in Positions(h, T),
           Before(h, i, T) = Before(h, j, T)
    PROVE  i = j
  <1>1. i \in Int /\ j \in Int
    BY PositionFacts
  <1>2. Before(h, i, T) \in Nat /\ Before(h, j, T) \in Nat
    BY BeforeFacts
  <1>3. ~(i < j)
    BY <1>2, BeforeFacts
  <1>4. ~(j < i)
    BY <1>2, BeforeFacts
  <1>5. QED
    BY <1>1, <1>3, <1>4

(***************************************************************************)
(* The cursor finds the k-th event of a type under the index the handle    *)
(* computes for it, and nothing if there is none yet.                      *)
(***************************************************************************)
LEMMA IndexResolves ==
    ASSUME NEW h \in Seq(Events), NEW type \in Occurrence, NEW k \in Nat
    PROVE  /\ NthOccurrenceIndex(h, type, k) \in 0 .. Len(h)
           /\ \A i \in Positions(h, {type}) : Nth(h, type, i, k) =>
                 /\ NthOccurrenceIndex(h, type, k) = Before(h, i, Occurrence)
                 /\ resolve_command(h, NthOccurrenceIndex(h, type, k)) = i
           /\ (\A i \in Positions(h, {type}) : ~Nth(h, type, i, k)) =>
                 /\ NthOccurrenceIndex(h, type, k) = Count(h, Occurrence)
                 /\ resolve_command(h, NthOccurrenceIndex(h, type, k)) = 0
  <1>1. Positions(h, {type}) \subseteq Positions(h, Occurrence)
    BY DEF Positions
  <1>2. \A i \in Positions(h, Occurrence) : /\ Before(h, i, Occurrence) \in Nat
                                         /\ Before(h, i, Occurrence) < Count(h, Occurrence)
    BY BeforeFacts
  <1>3. Count(h, Occurrence) \in Nat /\ Count(h, Occurrence) <= Len(h) /\ Len(h) \in Nat
    BY PositionFacts
  <1>4. ASSUME NEW i \in Positions(h, {type}), Nth(h, type, i, k)
        PROVE  NthOccurrenceIndex(h, type, k) = Before(h, i, Occurrence)
    <2> DEFINE c == CHOOSE j \in Positions(h, {type}) : Before(h, j, {type}) = k
    <2>1. c \in Positions(h, {type}) /\ Before(h, c, {type}) = k
      BY <1>4 DEF Nth
    <2>2. c = i
      BY <1>4, <2>1, BeforeIsUnique DEF Nth
    <2>3. NthOccurrenceIndex(h, type, k) = Before(h, c, Occurrence)
      BY <1>4 DEF Nth, NthOccurrenceIndex
    <2>4. QED
      BY <2>2, <2>3
  <1>5. ASSUME NEW i \in Positions(h, Occurrence)
        PROVE  resolve_command(h, Before(h, i, Occurrence)) = i
    <2> DEFINE c == CHOOSE j \in Positions(h, Occurrence) : Before(h, j, Occurrence) = Before(h, i, Occurrence)
    <2>1. c \in Positions(h, Occurrence) /\ Before(h, c, Occurrence) = Before(h, i, Occurrence)
      OBVIOUS
    <2>2. c = i
      BY <2>1, BeforeIsUnique
    <2>3. resolve_command(h, Before(h, i, Occurrence)) = c
      BY DEF resolve_command
    <2>4. QED
      BY <2>2, <2>3
  <1>6. ASSUME \A i \in Positions(h, {type}) : ~Nth(h, type, i, k)
        PROVE  /\ NthOccurrenceIndex(h, type, k) = Count(h, Occurrence)
               /\ resolve_command(h, NthOccurrenceIndex(h, type, k)) = 0
    <2>1. NthOccurrenceIndex(h, type, k) = Count(h, Occurrence)
      BY <1>6 DEF Nth, NthOccurrenceIndex, signal_occurrence_index, Count
    <2>2. resolve_command(h, Count(h, Occurrence)) = 0
      BY <1>2, <1>3 DEF resolve_command
    <2>3. QED
      BY <2>1, <2>2
  <1>7. NthOccurrenceIndex(h, type, k) \in 0 .. Len(h)
    <2>1. CASE \A i \in Positions(h, {type}) : ~Nth(h, type, i, k)
      <3>1. NthOccurrenceIndex(h, type, k) = Count(h, Occurrence)
        BY <2>1, <1>6
      <3>2. QED
        BY <3>1, <1>3
    <2>2. CASE \E i \in Positions(h, {type}) : Nth(h, type, i, k)
      <3>1. PICK i \in Positions(h, {type}) : Nth(h, type, i, k)
        BY <2>2
      <3>2. NthOccurrenceIndex(h, type, k) = Before(h, i, Occurrence)
        BY <3>1, <1>4
      <3>3. Before(h, i, Occurrence) \in Nat /\ Before(h, i, Occurrence) < Count(h, Occurrence)
        BY <1>1, <1>2
      <3>4. QED
        BY <3>2, <3>3, <1>3
    <2>3. QED
      BY <2>1, <2>2
  <1>8. QED
    BY <1>1, <1>4, <1>5, <1>6, <1>7

-----------------------------------------------------------------------------
(***************************************************************************)
(* What an append does to a history.                                       *)
(***************************************************************************)
Adds(h, e, g) == g = Append(h, e)

LEMMA AppendFacts ==
    ASSUME NEW h \in Seq(Events), NEW e \in Events, NEW g, Adds(h, e, g)
    PROVE  /\ g \in Seq(Events)
           /\ Len(h) \in Nat /\ Len(g) = Len(h) + 1
           /\ DOMAIN h = 1 .. Len(h) /\ DOMAIN g = 1 .. Len(h) + 1
           /\ \A i \in 1 .. Len(h) : g[i] = h[i]
           /\ g[Len(h) + 1] = e
  BY DEF Adds

LEMMA AppendPositions ==
    ASSUME NEW h \in Seq(Events), NEW e \in Events, NEW g, Adds(h, e, g), NEW T
    PROVE  Positions(g, T) = Positions(h, T) \cup (IF e.type \in T THEN {Len(h) + 1} ELSE {})
  BY AppendFacts DEF Positions

LEMMA AppendCounts ==
    ASSUME NEW h \in Seq(Events), NEW e \in Events, NEW g, Adds(h, e, g), NEW T
    PROVE  /\ \A i \in Positions(h, T) : Before(g, i, T) = Before(h, i, T)
           /\ Before(g, Len(h) + 1, T) = Count(h, T)
           /\ Count(g, T) = IF e.type \in T THEN Count(h, T) + 1 ELSE Count(h, T)
  <1>1. Positions(h, T) \subseteq 1 .. Len(h) /\ Len(h) \in Nat
    BY PositionFacts
  <1>2. Positions(g, T) = Positions(h, T) \cup (IF e.type \in T THEN {Len(h) + 1} ELSE {})
    BY AppendPositions
  <1>3. ASSUME NEW i \in Positions(h, T) PROVE Before(g, i, T) = Before(h, i, T)
    <2>1. {j \in Positions(g, T) : j < i} = {j \in Positions(h, T) : j < i}
      BY <1>1, <1>2
    <2>2. QED
      BY <2>1 DEF Before
  <1>4. Before(g, Len(h) + 1, T) = Count(h, T)
    <2>1. {j \in Positions(g, T) : j < Len(h) + 1} = Positions(h, T)
      BY <1>1, <1>2
    <2>2. QED
      BY <2>1 DEF Count, Before
  <1>5. ASSUME e.type \in T PROVE Count(g, T) = Count(h, T) + 1
    <2>1. Len(h) + 1 \notin Positions(h, T) /\ IsFiniteSet(Positions(h, T))
      BY <1>1, PositionFacts
    <2>2. Cardinality(Positions(h, T) \cup {Len(h) + 1}) = Cardinality(Positions(h, T)) + 1
      BY <2>1, FS_AddElement
    <2>3. QED
      BY <1>2, <1>5, <2>2 DEF Count
  <1>6. e.type \notin T => Count(g, T) = Count(h, T)
    BY <1>2 DEF Count
  <1>7. QED
    BY <1>3, <1>4, <1>5, <1>6

\* What is numbered keeps its number, and the new event is numbered behind the others.
LEMMA AppendNth ==
    ASSUME NEW h \in Seq(Events), NEW e \in Events, NEW g, Adds(h, e, g), NEW type, NEW k
    PROVE  /\ \A i \in Positions(h, {type}) :
                 i \in Positions(g, {type}) /\ (Nth(g, type, i, k) <=> Nth(h, type, i, k))
           /\ e.type = type => /\ Len(h) + 1 \in Positions(g, {type})
                               /\ Nth(g, type, Len(h) + 1, k) <=> k = Count(h, {type})
           /\ \A i \in Positions(g, {type}) :
                 i \in Positions(h, {type}) \/ (i = Len(h) + 1 /\ e.type = type)
  <1>1. Positions(g, {type})
            = Positions(h, {type}) \cup (IF e.type = type THEN {Len(h) + 1} ELSE {})
    BY AppendPositions
  <1>2. /\ \A i \in Positions(h, {type}) : Before(g, i, {type}) = Before(h, i, {type})
        /\ Before(g, Len(h) + 1, {type}) = Count(h, {type})
    BY AppendCounts
  <1>3. QED
    BY <1>1, <1>2 DEF Nth

LEMMA AppendHas ==
    ASSUME NEW h \in Seq(Events), NEW e \in Events, NEW g, Adds(h, e, g), NEW type
    PROVE  Has(g, type) <=> Has(h, type) \/ e.type = type
  BY AppendFacts DEF Has

\* How the first receive ended is settled, and so is what the k-th arrival is.
LEMMA AppendSettles ==
    ASSUME NEW h \in Seq(Events), NEW e \in Events, NEW g, Adds(h, e, g)
    PROVE  /\ FirstReceived(h) => FirstReceived(g)
           /\ FirstTimedOut(h) => FirstTimedOut(g)
           /\ \A k, x : ArrivalIs(h, k, x) => ArrivalIs(g, k, x)
  <1>1. \A T : Positions(h, T) \subseteq 1 .. Len(h) /\ Len(h) \in Nat
    BY PositionFacts
  <1>2. \A T : /\ Positions(g, T) \subseteq Positions(h, T) \cup {Len(h) + 1}
               /\ Positions(h, T) \subseteq Positions(g, T)
    BY AppendPositions
  <1>3. \A T : \A i \in Positions(h, T) : i < Len(h) + 1
    BY <1>1
  <1>4. FirstReceived(h) => FirstReceived(g)
    BY <1>2, <1>3 DEF FirstReceived
  <1>5. FirstTimedOut(h) => FirstTimedOut(g)
    BY <1>2, <1>3 DEF FirstTimedOut
  <1>6. ASSUME NEW k, NEW x, ArrivalIs(h, k, x) PROVE ArrivalIs(g, k, x)
    <2>1. PICK i \in Positions(h, {"Received"}) : Nth(h, "Received", i, k) /\ h[i].payload = x
      BY <1>6 DEF ArrivalIs
    <2>2. i \in Positions(g, {"Received"}) /\ Nth(g, "Received", i, k)
      BY <2>1, AppendNth
    <2>3. g[i] = h[i]
      BY <1>1, AppendFacts
    <2>4. QED
      BY <2>1, <2>2, <2>3 DEF ArrivalIs
  <1>7. QED
    BY <1>4, <1>5, <1>6

\* A history stays sound if nothing settles the scope, sends or ends again.
LEMMA AppendSound ==
    ASSUME NEW h \in Seq(Events), NEW e \in Events, NEW g, Adds(h, e, g), Sound(h),
           e.type \in {"Fired", "Cancelled"} => ~Has(h, "Fired") /\ ~Has(h, "Cancelled"),
           e.type = "Sent" => ~Has(h, "Sent"),
           ~Has(h, "Ended")
    PROVE  Sound(g)
  <1>1. ~(Has(g, "Fired") /\ Has(g, "Cancelled"))
    BY AppendHas DEF Sound
  <1>2. \A i, j \in Positions(g, {"Sent"}) : i = j
    <2>1. Positions(g, {"Sent"})
              = Positions(h, {"Sent"}) \cup (IF e.type \in {"Sent"} THEN {Len(h) + 1} ELSE {})
      BY AppendPositions
    <2>2. e.type = "Sent" => Positions(h, {"Sent"}) = {}
      BY DEF Positions, Has
    <2>3. QED
      BY <2>1, <2>2 DEF Sound
  <1>3. Has(g, "Ended") => g[Len(g)].type = "Ended"
    <2>1. g[Len(g)] = e
      BY AppendFacts
    <2>2. QED
      BY <2>1, AppendHas
  <1>4. ASSUME NEW k \in Nat, k < Count(g, {"Received"})
        PROVE  \E i \in Positions(g, {"Received"}) : Nth(g, "Received", i, k)
    <2>1. Count(h, {"Received"}) \in Nat
      BY PositionFacts
    <2>2. Count(g, {"Received"}) = IF e.type \in {"Received"} THEN Count(h, {"Received"}) + 1
                                   ELSE Count(h, {"Received"})
      BY AppendCounts
    <2>3. CASE k < Count(h, {"Received"})
      <3>1. PICK i \in Positions(h, {"Received"}) : Nth(h, "Received", i, k)
        BY <2>3 DEF Sound
      <3>2. i \in Positions(g, {"Received"}) /\ Nth(g, "Received", i, k)
        BY <3>1, AppendNth
      <3>3. QED
        BY <3>2
    <2>4. CASE ~(k < Count(h, {"Received"}))
      <3>1. e.type = "Received" /\ k = Count(h, {"Received"})
        BY <1>4, <2>1, <2>2, <2>4
      <3>2. Len(h) + 1 \in Positions(g, {"Received"}) /\ Nth(g, "Received", Len(h) + 1, k)
        BY <3>1, AppendNth
      <3>3. QED
        BY <3>2
    <2>5. QED
      BY <2>3, <2>4
  <1>5. QED
    BY <1>1, <1>2, <1>3, <1>4 DEF Sound

(***************************************************************************)
(* The index of a receive that waits for the next arrival does not move:   *)
(* no send comes between, so the next occurrence is that arrival.          *)
(***************************************************************************)
LEMMA AppendIndex ==
    ASSUME NEW h \in Seq(Events), NEW e \in Events, NEW g, Adds(h, e, g), Sound(h),
           e.type # "Sent", NEW k \in Nat, k <= Count(h, {"Received"})
    PROVE  /\ nth_received_occurrence_index(g, k) = nth_received_occurrence_index(h, k)
           /\ e.type # "Received" /\ resolve_command(h, nth_received_occurrence_index(h, k)) = 0 =>
                  resolve_command(g, nth_received_occurrence_index(g, k)) = 0
  <1>0. g \in Seq(Events) /\ "Received" \in Occurrence
    BY AppendFacts DEF Occurrence
  <1>1. Count(h, {"Received"}) \in Nat /\ Len(h) \in Nat
    BY PositionFacts
  <1>2. CASE \E i \in Positions(h, {"Received"}) : Nth(h, "Received", i, k)
    <2>1. PICK i \in Positions(h, {"Received"}) : Nth(h, "Received", i, k)
      BY <1>2
    <2>2. i \in Positions(g, {"Received"}) /\ Nth(g, "Received", i, k)
      BY <2>1, AppendNth
    <2>3. i \in Positions(h, Occurrence)
      BY DEF Positions, Occurrence
    <2>4. Before(g, i, Occurrence) = Before(h, i, Occurrence)
      BY <2>3, AppendCounts
    <2>5. /\ NthOccurrenceIndex(h, "Received", k) = Before(h, i, Occurrence)
          /\ resolve_command(h, NthOccurrenceIndex(h, "Received", k)) = i
      BY <1>0, <2>1, IndexResolves
    <2>6. NthOccurrenceIndex(g, "Received", k) = Before(g, i, Occurrence)
      BY <1>0, <2>2, IndexResolves
    <2>7. i # 0
      BY <1>1, PositionFacts
    <2>8. QED
      BY <2>4, <2>5, <2>6, <2>7 DEF nth_received_occurrence_index
  <1>3. CASE \A i \in Positions(h, {"Received"}) : ~Nth(h, "Received", i, k)
    <2>1. k = Count(h, {"Received"})
      BY <1>1, <1>3 DEF Sound
    <2>2. NthOccurrenceIndex(h, "Received", k) = Count(h, Occurrence)
      BY <1>0, <1>3, IndexResolves
    <2>3. CASE e.type = "Received"
      <3>1. Len(h) + 1 \in Positions(g, {"Received"}) /\ Nth(g, "Received", Len(h) + 1, k)
        BY <2>1, <2>3, AppendNth
      <3>2. NthOccurrenceIndex(g, "Received", k) = Before(g, Len(h) + 1, Occurrence)
        BY <1>0, <3>1, IndexResolves
      <3>3. Before(g, Len(h) + 1, Occurrence) = Count(h, Occurrence)
        BY AppendCounts
      <3>4. QED
        BY <2>2, <2>3, <3>2, <3>3 DEF nth_received_occurrence_index
    <2>4. CASE e.type # "Received"
      <3>1. \A i \in Positions(g, {"Received"}) : ~Nth(g, "Received", i, k)
        BY <1>3, <2>4, AppendNth
      <3>2. /\ NthOccurrenceIndex(g, "Received", k) = Count(g, Occurrence)
            /\ resolve_command(g, NthOccurrenceIndex(g, "Received", k)) = 0
        BY <1>0, <3>1, IndexResolves
      <3>3. Count(g, Occurrence) = Count(h, Occurrence)
        <4>1. e.type \notin Occurrence
          BY <2>4 DEF Occurrence
        <4>2. QED
          BY <4>1, AppendCounts
      <3>4. QED
        BY <2>2, <3>2, <3>3 DEF nth_received_occurrence_index
    <2>5. QED
      BY <2>3, <2>4
  <1>4. QED
    BY <1>2, <1>3

\* Payloads and own arrivals.
LEMMA AppendArrivals ==
    ASSUME NEW h \in Seq(Events), NEW e \in Events, NEW g, Adds(h, e, g)
    PROVE  /\ \A s : Arrivals(g, s) = Arrivals(h, s) \cup (IF e.payload = s THEN {Len(h) + 1} ELSE {})
           /\ Cardinality(OwnArrivals(h)) \in Nat
           /\ e = Event("Received", Own) =>
                  Cardinality(OwnArrivals(g)) = Cardinality(OwnArrivals(h)) + 1
           /\ e # Event("Received", Own) => OwnArrivals(g) = OwnArrivals(h)
  <1>1. Len(h) \in Nat /\ DOMAIN h = 1 .. Len(h) /\ DOMAIN g = 1 .. Len(h) + 1
    BY AppendFacts
  <1>2. \A s : Arrivals(g, s) = Arrivals(h, s) \cup (IF e.payload = s THEN {Len(h) + 1} ELSE {})
    BY <1>1, AppendFacts DEF Arrivals
  <1>3. OwnArrivals(g) = OwnArrivals(h) \cup (IF e = Event("Received", Own) THEN {Len(h) + 1} ELSE {})
    BY <1>1, AppendFacts DEF OwnArrivals
  <1>4. IsFiniteSet(OwnArrivals(h)) /\ Len(h) + 1 \notin OwnArrivals(h)
    <2>1. OwnArrivals(h) \subseteq 1 .. Len(h) /\ IsFiniteSet(1 .. Len(h))
      BY <1>1, FS_Interval DEF OwnArrivals
    <2>2. QED
      BY <1>1, <2>1, FS_Subset
  <1>5. /\ Cardinality(OwnArrivals(h)) \in Nat
        /\ Cardinality(OwnArrivals(h) \cup {Len(h) + 1}) = Cardinality(OwnArrivals(h)) + 1
    BY <1>4, FS_AddElement, FS_CardinalityType
  <1>6. QED
    BY <1>2, <1>3, <1>5

-----------------------------------------------------------------------------
(***************************************************************************)
(* What a step records.                                                    *)
(***************************************************************************)
MayAppend(e) ==
    /\ e \in Events
    /\ ~Has(history, "Ended")
    /\ e.type \in {"Fired", "Cancelled"} => ~Has(history, "Fired") /\ ~Has(history, "Cancelled")
    /\ e.type = "Sent" => ~Has(history, "Sent") /\ pc = "record_send" /\ pc' = "second"

Appends == \E e \in Events : MayAppend(e) /\ Adds(history, e, history')

LEMMA EventFacts ==
    /\ \A t \in {"Started", "Fired", "Cancelled", "Received", "Sent", "Ended"} :
           /\ Event(t, Own) \in Events
           /\ Event(t, Own).type = t
           /\ Event(t, Own).payload = Own
    /\ \A s \in Signal : /\ Event("Received", s) \in Events
                         /\ Event("Received", s).type = "Received"
                         /\ Event("Received", s).payload = s
                         /\ s # Own
                         /\ Event("Received", s) # Event("Received", Own)
  BY DEF Event, Events, Signal, Own

LEMMA RecordedHas == \A t : Recorded(t) <=> Has(history, t)
  BY DEF Recorded, Has

\* A record of a type the history may take is an append.
LEMMA RecordAppends ==
    ASSUME NEW t \in {"Started", "Fired", "Cancelled", "Received", "Sent", "Ended"},
           Record(t), ~Has(history, "Ended"),
           t \in {"Fired", "Cancelled"} => ~Has(history, "Fired") /\ ~Has(history, "Cancelled"),
           t = "Sent" => ~Has(history, "Sent") /\ pc = "record_send" /\ pc' = "second"
    PROVE  MayAppend(Event(t, Own)) /\ Adds(history, Event(t, Own), history') /\ Appends
  <1>1. Event(t, Own) \in Events /\ Event(t, Own).type = t
    BY EventFacts
  <1>2. MayAppend(Event(t, Own)) /\ Adds(history, Event(t, Own), history')
    BY <1>1 DEF Record, MayAppend, Adds
  <1>3. QED
    BY <1>1, <1>2 DEF Appends

LEMMA ReceivedAppends ==
    ASSUME NEW x \in Signal \cup {Own}, RecordReceived(x), ~Has(history, "Ended")
    PROVE  /\ MayAppend(Event("Received", x))
           /\ Adds(history, Event("Received", x), history')
           /\ Appends
  <1>1. Event("Received", x) \in Events /\ Event("Received", x).type = "Received"
    BY EventFacts
  <1>2. MayAppend(Event("Received", x)) /\ Adds(history, Event("Received", x), history')
    BY <1>1 DEF RecordReceived, MayAppend, Adds
  <1>3. QED
    BY <1>1, <1>2 DEF Appends

LEMMA StepCases ==
    [Next]_vars <=>
        \/ arm_scope \/ receive_signal \/ resume_with_timeout \/ send_signal \/ RecordSend
        \/ handle_process_exit \/ ScopeWakes \/ ScopeFires
        \/ (\E s \in Signal : RouteRecord(s)) \/ (\E s \in Signal : RouteDeliver(s))
        \/ (\E s \in Signal : OneShot(s)) \/ (\E s \in Signal : Lookup(s))
        \/ deliver_deferred \/ Revive \/ Boot \/ Suspend \/ resume_workflow \/ Pause
        \/ ResumePaused \/ Crash \/ UNCHANGED vars
  BY DEF Next, System

\* A process that runs has no end recorded.
LEMMA RunningHasNotEnded ==
    ASSUME RegistryIsTrue
    PROVE  /\ pc \notin {"none", "gone"} => ~Has(history, "Ended")
           /\ registered => ~Has(history, "Ended") /\ up /\ pc \notin {"none", "gone"}
  BY DEF RegistryIsTrue

LEMMA HistoryStep ==
    ASSUME RegistryIsTrue, CountersAreTrue, OneShotsAreTrue, [Next]_vars
    PROVE  UNCHANGED history \/ Appends
  <1>1. CASE arm_scope
    <2>1. UNCHANGED history \/ Record("Started")
      BY <1>1 DEF arm_scope
    <2>2. pc = "arm"
      BY <1>1 DEF arm_scope, At
    <2>3. QED
      BY <2>1, <2>2, RunningHasNotEnded, RecordAppends
  <1>2. CASE receive_signal
    BY <1>2 DEF receive_signal, durable
  <1>3. CASE resume_with_timeout
    <2>1. \/ UNCHANGED history
          \/ Record("Cancelled") /\ ~Has(history, "Fired") /\ ~Has(history, "Cancelled")
      BY <1>3, RecordedHas DEF resume_with_timeout
    <2>2. pc = "settle"
      BY <1>3 DEF resume_with_timeout, At
    <2>3. QED
      BY <2>1, <2>2, RunningHasNotEnded, RecordAppends
  <1>4. CASE send_signal
    <2>1. UNCHANGED history \/ RecordReceived(Own)
      BY <1>4 DEF send_signal
    <2>2. pc = "send"
      BY <1>4 DEF send_signal, At
    <2>3. QED
      BY <2>1, <2>2, RunningHasNotEnded, ReceivedAppends
  <1>5. CASE RecordSend
    <2>1. Record("Sent") /\ pc = "record_send" /\ pc' = "second"
      BY <1>5 DEF RecordSend, At
    <2>2. ~Has(history, "Sent")
      BY <2>1 DEF CountersAreTrue
    <2>3. QED
      BY <2>1, <2>2, RunningHasNotEnded, RecordAppends
  <1>6. CASE handle_process_exit
    <2>1. Record("Ended") /\ pc = "exited"
      BY <1>6 DEF handle_process_exit, At
    <2>2. QED
      BY <2>1, RunningHasNotEnded, RecordAppends
  <1>7. CASE ScopeFires
    <2>1. Record("Fired") /\ registered /\ ~Has(history, "Fired") /\ ~Has(history, "Cancelled")
      BY <1>7, RecordedHas DEF ScopeFires
    <2>2. QED
      BY <2>1, RunningHasNotEnded, RecordAppends
  <1>8. ASSUME NEW s \in Signal, RouteRecord(s) PROVE UNCHANGED history \/ Appends
    <2>1. UNCHANGED history \/ (RecordReceived(s) /\ ~Has(history, "Ended"))
      BY <1>8, RecordedHas DEF RouteRecord, Ended
    <2>2. QED
      BY <2>1, ReceivedAppends
  <1>9. ASSUME NEW s \in Signal, OneShot(s) PROVE UNCHANGED history \/ Appends
    <2>1. UNCHANGED history \/ (RecordReceived(s) /\ ~Has(history, "Ended"))
      BY <1>9 DEF OneShot, OneShotsAreTrue
    <2>2. QED
      BY <2>1, ReceivedAppends
  <1>11. CASE UNCHANGED history
    BY <1>11
  <1>12. ASSUME NEW s \in Signal, RouteDeliver(s) \/ Lookup(s) PROVE UNCHANGED history
    BY <1>12 DEF RouteDeliver, Lookup, durable
  <1>13. ScopeWakes \/ deliver_deferred \/ Revive \/ Boot \/ Suspend \/ resume_workflow
         \/ Pause \/ ResumePaused \/ Crash \/ UNCHANGED vars => UNCHANGED history
    BY DEF ScopeWakes, deliver_deferred, Revive, Boot, Suspend, resume_workflow, Pause,
           ResumePaused, Crash, vars, durable
  <1>14. QED
    BY <1>1, <1>2, <1>3, <1>4, <1>5, <1>6, <1>7, <1>8, <1>9, <1>11, <1>12, <1>13, StepCases

\* What the history has it keeps.
LEMMA HistoryKeeps ==
    ASSUME history \in Seq(Events), UNCHANGED history \/ Appends
    PROVE  /\ history' \in Seq(Events)
           /\ Len(history) \in Nat /\ Len(history') \in Nat /\ Len(history) <= Len(history')
           /\ \A t : Has(history, t) => Has(history', t)
           /\ FirstReceived(history) => FirstReceived(history')
           /\ FirstTimedOut(history) => FirstTimedOut(history')
           /\ \A k, x : ArrivalIs(history, k, x) => ArrivalIs(history', k, x)
           /\ Count(history, {"Received"}) \in Nat /\ Count(history', {"Received"}) \in Nat
           /\ Count(history, {"Received"}) <= Count(history', {"Received"})
           /\ Sound(history) => Sound(history')
  <1>1. Len(history) \in Nat /\ Count(history, {"Received"}) \in Nat
    BY PositionFacts
  <1>2. CASE UNCHANGED history
    BY <1>1, <1>2
  <1>3. CASE Appends
    <2>1. PICK e \in Events : MayAppend(e) /\ Adds(history, e, history')
      BY <1>3 DEF Appends
    <2>2. history' \in Seq(Events) /\ Len(history') = Len(history) + 1
      BY <2>1, AppendFacts
    <2>3. \A t : Has(history, t) => Has(history', t)
      BY <2>1, AppendHas
    <2>4. /\ FirstReceived(history) => FirstReceived(history')
          /\ FirstTimedOut(history) => FirstTimedOut(history')
          /\ \A k, x : ArrivalIs(history, k, x) => ArrivalIs(history', k, x)
      BY <2>1, AppendSettles
    <2>5. Count(history', {"Received"}) = IF e.type \in {"Received"} THEN Count(history, {"Received"}) + 1
                                          ELSE Count(history, {"Received"})
      BY <2>1, AppendCounts
    <2>6. Sound(history) => Sound(history')
      BY <2>1, AppendSound DEF MayAppend
    <2>7. QED
      BY <1>1, <2>2, <2>3, <2>4, <2>5, <2>6
  <1>4. QED
    BY <1>2, <1>3

-----------------------------------------------------------------------------
(***************************************************************************)
(* What a receive does: it parks with nothing to return, times out as the  *)
(* first receive of a run whose scope fired before any arrival, or returns *)
(* the arrival that is next.  It never meets a send.                       *)
(***************************************************************************)
Parks ==
    /\ pc' = ParkedAt
    /\ pin' = nth_received_occurrence_index(history, consumed)
    /\ resolve_command(history, pin') = 0
    /\ ~expired_scope_deadline
    /\ UNCHANGED <<got, consumed>>

TimesOut ==
    /\ AnswerWith(Timeout)
    /\ Call = "first"
    /\ FirstTimedOut(history)

Receives ==
    \E i \in Positions(history, {"Received"}) :
        /\ Nth(history, "Received", i, consumed)
        /\ got' = [got EXCEPT ![Call] = @ \cup {history[i].payload}]
        /\ pc' = AfterReceive
        /\ pin' = NoIndex
        /\ consumed' = consumed + 1
        /\ Call = "first" => FirstReceived(history)

\* The first arrival stands before the others.
LEMMA FirstArrival ==
    ASSUME NEW h \in Seq(Events), NEW i \in Positions(h, {"Received"}), Nth(h, "Received", i, 0),
           NEW j \in Positions(h, {"Received"})
    PROVE  i <= j
  <1>1. i \in Int /\ j \in Int
    BY PositionFacts
  <1>2. Before(h, i, {"Received"}) = 0 /\ Before(h, j, {"Received"}) \in Nat
    BY BeforeFacts DEF Nth
  <1>3. ~(j < i)
    BY <1>2, BeforeFacts
  <1>4. QED
    BY <1>1, <1>3

LEMMA ReceiveIndex ==
    ASSUME TypeOK, CountersAreTrue, pc \in Awaits
    PROVE  (IF pin # NoIndex THEN pin ELSE nth_received_occurrence_index(history, consumed))
             = nth_received_occurrence_index(history, consumed)
  BY DEF CountersAreTrue

\* At the first receive: the scope counts as expired exactly if it has fired.
LEMMA ExpiredIsFired ==
    ASSUME ScopeIsTrue, Sound(history)
    PROVE  expired_scope_deadline <=> Call = "first" /\ Has(history, "Fired")
                                      /\ scope \in {"fired", "live"}
  BY RecordedHas DEF expired_scope_deadline, Call, ScopeIsTrue

LEMMA ReceiveCases ==
    ASSUME TypeOK, Sound(history), ScopeIsTrue, CountersAreTrue, receive_signal
    PROVE  Parks \/ TimesOut \/ Receives
  <1> DEFINE index == nth_received_occurrence_index(history, consumed)
             found == resolve_command(history, index)
  <1>1. history \in Seq(Events) /\ consumed \in Nat /\ scope \in {"fired", "cancelled", "live"}
    BY DEF TypeOK
  <1>2. pc \in Awaits /\ (Call = "first" => consumed = 0)
    BY DEF receive_signal, At, Awaits, Call, CountersAreTrue, BeforeFirst
  <1>3. (CASE found = 0 /\ expired_scope_deadline -> AnswerWith(Timeout)
           [] found = 0 /\ ~expired_scope_deadline ->
                  /\ pin' = index
                  /\ pc' = ParkedAt
                  /\ UNCHANGED <<got, consumed>>
           [] found # 0 /\ history[found].type = "Sent" ->
                  /\ got' = [got EXCEPT ![Call] = @ \cup {Error}]
                  /\ pc' = AfterReceive
                  /\ UNCHANGED <<pin, consumed>>
           [] found # 0 /\ history[found].type = "Received" ->
                  IF scope_expired_before_signal_arrival(found)
                  THEN AnswerWith(Timeout)
                  ELSE /\ got' = [got EXCEPT ![Call] = @ \cup {history[found].payload}]
                       /\ pc' = AfterReceive
                       /\ pin' = NoIndex
                       /\ consumed' = consumed + 1)
    BY <1>2, ReceiveIndex DEF receive_signal
  <1>4. "Received" \in Occurrence
    BY DEF Occurrence
  <1>5. CASE \A i \in Positions(history, {"Received"}) : ~Nth(history, "Received", i, consumed)
    <2>1. found = 0
      BY <1>1, <1>4, <1>5, IndexResolves DEF nth_received_occurrence_index
    <2>2. CASE ~expired_scope_deadline
      <3>1. pin' = index /\ pc' = ParkedAt /\ UNCHANGED <<got, consumed>>
        BY <1>3, <2>1, <2>2
      <3>2. QED
        BY <2>1, <2>2, <3>1 DEF Parks
    <2>3. CASE expired_scope_deadline
      <3>1. AnswerWith(Timeout)
        BY <1>3, <2>1, <2>3
      <3>2. Call = "first" /\ Has(history, "Fired")
        BY <2>3, ExpiredIsFired
      <3>3. Positions(history, {"Received"}) = {}
        <4>1. Count(history, {"Received"}) \in Nat /\ ~(0 < Count(history, {"Received"}))
          BY <1>1, <1>2, <1>5, <3>2, PositionFacts DEF Sound
        <4>2. IsFiniteSet(Positions(history, {"Received"})) /\ Cardinality(Positions(history, {"Received"})) = 0
          BY <1>1, <4>1, PositionFacts DEF Count
        <4>3. QED
          BY <4>2, FS_EmptySet
      <3>4. FirstTimedOut(history)
        BY <3>2, <3>3 DEF FirstTimedOut, Has, Positions
      <3>5. QED
        BY <3>1, <3>2, <3>4 DEF TimesOut
    <2>4. QED
      BY <2>2, <2>3
  <1>6. CASE \E i \in Positions(history, {"Received"}) : Nth(history, "Received", i, consumed)
    <2>1. PICK i \in Positions(history, {"Received"}) : Nth(history, "Received", i, consumed)
      BY <1>6
    <2>2. found = i
      BY <1>1, <1>4, <2>1, IndexResolves DEF nth_received_occurrence_index
    <2>3. i \in Nat /\ i # 0 /\ history[i].type = "Received"
      BY <1>1, PositionFacts DEF Positions
    <2>4. \A f \in Positions(history, {"Fired"}) : f \in Int /\ f # i
      <3>1. \A f \in Positions(history, {"Fired"}) : history[f].type = "Fired"
        BY DEF Positions
      <3>2. Positions(history, {"Fired"}) \subseteq Int
        BY <1>1, PositionFacts
      <3>3. QED
        BY <2>3, <3>1, <3>2
    <2>5. CASE scope_expired_before_signal_arrival(i)
      <3>1. AnswerWith(Timeout)
        BY <1>3, <2>2, <2>3, <2>5
      <3>2. Call = "first" /\ \E f \in Positions(history, {"Fired"}) : f < i
        BY <2>5, ExpiredIsFired DEF scope_expired_before_signal_arrival
      <3>3. \A j \in Positions(history, {"Received"}) : i <= j /\ j \in Int
        BY <1>1, <1>2, <2>1, <3>2, FirstArrival, PositionFacts
      <3>4. FirstTimedOut(history)
        <4>1. PICK f \in Positions(history, {"Fired"}) : f < i
          BY <3>2
        <4>2. ASSUME NEW j \in Positions(history, {"Received"}) PROVE f < j
          <5>1. i <= j /\ j \in Int
            BY <3>3
          <5>2. f \in Int /\ i \in Int
            BY <2>3, <2>4
          <5>3. QED
            BY <4>1, <5>1, <5>2
        <4>3. QED
          BY <4>2 DEF FirstTimedOut
      <3>5. QED
        BY <3>1, <3>2, <3>4 DEF TimesOut
    <2>6. CASE ~scope_expired_before_signal_arrival(i)
      <3>1. /\ got' = [got EXCEPT ![Call] = @ \cup {history[i].payload}]
            /\ pc' = AfterReceive
            /\ pin' = NoIndex
            /\ consumed' = consumed + 1
        BY <1>3, <2>2, <2>3, <2>6
      <3>2. ASSUME Call = "first", NEW f \in Positions(history, {"Fired"}) PROVE i < f
        <4>1. Has(history, "Fired")
          BY <3>2 DEF Has, Positions
        <4>2. scope \in {"fired", "live"}
          BY <1>1, <4>1 DEF ScopeIsTrue, Sound
        <4>3. ~(f < i)
          BY <2>6, <3>2, <4>1, <4>2, ExpiredIsFired DEF scope_expired_before_signal_arrival
        <4>4. QED
          BY <2>3, <2>4, <4>3
      <3>3. Call = "first" => FirstReceived(history)
        BY <3>2 DEF FirstReceived
      <3>4. QED
        BY <2>1, <3>1, <3>3 DEF Receives
    <2>7. QED
      BY <2>5, <2>6
  <1>7. QED
    BY <1>5, <1>6

-----------------------------------------------------------------------------
(***************************************************************************)
(* The scope and the registry.                                             *)
(***************************************************************************)
LEMMA ScopeStep ==
    ASSUME TypeOK, Sound(history), ScopeIsTrue, UNCHANGED history \/ Appends, [Next]_vars
    PROVE  ScopeIsTrue'
  <1>0. history \in Seq(Events) /\ scope \in {"fired", "cancelled", "live"}
    BY DEF TypeOK
  <1>1. \A t : Has(history, t) => Has(history', t)
    BY <1>0, HistoryKeeps
  <1>2. CASE UNCHANGED <<scope, scopes>>
    BY <1>1, <1>2 DEF ScopeIsTrue
  <1>3. CASE arm_scope
    <2>1. UNCHANGED scopes
      BY <1>3 DEF arm_scope, answers
    <2>2. /\ scope' = "fired" => scope = "fired" \/ Has(history, "Fired")
          /\ scope' = "cancelled" => scope = "cancelled" \/ Has(history, "Cancelled")
      BY <1>3, RecordedHas DEF arm_scope
    <2>3. QED
      BY <1>1, <2>1, <2>2 DEF ScopeIsTrue
  <1>4. CASE resume_with_timeout
    <2>1. UNCHANGED scope
      BY <1>4 DEF resume_with_timeout
    <2>2. CASE scope = "fired" \/ (scope = "live" /\ Recorded("Fired"))
      <3>1. scopes' = scopes \cup {"expired"} /\ Has(history, "Fired")
        BY <1>4, <2>2, RecordedHas DEF resume_with_timeout, ScopeIsTrue
      <3>2. QED
        BY <1>1, <2>1, <3>1 DEF ScopeIsTrue
    <2>3. CASE ~(scope = "fired" \/ (scope = "live" /\ Recorded("Fired")))
      <3>1. scopes' = scopes \cup {"ok"}
        BY <1>4, <2>3 DEF resume_with_timeout
      <3>2. Has(history', "Cancelled")
        <4>1. CASE scope = "live" /\ ~Recorded("Cancelled")
          <5>1. Record("Cancelled")
            BY <1>4, <2>3, <4>1 DEF resume_with_timeout
          <5>2. Adds(history, Event("Cancelled", Own), history')
            BY <5>1 DEF Record, Adds
          <5>3. QED
            BY <1>0, <5>2, AppendHas, EventFacts
        <4>2. CASE ~(scope = "live" /\ ~Recorded("Cancelled"))
          <5>1. Has(history, "Cancelled")
            BY <1>0, <2>3, <4>2, RecordedHas DEF ScopeIsTrue
          <5>2. QED
            BY <1>1, <5>1
        <4>3. QED
          BY <4>1, <4>2
      <3>3. QED
        BY <1>1, <2>1, <3>1, <3>2 DEF ScopeIsTrue
    <2>4. QED
      BY <2>2, <2>3
  <1>5. CASE Crash
    BY <1>1, <1>5 DEF Crash, answers, ScopeIsTrue
  <1>6. \/ UNCHANGED <<scope, scopes>>
        \/ arm_scope \/ resume_with_timeout \/ Crash
    BY StepCases
       DEF receive_signal, send_signal, RecordSend, handle_process_exit, ScopeWakes, ScopeFires,
           RouteRecord, RouteDeliver, OneShot, Lookup, deliver_deferred, Revive, Boot, Suspend,
           resume_workflow, Pause, ResumePaused, vars, process, answers
  <1>7. QED
    BY <1>2, <1>3, <1>4, <1>5, <1>6

\* Only the monitor of an exit records the end.
LEMMA EndStep ==
    ASSUME TypeOK, [Next]_vars, ~handle_process_exit
    PROVE  Has(history', "Ended") <=> Has(history, "Ended")
  <1>0. history \in Seq(Events)
    BY DEF TypeOK
  <1>1. \/ UNCHANGED history
        \/ \E t \in {"Started", "Fired", "Cancelled", "Sent"} : Record(t)
        \/ \E x \in Signal \cup {Own} : RecordReceived(x)
    BY StepCases
       DEF arm_scope, resume_with_timeout, receive_signal, send_signal, RecordSend, ScopeWakes,
           ScopeFires, RouteRecord, RouteDeliver, OneShot, Lookup, deliver_deferred, Revive, Boot,
           Suspend, resume_workflow, Pause, ResumePaused, Crash, vars, durable
  <1>2. ASSUME NEW t \in {"Started", "Fired", "Cancelled", "Sent"}, Record(t)
        PROVE  Has(history', "Ended") <=> Has(history, "Ended")
    <2>1. Adds(history, Event(t, Own), history') /\ Event(t, Own) \in Events /\ Event(t, Own).type = t
      BY <1>2, EventFacts DEF Record, Adds
    <2>2. QED
      BY <1>0, <2>1, AppendHas
  <1>3. ASSUME NEW x \in Signal \cup {Own}, RecordReceived(x)
        PROVE  Has(history', "Ended") <=> Has(history, "Ended")
    <2>1. /\ Adds(history, Event("Received", x), history')
          /\ Event("Received", x) \in Events /\ Event("Received", x).type = "Received"
      BY <1>3, EventFacts DEF RecordReceived, Adds
    <2>2. QED
      BY <1>0, <2>1, AppendHas
  <1>4. QED
    BY <1>1, <1>2, <1>3

LEMMA RegistryStep ==
    ASSUME TypeOK, Sound(history), ScopeIsTrue, RegistryIsTrue, CountersAreTrue, [Next]_vars
    PROVE  RegistryIsTrue'
  <1>0. ~handle_process_exit => (Has(history', "Ended") <=> Has(history, "Ended"))
    BY EndStep
  <1>1. CASE UNCHANGED <<up, registered, pc, revival>>
    <2>1. ~handle_process_exit
      BY <1>1 DEF handle_process_exit, At
    <2>2. QED
      BY <1>0, <1>1, <2>1 DEF RegistryIsTrue
  <1>2. CASE handle_process_exit
    <2>1. Has(history', "Ended")
      <3>1. Adds(history, Event("Ended", Own), history') /\ history \in Seq(Events)
        BY <1>2 DEF handle_process_exit, Record, Adds, TypeOK
      <3>2. QED
        BY <3>1, AppendHas, EventFacts
    <2>2. QED
      BY <1>2, <2>1 DEF handle_process_exit, At, RegistryIsTrue, handoff
  <1>3. CASE arm_scope
    <2>1. UNCHANGED <<up, registered, revival>> /\ pc = "arm" /\ pc' = "first" /\ ~handle_process_exit
      BY <1>3 DEF arm_scope, At, handle, handoff, handle_process_exit
    <2>2. QED
      BY <1>0, <2>1 DEF RegistryIsTrue
  <1>4. CASE receive_signal
    <2>1. UNCHANGED <<up, registered, revival>> /\ pc \in Awaits /\ up
      BY <1>4 DEF receive_signal, At, handoff
    <2>2. pc' \in {AfterReceive, ParkedAt}
      <3>1. Parks \/ TimesOut \/ Receives
        BY <1>4, ReceiveCases
      <3>2. QED
        BY <3>1 DEF Parks, TimesOut, Receives, AnswerWith
    <2>5. ~handle_process_exit
      BY <2>1 DEF handle_process_exit, At, Awaits
    <2>3. pc \notin {"none", "gone"} /\ pc' \notin {"none", "gone"}
      BY <2>1, <2>2 DEF AfterReceive, ParkedAt, Awaits
    <2>4. QED
      BY <1>0, <2>1, <2>3, <2>5 DEF RegistryIsTrue
  <1>5. CASE resume_with_timeout \/ send_signal \/ RecordSend
    <2>1. /\ UNCHANGED <<up, registered, revival>> /\ up
          /\ pc \in {"settle", "send", "record_send"} /\ pc' \in {"send", "second", "record_send"}
      BY <1>5 DEF resume_with_timeout, send_signal, RecordSend, At, handle, handoff
    <2>2. ~handle_process_exit
      BY <2>1 DEF handle_process_exit
    <2>3. QED
      BY <1>0, <2>1, <2>2 DEF RegistryIsTrue
  <1>6. CASE Revive
    <2>1. ~handle_process_exit /\ up /\ up' = up /\ revival # -1 /\ revival' = -1
      BY <1>6 DEF Revive, handle_process_exit, At, RegistryIsTrue
    <2>2. pc = "none" /\ ~registered
      BY <2>1 DEF RegistryIsTrue
    <2>3. CASE LastSeq = revival
      <3>1. pc' = "arm" /\ registered' = TRUE
        BY <1>6, <2>3 DEF Revive, Respawn
      <3>2. ~Has(history, "Ended")
        BY <2>1 DEF RegistryIsTrue
      <3>3. QED
        BY <1>0, <2>1, <3>1, <3>2 DEF RegistryIsTrue
    <2>4. CASE LastSeq # revival
      <3>1. UNCHANGED <<pc, registered>>
        BY <1>6, <2>4 DEF Revive, handle
      <3>2. QED
        BY <1>0, <2>1, <3>1 DEF RegistryIsTrue
    <2>5. QED
      BY <2>3, <2>4
  <1>7. CASE Crash
    BY <1>0, <1>7 DEF Crash, RegistryIsTrue, handle_process_exit
  <1>8. CASE Boot
    <2>1. ~handle_process_exit /\ ~up /\ up' = TRUE /\ UNCHANGED revival /\ pc = "none"
      BY <1>8 DEF Boot, handle_process_exit, At, handoff, RegistryIsTrue
    <2>2. CASE Ended \/ Paused
      <3>1. UNCHANGED <<registered, pc, history>>
        BY <1>8, <2>2 DEF Boot, handle, durable
      <3>2. ~registered
        BY <2>1 DEF RegistryIsTrue
      <3>3. QED
        BY <2>1, <3>1, <3>2 DEF RegistryIsTrue
    <2>3. CASE ~(Ended \/ Paused)
      <3>1. registered' = TRUE /\ pc' = "arm" /\ ~Has(history, "Ended")
        BY <1>8, <2>3, RecordedHas DEF Boot, Respawn, Ended
      <3>2. QED
        BY <1>0, <2>1, <3>1 DEF RegistryIsTrue
    <2>4. QED
      BY <2>2, <2>3
  <1>9. CASE ResumePaused
    <2>1. ~handle_process_exit \/ pc = "exited"
      BY DEF handle_process_exit, At
    <2>2. UNCHANGED <<history, up, registered, pc>> /\ up /\ ~Has(history, "Ended")
      BY <1>9, RecordedHas DEF ResumePaused, handle, process, Ended
    <2>3. revival' = revival \/ (pc = "none")
      BY <1>9, <2>2 DEF ResumePaused, RegistryIsTrue
    <2>4. QED
      BY <2>2, <2>3 DEF RegistryIsTrue
  <1>10. \/ UNCHANGED <<up, registered, pc, revival>>
         \/ handle_process_exit \/ arm_scope \/ receive_signal \/ resume_with_timeout
         \/ send_signal \/ RecordSend \/ Revive \/ Crash \/ Boot \/ ResumePaused
    BY StepCases
       DEF ScopeWakes, ScopeFires, RouteRecord, RouteDeliver, OneShot, Lookup, deliver_deferred,
           Suspend, resume_workflow, Pause, vars, process, handle, handoff
  <1>11. QED
    BY <1>1, <1>2, <1>3, <1>4, <1>5, <1>6, <1>7, <1>8, <1>9, <1>10

-----------------------------------------------------------------------------
(***************************************************************************)
(* The counters of the handle and the pinned index.                        *)
(***************************************************************************)
CountersUnparked ==
    /\ consumed <= Count(history, {"Received"})
    /\ pc \in BeforeFirst => consumed = 0
    /\ pc \in BeforeSecond => /\ got["first"] # {}
                              /\ \/ consumed = 1 /\ FirstReceived(history)
                                 \/ consumed = 0 /\ FirstTimedOut(history)
    /\ pc \notin Routing => sends = 0
    /\ pc = "record_send" => sends = 0 /\ ~Has(history, "Sent")
    /\ pc \in {"second", "second_parked"} => sends = 1
    /\ ~Parked /\ pin = NoIndex

LEMMA CountersUnparkedIs == CountersUnparked => CountersAreTrue
  BY DEF CountersUnparked, CountersAreTrue

\* A fresh process has read nothing.
LEMMA FreshCounters ==
    ASSUME history' \in Seq(Events), consumed' = 0, sends' = 0, pin' = NoIndex, pc' \in {"none", "arm"}
    PROVE  CountersAreTrue'
  <1>1. Count(history', {"Received"}) \in Nat
    BY PositionFacts
  <1>2. CountersUnparked'
    BY <1>1 DEF CountersUnparked, Parked, BeforeFirst, BeforeSecond, Routing
  <1>3. QED
    BY <1>2, CountersUnparkedIs DEF CountersUnparked, CountersAreTrue

\* While the process waits or nothing touches it, no send is recorded and the index stays.
LEMMA CountersKept ==
    ASSUME TypeOK, Sound(history), CountersAreTrue, UNCHANGED history \/ Appends,
           UNCHANGED <<pc, consumed, sends, pin, got>>
    PROVE  CountersAreTrue'
  <1>0. history \in Seq(Events) /\ consumed \in Nat
    BY DEF TypeOK
  <1>1. /\ FirstReceived(history) => FirstReceived(history')
        /\ FirstTimedOut(history) => FirstTimedOut(history')
        /\ Count(history, {"Received"}) \in Nat /\ Count(history', {"Received"}) \in Nat
        /\ Count(history, {"Received"}) <= Count(history', {"Received"})
    BY <1>0, HistoryKeeps
  <1>2. /\ Has(history', "Sent") => Has(history, "Sent")
        /\ nth_received_occurrence_index(history', consumed)
             = nth_received_occurrence_index(history, consumed)
    <2>1. CASE UNCHANGED history
      BY <2>1
    <2>2. CASE Appends
      <3>1. PICK e \in Events : MayAppend(e) /\ Adds(history, e, history')
        BY <2>2 DEF Appends
      <3>2. e.type # "Sent"
        BY <3>1 DEF MayAppend
      <3>3. consumed <= Count(history, {"Received"})
        BY DEF CountersAreTrue
      <3>4. QED
        BY <1>0, <3>1, <3>2, <3>3, AppendHas, AppendIndex
    <2>3. QED
      BY <2>1, <2>2
  <1>3. consumed' <= Count(history', {"Received"})
    BY <1>0, <1>1 DEF CountersAreTrue
  <1>4. Parked' <=> Parked
    BY DEF Parked
  <1>5. pin' = IF Parked' THEN nth_received_occurrence_index(history', consumed') ELSE NoIndex
    BY <1>2, <1>4 DEF CountersAreTrue
  <1>6. /\ pc' \in BeforeFirst => consumed' = 0
        /\ pc' \in BeforeSecond => /\ got'["first"] # {}
                                   /\ \/ consumed' = 1 /\ FirstReceived(history')
                                      \/ consumed' = 0 /\ FirstTimedOut(history')
        /\ pc' \notin Routing => sends' = 0
        /\ pc' = "record_send" => sends' = 0 /\ ~Has(history', "Sent")
        /\ pc' \in {"second", "second_parked"} => sends' = 1
    BY <1>1, <1>2 DEF CountersAreTrue
  <1>7. QED
    BY <1>3, <1>5, <1>6 DEF CountersAreTrue

\* A send that was not recorded is routed, one that was is passed over.
LEMMA SendIndex ==
    ASSUME TypeOK, Sound(history), sends = 0
    PROVE  resolve_command(history, nth_sent_occurrence_index(history, sends)) # 0
             <=> Has(history, "Sent")
  <1>0. history \in Seq(Events) /\ "Sent" \in Occurrence /\ sends \in Nat
    BY DEF TypeOK, Occurrence
  <1>1. CASE Has(history, "Sent")
    <2>1. PICK i \in Positions(history, {"Sent"}) : TRUE
      BY <1>1 DEF Has, Positions
    <2>2. Before(history, i, {"Sent"}) = 0
      <3>1. {j \in Positions(history, {"Sent"}) : j < i} = {}
        <4>1. Positions(history, {"Sent"}) \subseteq Int
          BY <1>0, PositionFacts
        <4>2. QED
          BY <2>1, <4>1 DEF Sound
      <3>2. QED
        BY <3>1, FS_EmptySet DEF Before
    <2>3. Nth(history, "Sent", i, 0)
      BY <2>1, <2>2 DEF Nth
    <2>4. resolve_command(history, NthOccurrenceIndex(history, "Sent", 0)) = i
      BY <1>0, <2>1, <2>3, IndexResolves
    <2>5. i # 0
      BY <1>0, <2>1, PositionFacts
    <2>6. QED
      BY <1>1, <2>4, <2>5 DEF nth_sent_occurrence_index
  <1>2. CASE ~Has(history, "Sent")
    <2>1. \A i \in Positions(history, {"Sent"}) : ~Nth(history, "Sent", i, 0)
      BY <1>2 DEF Has, Positions
    <2>2. resolve_command(history, NthOccurrenceIndex(history, "Sent", 0)) = 0
      BY <1>0, <2>1, IndexResolves
    <2>3. QED
      BY <1>2, <2>2 DEF nth_sent_occurrence_index
  <1>3. QED
    BY <1>1, <1>2

LEMMA ReceiveCounters ==
    ASSUME TypeOK, Sound(history), ScopeIsTrue, CountersAreTrue, receive_signal
    PROVE  CountersAreTrue'
  <1>0. /\ history \in Seq(Events) /\ consumed \in Nat /\ pc \in Awaits /\ UNCHANGED <<history, sends>>
        /\ got \in [{"first", "second"} -> SUBSET (Signal \cup {Own, Timeout, Error})]
    BY DEF TypeOK, receive_signal, durable, At
  <1>1. Count(history, {"Received"}) \in Nat
    BY <1>0, PositionFacts
  <1>2. CASE Parks
    <2>1. Parked' /\ consumed' = consumed
      BY <1>2 DEF Parks, ParkedAt, Parked
    <2>2. pin' = nth_received_occurrence_index(history', consumed')
      BY <1>0, <1>2, <2>1 DEF Parks
    <2>3. /\ pc' \in {"first_parked", "second_parked"}
          /\ pc' = "first_parked" <=> pc \in {"first", "first_parked"}
          /\ got' = got
      BY <1>0, <1>2 DEF Parks, ParkedAt, Call, Awaits
    <2>4. QED
      BY <1>0, <2>1, <2>2, <2>3
         DEF CountersAreTrue, BeforeFirst, BeforeSecond, Routing, Awaits
  <1>3. CASE TimesOut
    <2>1. /\ pc \in {"first", "first_parked"} /\ pc' = "settle" /\ pin' = NoIndex
          /\ UNCHANGED consumed /\ got'["first"] # {} /\ FirstTimedOut(history)
      BY <1>0, <1>3 DEF TimesOut, AnswerWith, AfterReceive, Call
    <2>2. CountersUnparked'
      BY <1>0, <2>1 DEF CountersUnparked, CountersAreTrue, Parked, BeforeFirst, BeforeSecond, Routing
    <2>3. QED
      BY <2>2 DEF CountersUnparked, CountersAreTrue
  <1>4. CASE Receives
    <2>1. PICK i \in Positions(history, {"Received"}) :
              /\ Nth(history, "Received", i, consumed)
              /\ got' = [got EXCEPT ![Call] = @ \cup {history[i].payload}]
              /\ pc' = AfterReceive /\ pin' = NoIndex /\ consumed' = consumed + 1
              /\ Call = "first" => FirstReceived(history)
      BY <1>4 DEF Receives
    <2>2. consumed' <= Count(history', {"Received"})
      <3>1. Before(history, i, {"Received"}) = consumed
            /\ Before(history, i, {"Received"}) < Count(history, {"Received"})
        BY <1>0, <2>1, BeforeFacts DEF Nth
      <3>2. QED
        BY <1>0, <1>1, <2>1, <3>1
    <2>3. CASE Call = "first"
      <3>1. pc \in {"first", "first_parked"} /\ pc' = "settle" /\ got'["first"] # {}
        BY <1>0, <2>1, <2>3 DEF Call, AfterReceive
      <3>2. CountersUnparked'
        BY <1>0, <2>1, <2>2, <2>3, <3>1
           DEF CountersUnparked, CountersAreTrue, Parked, BeforeFirst, BeforeSecond, Routing
      <3>3. QED
        BY <3>2 DEF CountersUnparked, CountersAreTrue
    <2>4. CASE Call # "first"
      <3>1. pc \in {"second", "second_parked"} /\ pc' = "exited"
        BY <1>0, <2>1, <2>4 DEF Call, AfterReceive, Awaits
      <3>2. CountersUnparked'
        BY <1>0, <2>1, <2>2, <3>1
           DEF CountersUnparked, CountersAreTrue, Parked, BeforeFirst, BeforeSecond, Routing
      <3>3. QED
        BY <3>2 DEF CountersUnparked, CountersAreTrue
    <2>5. QED
      BY <2>3, <2>4
  <1>5. QED
    BY <1>2, <1>3, <1>4, ReceiveCases

LEMMA CountersStep ==
    ASSUME TypeOK, Sound(history), ScopeIsTrue, RegistryIsTrue, CountersAreTrue,
           UNCHANGED history \/ Appends, [Next]_vars
    PROVE  CountersAreTrue'
  <1>0. history \in Seq(Events) /\ consumed \in Nat
    BY DEF TypeOK
  <1>1. /\ FirstReceived(history) => FirstReceived(history')
        /\ FirstTimedOut(history) => FirstTimedOut(history')
        /\ Count(history, {"Received"}) \in Nat /\ Count(history', {"Received"}) \in Nat
        /\ Count(history, {"Received"}) <= Count(history', {"Received"})
        /\ history' \in Seq(Events)
    BY <1>0, HistoryKeeps
  <1>a. UNCHANGED consumed => consumed' <= Count(history', {"Received"})
    BY <1>0, <1>1 DEF CountersAreTrue
  <1>b. ~Parked => pin = NoIndex
    BY DEF CountersAreTrue
  <1>2. CASE UNCHANGED <<pc, consumed, sends, pin, got>>
    BY <1>2, CountersKept
  <1>3. CASE receive_signal
    BY <1>3, ReceiveCounters
  <1>4. CASE arm_scope
    <2>1. pc = "arm" /\ pc' = "first" /\ UNCHANGED <<consumed, sends, pin>>
      BY <1>4 DEF arm_scope, At, handle
    <2>2. CountersUnparked'
      BY <1>a, <1>b, <2>1
         DEF CountersUnparked, CountersAreTrue, Parked, BeforeFirst, BeforeSecond, Routing
    <2>3. QED
      BY <2>2 DEF CountersUnparked, CountersAreTrue
  <1>5. CASE resume_with_timeout
    <2>1. pc = "settle" /\ pc' = "send" /\ UNCHANGED <<consumed, sends, pin, got>>
      BY <1>5 DEF resume_with_timeout, At, handle
    <2>2. CountersUnparked'
      BY <1>1, <1>a, <1>b, <2>1
         DEF CountersUnparked, CountersAreTrue, Parked, BeforeFirst, BeforeSecond, Routing
    <2>3. QED
      BY <2>2 DEF CountersUnparked, CountersAreTrue
  <1>6. CASE send_signal
    <2>1. pc = "send" /\ UNCHANGED <<consumed, pin, got>> /\ sends = 0
      BY <1>6 DEF send_signal, At, answers, CountersAreTrue, Routing
    <2>2. CASE Has(history, "Sent")
      <3>1. sends' = 1 /\ pc' = "second"
        BY <1>6, <2>1, <2>2, SendIndex DEF send_signal
      <3>2. CountersUnparked'
        BY <1>1, <1>a, <1>b, <2>1, <3>1
           DEF CountersUnparked, CountersAreTrue, Parked, BeforeFirst, BeforeSecond, Routing
      <3>3. QED
        BY <3>2 DEF CountersUnparked, CountersAreTrue
    <2>3. CASE ~Has(history, "Sent")
      <3>1. sends' = 0 /\ pc' = "record_send" /\ (UNCHANGED history \/ RecordReceived(Own))
        BY <1>6, <2>1, <2>3, SendIndex DEF send_signal
      <3>2. ~Has(history', "Sent")
        <4>1. CASE UNCHANGED history
          BY <2>3, <4>1
        <4>2. CASE RecordReceived(Own)
          <5>1. Adds(history, Event("Received", Own), history')
            BY <4>2 DEF RecordReceived, Adds
          <5>2. QED
            BY <1>0, <2>3, <5>1, AppendHas, EventFacts
        <4>3. QED
          BY <3>1, <4>1, <4>2
      <3>3. CountersUnparked'
        BY <1>1, <1>a, <1>b, <2>1, <3>1, <3>2
           DEF CountersUnparked, CountersAreTrue, Parked, BeforeFirst, BeforeSecond, Routing
      <3>4. QED
        BY <3>3 DEF CountersUnparked, CountersAreTrue
    <2>4. QED
      BY <2>2, <2>3
  <1>7. CASE RecordSend
    <2>1. /\ pc = "record_send" /\ pc' = "second" /\ UNCHANGED <<consumed, pin, got>>
          /\ sends' = sends + 1 /\ sends = 0
      BY <1>7 DEF RecordSend, At, answers, CountersAreTrue
    <2>2. CountersUnparked'
      BY <1>1, <1>a, <1>b, <2>1
         DEF CountersUnparked, CountersAreTrue, Parked, BeforeFirst, BeforeSecond, Routing
    <2>3. QED
      BY <2>2 DEF CountersUnparked, CountersAreTrue
  <1>8. CASE handle_process_exit
    <2>1. pc = "exited" /\ pc' = "gone" /\ UNCHANGED <<consumed, sends, pin, got>>
      BY <1>8 DEF handle_process_exit, At, answers
    <2>2. CountersUnparked'
      BY <1>1, <1>a, <1>b, <2>1
         DEF CountersUnparked, CountersAreTrue, Parked, BeforeFirst, BeforeSecond, Routing
    <2>3. QED
      BY <2>2 DEF CountersUnparked, CountersAreTrue
  <1>9. CASE Crash
    BY <1>1, <1>9, FreshCounters DEF Crash
  <1>10. CASE Revive \/ Boot
    <2>1. pc = "none" /\ UNCHANGED <<pin, got>>
      BY <1>10 DEF Revive, Boot, RegistryIsTrue, answers
    <2>2. UNCHANGED <<pc, consumed, sends>> \/ (consumed' = 0 /\ sends' = 0 /\ pc' = "arm")
      BY <1>10 DEF Revive, Boot, Respawn, handle
    <2>3. pin' = NoIndex
      BY <1>b, <2>1 DEF Parked
    <2>4. QED
      BY <1>1, <1>2, <2>1, <2>2, <2>3, FreshCounters
  <1>11. \/ UNCHANGED <<pc, consumed, sends, pin, got>>
         \/ receive_signal \/ arm_scope \/ resume_with_timeout \/ send_signal \/ RecordSend
         \/ handle_process_exit \/ Crash \/ Revive \/ Boot
    BY StepCases
       DEF ScopeWakes, ScopeFires, RouteRecord, RouteDeliver, OneShot, Lookup, deliver_deferred,
           Suspend, resume_workflow, Pause, ResumePaused, vars, process, handle, answers
  <1>12. QED
    BY <1>2, <1>3, <1>4, <1>5, <1>6, <1>7, <1>8, <1>9, <1>10, <1>11

-----------------------------------------------------------------------------
(***************************************************************************)
(* The answers, the sends and the calls.                                   *)
(***************************************************************************)
LEMMA AnswersStep ==
    ASSUME TypeOK, Sound(history), ScopeIsTrue, CountersAreTrue, AnswersAreTrue,
           UNCHANGED history \/ Appends, [Next]_vars
    PROVE  AnswersAreTrue'
  <1>0. /\ history \in Seq(Events)
        /\ got \in [{"first", "second"} -> SUBSET (Signal \cup {Own, Timeout, Error})]
    BY DEF TypeOK
  <1>1. CASE UNCHANGED got
    <2>1. /\ FirstReceived(history) => FirstReceived(history')
          /\ FirstTimedOut(history) => FirstTimedOut(history')
          /\ \A k, x : ArrivalIs(history, k, x) => ArrivalIs(history', k, x)
      BY <1>0, HistoryKeeps
    <2>2. QED
      BY <1>1, <2>1 DEF AnswersAreTrue
  <1>2. CASE receive_signal
    <2>1. UNCHANGED history /\ pc \in Awaits
      BY <1>2 DEF receive_signal, durable, At
    <2>2. CASE Parks
      BY <1>1, <2>2 DEF Parks
    <2>3. CASE TimesOut
      <3>1. /\ got'["first"] = got["first"] \cup {Timeout} /\ got'["second"] = got["second"]
            /\ FirstTimedOut(history)
        BY <1>0, <2>3 DEF TimesOut, AnswerWith
      <3>2. QED
        BY <2>1, <3>1 DEF AnswersAreTrue
    <2>4. CASE Receives
      <3>1. PICK i \in Positions(history, {"Received"}) :
                /\ Nth(history, "Received", i, consumed)
                /\ got' = [got EXCEPT ![Call] = @ \cup {history[i].payload}]
                /\ Call = "first" => FirstReceived(history)
        BY <2>4 DEF Receives
      <3>2. ArrivalIs(history, consumed, history[i].payload)
        BY <3>1 DEF ArrivalIs
      <3>3. history[i].payload # Timeout
        <4>1. history[i] \in Events
          BY <1>0, <3>1, PositionFacts
        <4>2. QED
          BY <4>1 DEF Events, Signal, Own, Timeout
      <3>4. CASE Call = "first"
        <4>1. consumed = 0
          BY <3>4, <2>1 DEF Call, CountersAreTrue, BeforeFirst
        <4>2. got'["first"] = got["first"] \cup {history[i].payload} /\ got'["second"] = got["second"]
          BY <1>0, <3>1, <3>4
        <4>3. QED
          BY <2>1, <3>1, <3>2, <3>3, <3>4, <4>1, <4>2 DEF AnswersAreTrue
      <3>5. CASE Call # "first"
        <4>1. Call = "second" /\ pc \in {"second", "second_parked"}
          BY <2>1, <3>5 DEF Call, Awaits
        <4>2. got'["second"] = got["second"] \cup {history[i].payload} /\ got'["first"] = got["first"]
          BY <1>0, <3>1, <4>1
        <4>3. /\ got["first"] # {}
              /\ \/ consumed = 1 /\ FirstReceived(history)
                 \/ consumed = 0 /\ FirstTimedOut(history)
          BY <4>1 DEF CountersAreTrue, BeforeSecond
        <4>4. QED
          BY <2>1, <3>2, <4>2, <4>3 DEF AnswersAreTrue
      <3>6. QED
        BY <3>4, <3>5
    <2>5. QED
      BY <1>2, <2>2, <2>3, <2>4, ReceiveCases
  <1>3. UNCHANGED got \/ receive_signal
    BY StepCases
       DEF arm_scope, resume_with_timeout, send_signal, RecordSend, handle_process_exit, Crash, Revive,
           Boot, ScopeWakes, ScopeFires, RouteRecord, RouteDeliver, OneShot, Lookup, deliver_deferred,
           Suspend, resume_workflow, Pause, ResumePaused, vars, answers
  <1>4. QED
    BY <1>1, <1>2, <1>3

-----------------------------------------------------------------------------
\* What has been routed is the other run's arrivals, or the own ones.
Owned(h, t, p) == IF t = "peer" THEN p ELSE Cardinality(OwnArrivals(h))

LEMMA RoutedIs == Routed = Owned(history, target, peer) /\ Routed' = Owned(history', target', peer')
  BY DEF Routed, Owned, OwnArrivals

\* Only send_signal routes the run's own send.
LEMMA OwnStep ==
    ASSUME TypeOK, [Next]_vars, ~send_signal
    PROVE  Routed' = Routed
  <1>0. history \in Seq(Events)
    BY DEF TypeOK
  <1>1. UNCHANGED <<target, peer>>
    BY StepCases
       DEF arm_scope, receive_signal, resume_with_timeout, RecordSend, handle_process_exit, Crash, Revive,
           Boot, ScopeWakes, ScopeFires, RouteRecord, RouteDeliver, OneShot, Lookup, deliver_deferred,
           Suspend, resume_workflow, Pause, ResumePaused, vars, durable
  <1>2. \/ UNCHANGED history
        \/ \E t \in {"Started", "Fired", "Cancelled", "Sent", "Ended"} : Record(t)
        \/ \E x \in Signal : RecordReceived(x)
    BY StepCases
       DEF arm_scope, resume_with_timeout, receive_signal, RecordSend, handle_process_exit, ScopeWakes,
           ScopeFires, RouteRecord, RouteDeliver, OneShot, Lookup, deliver_deferred, Revive, Boot,
           Suspend, resume_workflow, Pause, ResumePaused, Crash, vars, durable
  <1>3. ASSUME NEW e \in Events, Adds(history, e, history'), e # Event("Received", Own)
        PROVE  OwnArrivals(history') = OwnArrivals(history)
    BY <1>0, <1>3, AppendArrivals
  <1>4. OwnArrivals(history') = OwnArrivals(history)
    <2>1. CASE UNCHANGED history
      BY <2>1
    <2>2. ASSUME NEW t \in {"Started", "Fired", "Cancelled", "Sent", "Ended"}, Record(t)
          PROVE  OwnArrivals(history') = OwnArrivals(history)
      <3>1. Event(t, Own) \in Events /\ Event(t, Own) # Event("Received", Own)
        BY EventFacts
      <3>2. QED
        BY <1>3, <2>2, <3>1 DEF Record, Adds
    <2>3. ASSUME NEW x \in Signal, RecordReceived(x)
          PROVE  OwnArrivals(history') = OwnArrivals(history)
      BY <1>3, <2>3, EventFacts DEF RecordReceived, Adds
    <2>4. QED
      BY <1>2, <2>1, <2>2, <2>3
  <1>5. QED
    BY <1>1, <1>4, RoutedIs DEF Owned

LEMMA RoutedType ==
    ASSUME TypeOK
    PROVE  Routed \in Nat /\ crashes \in Nat
  <1>1. /\ history \in Seq(Events) /\ peer \in Nat /\ crashes \in Nat
    BY DEF TypeOK
  <1>2. OwnArrivals(history) \subseteq 1 .. Len(history) /\ IsFiniteSet(1 .. Len(history))
    BY <1>1, PositionFacts, FS_Interval DEF OwnArrivals
  <1>3. IsFiniteSet(OwnArrivals(history))
    BY <1>2, FS_Subset
  <1>4. Cardinality(OwnArrivals(history)) \in Nat
    BY <1>3, FS_CardinalityType
  <1>5. QED
    BY <1>1, <1>4, RoutedIs DEF Owned

LEMMA SendsStep ==
    ASSUME TypeOK, Sound(history), ScopeIsTrue, RegistryIsTrue, CountersAreTrue, SendsAreTrue,
           [Next]_vars
    PROVE  SendsAreTrue'
  <1>0. history \in Seq(Events) /\ Routed \in Nat /\ crashes \in Nat
    BY RoutedType DEF TypeOK
  <1>1. ASSUME UNCHANGED <<history, crashes, pc>>, Routed' = Routed PROVE SendsAreTrue'
    BY <1>1 DEF SendsAreTrue
  <1>2. CASE send_signal
    <2>1. pc = "send" /\ sends = 0 /\ UNCHANGED <<target, crashes>>
      BY <1>2 DEF send_signal, At, CountersAreTrue, Routing, bounds
    <2>2. CASE Has(history, "Sent")
      <3>1. UNCHANGED <<history, peer>> /\ pc' = "second"
        BY <1>2, <2>1, <2>2, SendIndex DEF send_signal
      <3>2. Routed' = Routed
        BY <2>1, <3>1, RoutedIs
      <3>3. QED
        BY <1>0, <2>1, <3>1, <3>2 DEF SendsAreTrue, Routing
    <2>3. CASE ~Has(history, "Sent")
      <3>1. /\ pc' = "record_send"
            /\ IF target = "self" THEN RecordReceived(Own) ELSE peer' = peer + 1
        BY <1>2, <2>1, <2>3, SendIndex DEF send_signal
      <3>2. Routed' = Routed + 1
        <4>1. CASE target = "self"
          <5>1. Adds(history, Event("Received", Own), history') /\ Event("Received", Own) \in Events
            BY <3>1, <4>1, EventFacts DEF RecordReceived, Adds
          <5>2. Cardinality(OwnArrivals(history')) = Cardinality(OwnArrivals(history)) + 1
            BY <1>0, <5>1, AppendArrivals
          <5>3. QED
            BY <2>1, <4>1, <5>2, RoutedIs DEF Owned
        <4>2. CASE target # "self"
          <5>1. target = "peer" /\ peer' = peer + 1
            BY <3>1, <4>2 DEF TypeOK
          <5>2. QED
            BY <2>1, <5>1, RoutedIs DEF Owned
        <4>3. QED
          BY <4>1, <4>2
      <3>3. QED
        BY <1>0, <2>1, <3>1, <3>2 DEF SendsAreTrue, Routing
    <2>4. QED
      BY <2>2, <2>3
  <1>3. ~send_signal => Routed' = Routed
    BY OwnStep
  <1>4. ASSUME ~send_signal, Has(history', "Sent") => Has(history, "Sent") \/ pc = "record_send",
               UNCHANGED crashes,
               pc' = "record_send" => pc = "record_send",
               pc \in Routing => pc' \in Routing
        PROVE  SendsAreTrue'
    BY <1>0, <1>3, <1>4 DEF SendsAreTrue
  <1>5. CASE Crash
    <2>1. /\ UNCHANGED history /\ crashes' = crashes + 1 /\ pc' = "none"
      BY <1>5 DEF Crash, durable
    <2>2. ~send_signal
      BY <1>0, <2>1 DEF send_signal, bounds
    <2>3. QED
      BY <1>0, <1>3, <2>1, <2>2 DEF SendsAreTrue, Routing
  <1>6. ASSUME ~send_signal, ~Crash PROVE SendsAreTrue'
    <2>1. Has(history', "Sent") => Has(history, "Sent") \/ pc = "record_send"
      <3>1. UNCHANGED history \/ (\E t \in {"Started", "Fired", "Cancelled", "Ended"} : Record(t))
            \/ (\E x \in Signal : RecordReceived(x)) \/ pc = "record_send"
        BY <1>6, StepCases
           DEF arm_scope, resume_with_timeout, receive_signal, RecordSend, handle_process_exit, ScopeWakes,
               ScopeFires, RouteRecord, RouteDeliver, OneShot, Lookup, deliver_deferred, Revive, Boot,
               Suspend, resume_workflow, Pause, ResumePaused, vars, durable, At
      <3>2. ASSUME NEW t \in {"Started", "Fired", "Cancelled", "Ended"}, Record(t)
            PROVE  Has(history', "Sent") => Has(history, "Sent")
        <4>1. Event(t, Own) \in Events /\ Event(t, Own).type # "Sent" /\ Adds(history, Event(t, Own), history')
          BY <3>2, EventFacts DEF Record, Adds
        <4>2. QED
          BY <1>0, <4>1, AppendHas
      <3>3. ASSUME NEW x \in Signal, RecordReceived(x)
            PROVE  Has(history', "Sent") => Has(history, "Sent")
        <4>1. /\ Event("Received", x) \in Events /\ Event("Received", x).type # "Sent"
              /\ Adds(history, Event("Received", x), history')
          BY <3>3, EventFacts DEF RecordReceived, Adds
        <4>2. QED
          BY <1>0, <4>1, AppendHas
      <3>4. QED
        BY <3>1, <3>2, <3>3
    <2>2. UNCHANGED crashes
      BY <1>6, StepCases
         DEF arm_scope, resume_with_timeout, receive_signal, RecordSend, handle_process_exit, ScopeWakes,
             ScopeFires, RouteRecord, RouteDeliver, OneShot, Lookup, deliver_deferred, Revive, Boot,
             Suspend, resume_workflow, Pause, ResumePaused, vars, bounds
    <2>3. (pc' = "record_send" => pc = "record_send") /\ (pc \in Routing => pc' \in Routing)
      <3>1. CASE receive_signal
        <4>1. pc \in Awaits /\ pc' \in {ParkedAt, AfterReceive}
          BY <3>1, ReceiveCases DEF receive_signal, At, Parks, TimesOut, Receives, AnswerWith
        <4>2. QED
          BY <4>1 DEF Awaits, ParkedAt, AfterReceive, Call, Routing
      <3>2. CASE UNCHANGED pc
        BY <3>2
      <3>3. CASE Revive \/ Boot
        <4>1. pc = "none" /\ pc' \in {"none", "arm"}
          BY <3>3 DEF Revive, Boot, Respawn, RegistryIsTrue
        <4>2. QED
          BY <4>1 DEF Routing
      <3>4. arm_scope \/ resume_with_timeout \/ RecordSend \/ handle_process_exit =>
                /\ pc' \in {"first", "send", "second", "gone"}
                /\ pc \in Routing => pc' \in Routing
        BY DEF arm_scope, resume_with_timeout, RecordSend, handle_process_exit, At, Routing
      <3>5. UNCHANGED pc \/ receive_signal \/ Revive \/ Boot
            \/ arm_scope \/ resume_with_timeout \/ RecordSend \/ handle_process_exit
        BY <1>6, StepCases
           DEF ScopeWakes, ScopeFires, RouteRecord, RouteDeliver, OneShot, Lookup, deliver_deferred,
               Suspend, resume_workflow, Pause, ResumePaused, vars, process
      <3>6. QED
        BY <3>1, <3>2, <3>3, <3>4, <3>5
    <2>4. QED
      BY <1>4, <1>6, <2>1, <2>2, <2>3
  <1>7. QED
    BY <1>2, <1>5, <1>6

-----------------------------------------------------------------------------
LEMMA RecordKept ==
    ASSUME NEW h \in Seq(Events), NEW e \in Events, NEW g, Adds(h, e, g), NEW s, e.payload # s,
           NEW step, RecordOf(h, step, s)
    PROVE  RecordOf(g, step, s)
  <1>1. Arrivals(g, s) = Arrivals(h, s)
    <2>1. Arrivals(g, s) = Arrivals(h, s) \cup (IF e.payload = s THEN {Len(h) + 1} ELSE {})
      BY AppendArrivals
    <2>2. QED
      BY <2>1
  <1>2. QED
    BY <1>1 DEF RecordOf

LEMMA RecordMade ==
    ASSUME NEW h \in Seq(Events), NEW e \in Events, NEW g, Adds(h, e, g), NEW s, e.payload = s,
           NEW step \in {"record", "oneshot"}, RecordOf(h, step, s),
           NEW next \in {"deliver", "accepted"}
    PROVE  RecordOf(g, next, s)
  <1>1. Arrivals(h, s) = {}
    BY DEF RecordOf
  <1>2. Arrivals(g, s) = {Len(h) + 1}
    BY <1>1, AppendArrivals
  <1>3. QED
    BY <1>2 DEF RecordOf

\* A call that records its signal s.
LEMMA CallRecords ==
    ASSUME TypeOK, CallsAreTrue, NEW s \in Signal, RecordReceived(s),
           route[s].step \in {"record", "oneshot"}, route'[s].step \in {"deliver", "accepted"},
           \A r \in Signal : r # s => route'[r] = route[r]
    PROVE  CallsAreTrue'
  <1>0. history \in Seq(Events)
    BY DEF TypeOK
  <1>1. /\ Adds(history, Event("Received", s), history') /\ Event("Received", s) \in Events
        /\ Event("Received", s).payload = s
    BY EventFacts DEF RecordReceived, Adds
  <1>2. RecordOf(history', route'[s].step, s)
    <2>1. RecordOf(history, route[s].step, s)
      BY DEF CallsAreTrue
    <2>2. QED
      BY <1>0, <1>1, <2>1, RecordMade
  <1>3. ASSUME NEW r \in Signal, r # s PROVE RecordOf(history', route'[r].step, r)
    <2>1. RecordOf(history, route[r].step, r) /\ route'[r] = route[r]
      BY <1>3 DEF CallsAreTrue
    <2>2. QED
      BY <1>0, <1>1, <1>3, <2>1, RecordKept
  <1>4. QED
    BY <1>2, <1>3 DEF CallsAreTrue

\* The other steps record nothing of a client's.
LEMMA OthersRecordOwn ==
    ASSUME [Next]_vars, \A s \in Signal : ~RouteRecord(s) /\ ~OneShot(s)
    PROVE  UNCHANGED history \/ \E e \in Events : Adds(history, e, history') /\ e.payload = Own
  <1>1. \/ UNCHANGED history
        \/ \E t \in {"Started", "Fired", "Cancelled", "Sent", "Ended"} : Record(t)
        \/ RecordReceived(Own)
    BY StepCases
       DEF arm_scope, resume_with_timeout, receive_signal, send_signal, RecordSend, handle_process_exit,
           ScopeWakes, ScopeFires, RouteDeliver, Lookup, deliver_deferred, Revive, Boot,
           Suspend, resume_workflow, Pause, ResumePaused, Crash, vars, durable
  <1>2. ASSUME NEW t \in {"Started", "Fired", "Cancelled", "Sent", "Ended", "Received"},
               history' = Append(history, Event(t, Own))
        PROVE  \E e \in Events : Adds(history, e, history') /\ e.payload = Own
    BY <1>2, EventFacts DEF Adds
  <1>3. QED
    BY <1>1, <1>2 DEF Record, RecordReceived

LEMMA CallsKept ==
    ASSUME TypeOK, CallsAreTrue,
           UNCHANGED history \/ \E e \in Events : Adds(history, e, history') /\ e.payload = Own,
           \A s \in Signal : \/ route'[s].step = route[s].step
                             \/ route'[s].step = "lost"
                             \/ /\ route[s].step \in {"new", "record", "oneshot"}
                                /\ route'[s].step \in {"new", "record", "oneshot", "rejected"}
                             \/ route[s].step = "deliver" /\ route'[s].step = "accepted"
    PROVE  CallsAreTrue'
  <1>0. history \in Seq(Events)
    BY DEF TypeOK
  <1>1. ASSUME NEW s \in Signal PROVE RecordOf(history', route[s].step, s)
    <2>1. RecordOf(history, route[s].step, s)
      BY DEF CallsAreTrue
    <2>2. s # Own
      BY EventFacts
    <2>3. QED
      BY <1>0, <2>1, <2>2, RecordKept
  <1>2. ASSUME NEW s \in Signal PROVE RecordOf(history', route'[s].step, s)
    BY <1>1 DEF RecordOf
  <1>3. QED
    BY <1>2 DEF CallsAreTrue

LEMMA CallsStep ==
    ASSUME TypeOK, CallsAreTrue, [Next]_vars
    PROVE  CallsAreTrue'
  <1>0. route \in [Signal -> [step : {"new", "record", "deliver", "oneshot", "accepted",
                                      "rejected", "lost"},
                              read : 0 .. LastSeq]]
    BY DEF TypeOK
  <1>1. ASSUME NEW s \in Signal, RouteRecord(s) PROVE CallsAreTrue'
    <2>1. route[s].step = "record"
      BY <1>1 DEF RouteRecord
    <2>2. CASE Ended
      <3>1. UNCHANGED history /\ Replies(s, "rejected")
        BY <1>1, <2>2 DEF RouteRecord
      <3>2. QED
        BY <1>0, <2>1, <3>1, CallsKept DEF Replies
    <2>3. CASE ~Ended
      <3>1. RecordReceived(s) /\ Goes(s, "deliver")
        BY <1>1, <2>3 DEF RouteRecord
      <3>2. route'[s].step = "deliver" /\ \A r \in Signal : r # s => route'[r] = route[r]
        BY <1>0, <3>1 DEF Goes
      <3>3. QED
        BY <2>1, <3>1, <3>2, CallRecords
    <2>4. QED
      BY <2>2, <2>3
  <1>2. ASSUME NEW s \in Signal, OneShot(s) PROVE CallsAreTrue'
    <2>1. route[s].step = "oneshot"
      BY <1>2 DEF OneShot
    <2>2. CASE LastSeq # route[s].read
      <3>1. UNCHANGED history /\ Replies(s, "rejected")
        BY <1>2, <2>2 DEF OneShot
      <3>2. QED
        BY <1>0, <2>1, <3>1, CallsKept DEF Replies
    <2>3. CASE LastSeq = route[s].read
      <3>1. RecordReceived(s) /\ Replies(s, "accepted")
        BY <1>2, <2>3 DEF OneShot
      <3>2. route'[s].step = "accepted" /\ \A r \in Signal : r # s => route'[r] = route[r]
        BY <1>0, <3>1 DEF Replies
      <3>3. QED
        BY <2>1, <3>1, <3>2, CallRecords
    <2>4. QED
      BY <2>2, <2>3
  <1>3. ASSUME \A s \in Signal : ~RouteRecord(s) /\ ~OneShot(s) PROVE CallsAreTrue'
    <2>1. UNCHANGED history \/ \E e \in Events : Adds(history, e, history') /\ e.payload = Own
      BY <1>3, OthersRecordOwn
    <2>2. CASE UNCHANGED route
      BY <2>1, <2>2, CallsKept
    <2>3. ASSUME NEW s \in Signal, Lookup(s) PROVE CallsAreTrue'
      <3>1. route[s].step = "new" /\ route'[s].step \in {"record", "oneshot", "rejected"}
        BY <1>0, <2>3 DEF Lookup
      <3>2. \A r \in Signal : r # s => route'[r] = route[r]
        BY <1>0, <2>3 DEF Lookup
      <3>3. QED
        BY <2>1, <3>1, <3>2, CallsKept
    <2>4. ASSUME NEW s \in Signal, RouteDeliver(s) PROVE CallsAreTrue'
      BY <1>0, <2>1, <2>4, CallsKept DEF RouteDeliver, Replies
    <2>5. CASE Crash
      BY <1>0, <2>1, <2>5, CallsKept DEF Crash
    <2>6. \/ UNCHANGED route \/ Crash
          \/ \E s \in Signal : Lookup(s) \/ RouteDeliver(s)
      BY <1>3, StepCases
         DEF arm_scope, resume_with_timeout, receive_signal, send_signal, RecordSend, handle_process_exit,
             ScopeWakes, ScopeFires, deliver_deferred, Revive, Boot,
             Suspend, resume_workflow, Pause, ResumePaused, vars
    <2>7. QED
      BY <2>2, <2>3, <2>4, <2>5, <2>6
  <1>4. QED
    BY <1>1, <1>2, <1>3

\* A one-shot append that can still succeed has met no step since it read the head.
LEMMA OneShotsKept ==
    ASSUME TypeOK, OneShotsAreTrue, UNCHANGED history \/ Appends,
           toggles' \in Nat, toggles <= toggles',
           \A s \in Signal : route'[s].step = "oneshot" => route'[s] = route[s],
           toggles' = toggles /\ Paused /\ ~registered => ~registered'
    PROVE  OneShotsAreTrue'
  <1>0. /\ history \in Seq(Events) /\ toggles \in Nat
        /\ route \in [Signal -> [step : {"new", "record", "deliver", "oneshot", "accepted",
                                         "rejected", "lost"},
                                 read : 0 .. LastSeq]]
    BY DEF TypeOK
  <1>1. Len(history) \in Nat /\ Len(history') \in Nat /\ Len(history) <= Len(history')
    BY <1>0, HistoryKeeps
  <1>2. Appends => Len(history') = Len(history) + 1
    BY <1>0, AppendFacts DEF Appends
  <1>3. SUFFICES ASSUME NEW s \in Signal, route'[s].step = "oneshot", LastSeq' = route'[s].read
                 PROVE  Paused' /\ ~registered' /\ ~Has(history', "Ended")
    BY DEF OneShotsAreTrue
  <1>4. route'[s] = route[s] /\ route[s].read \in 0 .. LastSeq
    BY <1>0, <1>3
  <1>5. LastSeq = Len(history) + toggles /\ LastSeq' = Len(history') + toggles'
    BY DEF LastSeq
  <1>6. LastSeq' = LastSeq /\ Len(history') = Len(history) /\ toggles' = toggles
    BY <1>0, <1>1, <1>3, <1>4, <1>5
  <1>7. UNCHANGED history
    BY <1>1, <1>2, <1>6
  <1>8. Paused /\ ~registered /\ ~Has(history, "Ended")
    BY <1>3, <1>4, <1>6 DEF OneShotsAreTrue
  <1>9. QED
    BY <1>6, <1>7, <1>8 DEF Paused

LEMMA OneShotsStep ==
    ASSUME TypeOK, RegistryIsTrue, OneShotsAreTrue, UNCHANGED history \/ Appends, [Next]_vars
    PROVE  OneShotsAreTrue'
  <1>0. /\ toggles \in Nat
        /\ route \in [Signal -> [step : {"new", "record", "deliver", "oneshot", "accepted",
                                         "rejected", "lost"},
                                 read : 0 .. LastSeq]]
    BY DEF TypeOK
  <1>1. CASE UNCHANGED <<toggles, route, registered>>
    BY <1>0, <1>1, OneShotsKept
  <1>2. CASE Pause \/ ResumePaused
    <2>1. UNCHANGED <<route, registered>> /\ toggles' \in {toggles, toggles + 1}
      BY <1>2 DEF Pause, ResumePaused, handle
    <2>2. QED
      BY <1>0, <2>1, OneShotsKept
  <1>3. CASE handle_process_exit \/ Crash
    <2>1. UNCHANGED toggles /\ registered' = FALSE
      BY <1>3 DEF handle_process_exit, Crash, durable
    <2>2. \A s \in Signal : route'[s].step = "oneshot" => route'[s] = route[s]
      BY <1>0, <1>3 DEF handle_process_exit, Crash
    <2>3. QED
      BY <1>0, <2>1, <2>2, OneShotsKept
  <1>4. CASE Revive
    <2>1. UNCHANGED route /\ (toggles' = toggles + 1 \/ UNCHANGED <<toggles, registered>>)
      BY <1>4 DEF Revive, handle
    <2>2. QED
      BY <1>0, <2>1, OneShotsKept
  <1>5. CASE Boot
    <2>1. UNCHANGED <<route, toggles>> /\ (Paused => UNCHANGED registered)
      BY <1>5 DEF Boot, handle, durable
    <2>2. QED
      BY <1>0, <2>1, OneShotsKept
  <1>6. ASSUME NEW s \in Signal, Lookup(s) PROVE OneShotsAreTrue'
    <2>1. UNCHANGED <<toggles, history, registered>> /\ \A r \in Signal : r # s => route'[r] = route[r]
      BY <1>0, <1>6 DEF Lookup, durable, handle
    <2>2. LastSeq' = LastSeq /\ (Paused' <=> Paused)
      BY <2>1 DEF LastSeq, Paused
    <2>3. route'[s].step = "oneshot" => ~registered /\ Paused /\ ~Has(history, "Ended")
      BY <1>0, <1>6, RecordedHas DEF Lookup, Ended
    <2>4. QED
      BY <2>1, <2>2, <2>3 DEF OneShotsAreTrue
  <1>7. ASSUME NEW s \in Signal, RouteRecord(s) \/ RouteDeliver(s) \/ OneShot(s)
        PROVE  OneShotsAreTrue'
    <2>1. UNCHANGED <<toggles, registered>>
      BY <1>7 DEF RouteRecord, RouteDeliver, OneShot, handle, durable
    <2>2. \A r \in Signal : route'[r].step = "oneshot" => route'[r] = route[r]
      BY <1>0, <1>7 DEF RouteRecord, RouteDeliver, OneShot, Goes, Replies
    <2>3. QED
      BY <1>0, <2>1, <2>2, OneShotsKept
  <1>8. \/ UNCHANGED <<toggles, route, registered>>
        \/ Pause \/ ResumePaused \/ handle_process_exit \/ Crash \/ Revive \/ Boot
        \/ \E s \in Signal : Lookup(s) \/ RouteRecord(s) \/ RouteDeliver(s) \/ OneShot(s)
    BY StepCases
       DEF arm_scope, resume_with_timeout, receive_signal, send_signal, RecordSend, ScopeWakes,
           ScopeFires, deliver_deferred, Suspend, resume_workflow, vars, durable, handle
  <1>9. QED
    BY <1>1, <1>2, <1>3, <1>4, <1>5, <1>6, <1>7, <1>8

-----------------------------------------------------------------------------
(***************************************************************************)
(* The hand-off queue, and the wake of a parked receive.                   *)
(***************************************************************************)
LEMMA SignalsFinite == IsFiniteSet(Signal) /\ Cardinality(Signal) = MaxSignals
  BY FS_Interval DEF Signal

LEMMA AcceptedFinite ==
    IsFiniteSet(Accepted) /\ Cardinality(Accepted) \in Nat /\ Cardinality(Accepted) <= Cardinality(Signal)
  <1>1. Accepted \subseteq Signal
    BY DEF Accepted
  <1>2. QED
    BY <1>1, SignalsFinite, FS_Subset, FS_CardinalityType

\* Calls stay accepted.
LEMMA AcceptedGrows ==
    ASSUME TypeOK, [Next]_vars
    PROVE  /\ Accepted \subseteq Accepted'
           /\ Cardinality(Accepted') \in Nat /\ Cardinality(Accepted) <= Cardinality(Accepted')
           /\ \A s \in Signal : RouteDeliver(s) => Cardinality(Accepted') = Cardinality(Accepted) + 1
  <1>0. route \in [Signal -> [step : {"new", "record", "deliver", "oneshot", "accepted",
                                      "rejected", "lost"},
                              read : 0 .. LastSeq]]
    BY DEF TypeOK
  <1>1. ASSUME NEW r \in Signal, route[r].step = "accepted" PROVE route'[r].step = "accepted"
    BY <1>0, <1>1, StepCases
       DEF arm_scope, resume_with_timeout, receive_signal, send_signal, RecordSend, handle_process_exit,
           ScopeWakes, ScopeFires, deliver_deferred, Revive, Boot, Crash, Suspend, resume_workflow, Pause,
           ResumePaused, vars, RouteRecord, RouteDeliver, OneShot, Lookup, Goes, Replies
  <1>2. Accepted \subseteq Accepted'
    BY <1>1 DEF Accepted
  <1>3. Accepted' \subseteq Signal
    BY DEF Accepted
  <1>4. IsFiniteSet(Accepted') /\ Cardinality(Accepted') \in Nat
    BY <1>3, SignalsFinite, FS_Subset, FS_CardinalityType
  <1>5. Cardinality(Accepted) <= Cardinality(Accepted')
    BY <1>2, <1>4, FS_Subset
  <1>6. ASSUME NEW s \in Signal, RouteDeliver(s) PROVE Cardinality(Accepted') = Cardinality(Accepted) + 1
    <2>1. route[s].step = "deliver" /\ route' = [route EXCEPT ![s] = [step |-> "accepted", read |-> 0]]
      BY <1>6 DEF RouteDeliver, Replies
    <2>2. Accepted' = Accepted \cup {s} /\ s \notin Accepted
      BY <1>0, <2>1 DEF Accepted
    <2>3. QED
      BY <2>2, AcceptedFinite, FS_AddElement
  <1>7. QED
    BY <1>2, <1>4, <1>5, <1>6

LEMMA HandoffStep ==
    ASSUME TypeOK, Sound(history), ScopeIsTrue, RegistryIsTrue, CountersAreTrue, HandoffIsBounded,
           [Next]_vars
    PROVE  HandoffIsBounded'
  <1>0. deferred \in Nat /\ Cardinality(Accepted) \in Nat /\ Cardinality(Accepted') \in Nat
        /\ Cardinality(Accepted) <= Cardinality(Accepted')
    <2>1. Cardinality(Signal) + 1 \in Nat
      BY SignalsFinite
    <2>2. QED
      BY <2>1, AcceptedFinite, AcceptedGrows DEF TypeOK
  <1>1. CASE UNCHANGED deferred /\ (pc \in Routing => pc' \in Routing)
    BY <1>0, <1>1 DEF HandoffIsBounded
  <1>2. CASE deferred' = 0
    BY <1>0, <1>2 DEF HandoffIsBounded
  <1>3. CASE send_signal
    <2>1. deferred' \in {deferred, deferred + 1} /\ pc = "send" /\ pc' \in {"second", "record_send"}
      BY <1>3 DEF send_signal, At, Wake
    <2>2. QED
      BY <1>0, <2>1 DEF HandoffIsBounded, Routing
  <1>4. ASSUME NEW s \in Signal, RouteDeliver(s) PROVE HandoffIsBounded'
    <2>1. deferred' \in {deferred, deferred + 1} /\ pc' = pc
      BY <1>4 DEF RouteDeliver, Wake
    <2>2. Cardinality(Accepted') = Cardinality(Accepted) + 1
      BY <1>4, AcceptedGrows
    <2>3. QED
      BY <1>0, <2>1, <2>2 DEF HandoffIsBounded
  <1>5. CASE receive_signal
    <2>1. pc \in Awaits /\ pc' \in {ParkedAt, AfterReceive} /\ UNCHANGED deferred
      BY <1>5, ReceiveCases DEF receive_signal, At, Parks, TimesOut, Receives, AnswerWith, handoff
    <2>2. QED
      BY <1>1, <2>1 DEF Awaits, ParkedAt, AfterReceive, Call, Routing
  <1>6. CASE Revive \/ Boot
    <2>1. pc = "none" /\ UNCHANGED deferred
      BY <1>6 DEF Revive, Boot, RegistryIsTrue, handoff
    <2>2. QED
      BY <1>1, <2>1 DEF Routing
  <1>7. arm_scope \/ resume_with_timeout \/ RecordSend \/ handle_process_exit =>
            UNCHANGED deferred /\ (pc \in Routing => pc' \in Routing)
    BY DEF arm_scope, resume_with_timeout, RecordSend, handle_process_exit, At, Routing, handoff
  <1>8. CASE Crash \/ deliver_deferred
    <2>1. deferred' = 0 \/ (UNCHANGED <<deferred, pc>>)
      BY <1>8 DEF Crash, deliver_deferred
    <2>2. QED
      BY <1>1, <1>2, <2>1
  <1>9. \/ UNCHANGED <<deferred, pc>>
        \/ send_signal \/ receive_signal \/ Revive \/ Boot \/ arm_scope \/ resume_with_timeout
        \/ RecordSend \/ handle_process_exit \/ Crash \/ deliver_deferred
        \/ \E s \in Signal : RouteDeliver(s)
    BY StepCases
       DEF ScopeWakes, ScopeFires, RouteRecord, OneShot, Lookup, Suspend, resume_workflow, Pause,
           ResumePaused, vars, process, handoff
  <1>10. QED
    BY <1>1, <1>3, <1>4, <1>5, <1>6, <1>7, <1>8, <1>9

\* A parked receive at which nothing happens but a wake of it.
LEMMA WakeKept ==
    ASSUME WakeNotLost, up' = up, UNCHANGED <<pc, history, scope, pin>>,
           \/ mail'
           \/ /\ mail => mail'
              /\ waking => waking'
              /\ deferred > 0 => deferred' > 0
              /\ \A s \in Signal : route[s].step = "deliver" => route'[s].step = "deliver"
    PROVE  WakeNotLost'
  <1>1. (Parked' <=> Parked) /\ (Resolvable' <=> Resolvable)
    BY DEF Parked, Resolvable, resolve_command, Positions, Before, expired_scope_deadline, Recorded
  <1>2. QED
    BY <1>1 DEF WakeNotLost

LEMMA WakeStep ==
    ASSUME TypeOK, Sound(history), ScopeIsTrue, RegistryIsTrue, CountersAreTrue, OneShotsAreTrue,
           WakeNotLost, [Next]_vars
    PROVE  WakeNotLost'
  <1>0. /\ deferred \in Nat
        /\ route \in [Signal -> [step : {"new", "record", "deliver", "oneshot", "accepted",
                                         "rejected", "lost"},
                                 read : 0 .. LastSeq]]
    BY SignalsFinite DEF TypeOK
  <1>1. CASE ~Parked'
    BY <1>1 DEF WakeNotLost
  <1>2. CASE receive_signal
    <2>1. pc \in Awaits /\ UNCHANGED <<history, scope>>
      BY <1>2 DEF receive_signal, At, durable
    <2>2. CASE Parks
      <3>1. resolve_command(history', pin') = 0
        BY <2>1, <2>2 DEF Parks
      <3>2. ~expired_scope_deadline'
        BY <2>1, <2>2 DEF Parks, ParkedAt, Call, expired_scope_deadline, Recorded, Awaits
      <3>3. ~Resolvable'
        BY <3>1, <3>2 DEF Resolvable
      <3>4. QED
        BY <3>3 DEF WakeNotLost
    <2>3. CASE TimesOut \/ Receives
      <3>1. pc' \in {"settle", "exited"}
        BY <2>3 DEF TimesOut, Receives, AnswerWith, AfterReceive
      <3>2. QED
        BY <1>1, <3>1 DEF Parked
    <2>4. QED
      BY <1>2, <2>2, <2>3, ReceiveCases
  <1>3. CASE ScopeFires
    BY <1>3 DEF ScopeFires, WakeNotLost
  <1>4. CASE ScopeWakes
    <2>1. UNCHANGED <<pc, history, scope, pin, up>>
          /\ mail' = (mail \/ pc \notin {"none", "exited", "gone"})
      BY <1>4 DEF ScopeWakes, durable
    <2>2. CASE Parked'
      BY <2>1, <2>2, WakeKept DEF Parked
    <2>3. QED
      BY <1>1, <2>2
  <1>5. ASSUME NEW s \in Signal, RouteRecord(s) PROVE WakeNotLost'
    <2>1. UNCHANGED <<pc, scope, pin, up, mail, waking, deferred>> /\ route[s].step = "record"
      BY <1>5 DEF RouteRecord, process, handoff
    <2>2. CASE Ended
      <3>1. UNCHANGED history /\ \A r \in Signal : r # s => route'[r] = route[r]
        BY <1>0, <1>5, <2>2 DEF RouteRecord, Replies
      <3>2. QED
        BY <2>1, <3>1, WakeKept
    <2>3. CASE ~Ended
      <3>1. route'[s].step = "deliver"
        BY <1>0, <1>5, <2>3 DEF RouteRecord, Goes
      <3>2. QED
        BY <3>1 DEF WakeNotLost
    <2>4. QED
      BY <2>2, <2>3
  <1>6. ASSUME NEW s \in Signal, OneShot(s) PROVE WakeNotLost'
    <2>1. UNCHANGED <<pc, scope, pin, up, mail, waking, deferred>> /\ up /\ route[s].step = "oneshot"
      BY <1>6 DEF OneShot, process, handoff
    <2>2. CASE LastSeq = route[s].read
      <3>1. pc \in {"none", "gone"}
        BY <2>1, <2>2 DEF OneShotsAreTrue, RegistryIsTrue
      <3>2. QED
        BY <1>1, <2>1, <3>1 DEF Parked
    <2>3. CASE LastSeq # route[s].read
      <3>1. UNCHANGED history /\ \A r \in Signal : r # s => route'[r] = route[r]
        BY <1>0, <1>6, <2>3 DEF OneShot, Replies
      <3>2. QED
        BY <2>1, <3>1, WakeKept
    <2>4. QED
      BY <2>2, <2>3
  <1>7. ASSUME NEW s \in Signal, RouteDeliver(s) PROVE WakeNotLost'
    <2>1. UNCHANGED <<pc, scope, pin, up, history>> /\ Wake(route[s].read = 1)
      BY <1>7 DEF RouteDeliver, durable
    <2>2. deferred' = deferred + 1 \/ mail' = (mail \/ pc \notin {"none", "exited", "gone"})
      BY <2>1 DEF Wake
    <2>3. CASE deferred' = deferred + 1
      BY <1>0, <2>3 DEF WakeNotLost
    <2>4. CASE Parked' /\ mail' = (mail \/ pc \notin {"none", "exited", "gone"})
      BY <2>1, <2>4, WakeKept DEF Parked
    <2>5. QED
      BY <1>1, <2>2, <2>3, <2>4
  <1>8. CASE deliver_deferred
    <2>1. UNCHANGED <<pc, scope, pin, up, history, waking, route>>
      BY <1>8 DEF deliver_deferred, durable
    <2>2. \/ mail' = (mail \/ (deferred > 0 /\ pc \notin {"exited", "gone"}))
          \/ UNCHANGED <<mail, deferred>>
      BY <1>8 DEF deliver_deferred
    <2>3. CASE UNCHANGED <<mail, deferred>>
      BY <2>1, <2>3, WakeKept
    <2>4. CASE Parked' /\ mail' = (mail \/ (deferred > 0 /\ pc \notin {"exited", "gone"}))
      <3>1. deferred > 0 => mail'
        BY <2>1, <2>4 DEF Parked
      <3>2. QED
        BY <2>1, <2>4, <3>1, WakeKept
    <2>5. QED
      BY <1>1, <2>2, <2>3, <2>4
  <1>9. ASSUME NEW s \in Signal, Lookup(s) PROVE WakeNotLost'
    <2>1. UNCHANGED <<pc, scope, pin, up, history, waking, mail, deferred>> /\ route[s].step = "new"
      BY <1>9 DEF Lookup, process, handoff, durable
    <2>2. \A r \in Signal : r # s => route'[r] = route[r]
      BY <1>0, <1>9 DEF Lookup
    <2>3. QED
      BY <2>1, <2>2, WakeKept
  <1>10. CASE Suspend \/ resume_workflow \/ Pause \/ ResumePaused \/ UNCHANGED vars
    <2>1. UNCHANGED <<pc, scope, pin, up, history, waking, mail, deferred, route>>
      BY <1>10 DEF Suspend, resume_workflow, Pause, ResumePaused, vars, process, handoff, durable
    <2>2. QED
      BY <2>1, WakeKept
  <1>11. CASE Revive \/ Boot
    <2>1. pc' \in {"none", "arm"}
      BY <1>11 DEF Revive, Boot, Respawn, RegistryIsTrue
    <2>2. QED
      BY <1>1, <2>1 DEF Parked
  <1>12. arm_scope \/ resume_with_timeout \/ send_signal \/ RecordSend \/ handle_process_exit \/ Crash =>
             ~Parked'
    BY DEF arm_scope, resume_with_timeout, send_signal, RecordSend, handle_process_exit, Crash, Parked
  <1>13. QED
    BY <1>1, <1>2, <1>3, <1>4, <1>5, <1>6, <1>7, <1>8, <1>9, <1>10, <1>11, <1>12, StepCases

-----------------------------------------------------------------------------
(***************************************************************************)
(* Types.                                                                  *)
(***************************************************************************)
Steps == {"new", "record", "deliver", "oneshot", "accepted", "rejected", "lost"}

LEMMA TogglesStep ==
    ASSUME TypeOK, TogglesAreHeld, RevivalIsTrue, [Next]_vars
    PROVE  /\ TogglesAreHeld'
           /\ toggles' \in 0 .. 2 * MaxHolds
           /\ holds' \in 0 .. MaxHolds
           /\ toggles <= toggles'
  <1>0. toggles \in 0 .. 2 * MaxHolds /\ holds \in 0 .. MaxHolds /\ MaxHolds \in Nat
    BY DEF TypeOK
  <1>1. CASE UNCHANGED <<toggles, holds>>
    BY <1>0, <1>1 DEF TogglesAreHeld
  <1>2. CASE Suspend
    <2>1. holds' = holds + 1 /\ holds < MaxHolds /\ UNCHANGED toggles
      BY <1>2 DEF Suspend, durable
    <2>2. toggles + (toggles % 2) <= 2 * (holds + 1)
      BY <1>0 DEF TogglesAreHeld
    <2>3. QED
      BY <1>0, <2>1, <2>2 DEF TogglesAreHeld
  <1>3. CASE Pause
    <2>1. holds' = holds + 1 /\ holds < MaxHolds /\ toggles' = toggles + 1 /\ toggles % 2 # 1
      BY <1>3 DEF Pause, Paused
    <2>2. toggles % 2 = 0 /\ (toggles + 1) % 2 = 1
      BY <1>0, <2>1
    <2>3. toggles + 1 + 1 <= 2 * (holds + 1)
      BY <1>0, <2>2 DEF TogglesAreHeld
    <2>4. TogglesAreHeld'
      BY <2>1, <2>2, <2>3 DEF TogglesAreHeld
    <2>5. QED
      BY <1>0, <2>1, <2>3, <2>4
  <1>4. CASE toggles' = toggles + 1 /\ UNCHANGED holds /\ Paused
    <2>1. toggles % 2 = 1 /\ (toggles + 1) % 2 = 0
      BY <1>0, <1>4 DEF Paused
    <2>2. toggles + 1 <= 2 * holds
      BY <1>0, <2>1 DEF TogglesAreHeld
    <2>3. TogglesAreHeld'
      BY <1>0, <1>4, <2>1, <2>2 DEF TogglesAreHeld
    <2>4. QED
      BY <1>0, <1>4, <2>2, <2>3
  <1>5. CASE Revive \/ ResumePaused
    <2>1. UNCHANGED holds /\ (UNCHANGED toggles \/ (toggles' = toggles + 1 /\ Paused))
      BY <1>5 DEF Revive, ResumePaused, RevivalIsTrue, bounds
    <2>2. QED
      BY <1>1, <1>4, <2>1
  <1>6. UNCHANGED <<toggles, holds>> \/ Suspend \/ Pause \/ Revive \/ ResumePaused
    BY StepCases
       DEF arm_scope, resume_with_timeout, receive_signal, send_signal, RecordSend, handle_process_exit,
           ScopeWakes, ScopeFires, RouteRecord, RouteDeliver, OneShot, Lookup, deliver_deferred, Boot,
           resume_workflow, Crash, vars, durable, bounds
  <1>7. QED
    BY <1>1, <1>2, <1>3, <1>5, <1>6

LEMMA RevivalStep ==
    ASSUME TypeOK, RevivalIsTrue, UNCHANGED history \/ Appends, toggles' \in Nat, toggles <= toggles',
           [Next]_vars
    PROVE  RevivalIsTrue' /\ revival' \in -1 .. LastSeq' /\ LastSeq <= LastSeq' /\ LastSeq' \in Nat
  <1>0. history \in Seq(Events) /\ toggles \in Nat /\ revival \in -1 .. LastSeq
    BY DEF TypeOK
  <1>1. Len(history) \in Nat /\ Len(history') \in Nat /\ Len(history) <= Len(history')
    BY <1>0, HistoryKeeps
  <1>2. LastSeq = Len(history) + toggles /\ LastSeq' = Len(history') + toggles'
    BY DEF LastSeq
  <1>3. LastSeq \in Nat /\ LastSeq' \in Nat /\ LastSeq <= LastSeq'
    BY <1>0, <1>1, <1>2
  <1>4. CASE UNCHANGED revival
    <2>1. LastSeq' = revival /\ revival # -1 => toggles' = toggles /\ LastSeq = revival
      BY <1>0, <1>1, <1>2, <1>3
    <2>2. RevivalIsTrue'
      BY <1>4, <2>1 DEF RevivalIsTrue, Paused
    <2>3. QED
      BY <1>0, <1>3, <1>4, <2>2
  <1>5. CASE revival' = -1
    BY <1>3, <1>5 DEF RevivalIsTrue
  <1>6. CASE ResumePaused
    <2>1. UNCHANGED revival \/ (revival' = LastSeq /\ UNCHANGED <<toggles, history>> /\ Paused)
      BY <1>6 DEF ResumePaused
    <2>2. CASE revival' = LastSeq /\ UNCHANGED <<toggles, history>> /\ Paused
      BY <1>3, <2>2 DEF RevivalIsTrue, Paused, LastSeq
    <2>3. QED
      BY <1>4, <2>1, <2>2
  <1>7. UNCHANGED revival \/ revival' = -1 \/ ResumePaused
    BY StepCases
       DEF arm_scope, resume_with_timeout, receive_signal, send_signal, RecordSend, handle_process_exit,
           ScopeWakes, ScopeFires, RouteRecord, RouteDeliver, OneShot, Lookup, deliver_deferred, Boot,
           resume_workflow, Suspend, Pause, Revive, Crash, vars, handoff
  <1>8. QED
    BY <1>4, <1>5, <1>6, <1>7

LEMMA StartedStep ==
    ASSUME TypeOK, StartedIsTrue, UNCHANGED history \/ Appends, [Next]_vars
    PROVE  StartedIsTrue'
  <1>0. history \in Seq(Events)
    BY DEF TypeOK
  <1>1. Has(history, "Started") => Has(history', "Started")
    BY <1>0, HistoryKeeps
  <1>2. CASE arm_scope
    <2>1. Recorded("Started") \/ Record("Started")
      BY <1>2 DEF arm_scope
    <2>2. CASE Record("Started")
      <3>1. Adds(history, Event("Started", Own), history')
        BY <2>2 DEF Record, Adds
      <3>2. Has(history', "Started")
        BY <1>0, <3>1, AppendHas, EventFacts
      <3>3. QED
        BY <3>2 DEF StartedIsTrue
    <2>3. QED
      BY <1>1, <2>1, <2>2, RecordedHas DEF StartedIsTrue
  <1>3. ~arm_scope => \/ pc \notin {"none", "arm"} \/ suspended
                      \/ pc' \in {"none", "arm"} /\ ~suspended'
    BY StepCases
       DEF resume_with_timeout, receive_signal, send_signal, RecordSend, handle_process_exit, ScopeWakes,
           ScopeFires, RouteRecord, RouteDeliver, OneShot, Lookup, deliver_deferred, Boot, Respawn,
           resume_workflow, Suspend, Pause, ResumePaused, Revive, Crash, vars, handle, process, At, Awaits
  <1>4. QED
    BY <1>1, <1>2, <1>3 DEF StartedIsTrue

LEMMA RouteType ==
    ASSUME TypeOK, StartedIsTrue, LastSeq <= LastSeq', LastSeq' \in Nat, [Next]_vars
    PROVE  route' \in [Signal -> [step : Steps, read : 0 .. LastSeq']]
  <1>0. route \in [Signal -> [step : Steps, read : 0 .. LastSeq]] /\ LastSeq \in Nat
    BY PositionFacts DEF TypeOK, Steps, LastSeq
  <1>1. [step : Steps, read : 0 .. LastSeq] \subseteq [step : Steps, read : 0 .. LastSeq']
    BY <1>0
  <1>2. route \in [Signal -> [step : Steps, read : 0 .. LastSeq']]
    BY <1>0, <1>1
  <1>3. CASE UNCHANGED route
    BY <1>2, <1>3
  <1>4. ASSUME NEW s \in Signal, NEW v \in [step : Steps, read : 0 .. LastSeq'],
               route' = [route EXCEPT ![s] = v]
        PROVE  route' \in [Signal -> [step : Steps, read : 0 .. LastSeq']]
    BY <1>2, <1>4
  <1>5. ASSUME NEW s \in Signal, NEW a \in Steps, Replies(s, a)
        PROVE  route' \in [Signal -> [step : Steps, read : 0 .. LastSeq']]
    <2>1. [step |-> a, read |-> 0] \in [step : Steps, read : 0 .. LastSeq']
      OBVIOUS
    <2>2. QED
      BY <1>4, <1>5, <2>1 DEF Replies
  <1>6. ASSUME NEW s \in Signal, RouteRecord(s)
        PROVE  route' \in [Signal -> [step : Steps, read : 0 .. LastSeq']]
    <2>1. Replies(s, "rejected") \/ Goes(s, "deliver")
      BY <1>6 DEF RouteRecord
    <2>2. CASE Goes(s, "deliver")
      BY <1>2, <2>2 DEF Goes, Steps
    <2>3. QED
      BY <1>5, <2>1, <2>2 DEF Steps
  <1>7. ASSUME NEW s \in Signal, RouteDeliver(s) \/ OneShot(s)
        PROVE  route' \in [Signal -> [step : Steps, read : 0 .. LastSeq']]
    <2>1. Replies(s, "rejected") \/ Replies(s, "accepted")
      BY <1>7 DEF RouteDeliver, OneShot
    <2>2. QED
      BY <1>5, <2>1 DEF Steps
  <1>8. ASSUME NEW s \in Signal, Lookup(s)
        PROVE  route' \in [Signal -> [step : Steps, read : 0 .. LastSeq']]
    <2> DEFINE v == IF registered
                    THEN [step |-> "record", read |-> IF suspended THEN 1 ELSE 0]
                    ELSE IF ~Ended /\ Paused
                    THEN [step |-> "oneshot", read |-> LastSeq]
                    ELSE [step |-> "rejected", read |-> 0]
    <2>1. route' = [route EXCEPT ![s] = v]
      BY <1>8 DEF Lookup
    <2>2. suspended => 1 \in 0 .. LastSeq'
      <3>1. history \in Seq(Events) /\ toggles \in Nat
        BY DEF TypeOK
      <3>2. Has(history, "Started") => Len(history) \in Nat /\ 1 <= Len(history)
        BY <3>1, PositionFacts DEF Has
      <3>3. QED
        BY <1>0, <3>1, <3>2 DEF StartedIsTrue, LastSeq
    <2>3. v \in [step : Steps, read : 0 .. LastSeq']
      BY <1>0, <2>2 DEF Steps
    <2>4. QED
      BY <1>4, <2>1, <2>3
  <1>9. CASE Crash
    <2>1. ASSUME NEW s \in Signal PROVE route'[s] \in [step : Steps, read : 0 .. LastSeq']
      BY <1>2, <1>9 DEF Crash, Steps
    <2>2. QED
      BY <1>9, <2>1 DEF Crash
  <1>10. \/ UNCHANGED route \/ Crash
         \/ \E s \in Signal : Lookup(s) \/ RouteDeliver(s) \/ OneShot(s) \/ RouteRecord(s)
    BY StepCases
       DEF arm_scope, resume_with_timeout, receive_signal, send_signal, RecordSend, handle_process_exit,
           ScopeWakes, ScopeFires, deliver_deferred, Revive, Boot,
           Suspend, resume_workflow, Pause, ResumePaused, vars
  <1>11. QED
    BY <1>3, <1>6, <1>7, <1>8, <1>9, <1>10

\* Booleans.
LEMMA FlagsType ==
    ASSUME TypeOK, [Next]_vars
    PROVE  {up, registered, suspended, flushing, mail, waking}' \subseteq BOOLEAN
  <1>0. /\ up \in BOOLEAN /\ registered \in BOOLEAN /\ suspended \in BOOLEAN
        /\ flushing \in BOOLEAN /\ mail \in BOOLEAN /\ waking \in BOOLEAN
    BY DEF TypeOK
  <1>1. up' \in BOOLEAN
    BY <1>0, StepCases
       DEF arm_scope, resume_with_timeout, receive_signal, send_signal, RecordSend, handle_process_exit,
           ScopeWakes, ScopeFires, RouteRecord, RouteDeliver, OneShot, Lookup, deliver_deferred, Boot,
           resume_workflow, Suspend, Pause, ResumePaused, Revive, Crash, vars
  <1>2. registered' \in BOOLEAN /\ suspended' \in BOOLEAN
    BY <1>0, StepCases
       DEF arm_scope, resume_with_timeout, receive_signal, send_signal, RecordSend, handle_process_exit,
           ScopeWakes, ScopeFires, RouteRecord, RouteDeliver, OneShot, Lookup, deliver_deferred, Boot,
           Respawn, resume_workflow, Suspend, Pause, ResumePaused, Revive, Crash, vars, handle
  <1>3. flushing' \in BOOLEAN /\ waking' \in BOOLEAN
    BY <1>0, StepCases
       DEF arm_scope, resume_with_timeout, receive_signal, send_signal, RecordSend, handle_process_exit,
           ScopeWakes, ScopeFires, RouteRecord, RouteDeliver, OneShot, Lookup, deliver_deferred, Boot,
           resume_workflow, Suspend, Pause, ResumePaused, Revive, Crash, vars, handoff
  <1>4. mail' \in BOOLEAN
    BY <1>0, StepCases
       DEF arm_scope, resume_with_timeout, receive_signal, send_signal, RecordSend, handle_process_exit,
           ScopeWakes, ScopeFires, RouteRecord, RouteDeliver, OneShot, Lookup, deliver_deferred, Boot,
           resume_workflow, Suspend, Pause, ResumePaused, Revive, Crash, vars, process, Wake
  <1>5. QED
    BY <1>1, <1>2, <1>3, <1>4

\* The process and its counters.
LEMMA ProcessType ==
    ASSUME TypeOK, Sound(history), ScopeIsTrue, RegistryIsTrue, CountersAreTrue, [Next]_vars
    PROVE  /\ consumed' \in 0 .. 2
           /\ sends' \in 0 .. 1
           /\ pc' \in Awaits \cup {"none", "arm", "settle", "send", "record_send", "exited", "gone"}
           /\ scope' \in {"fired", "cancelled", "live"}
           /\ scopes' \subseteq {"expired", "ok"}
           /\ got' \in [{"first", "second"} -> SUBSET (Signal \cup {Own, Timeout, Error})]
  <1>0. /\ consumed \in 0 .. 2 /\ sends \in 0 .. 1
        /\ pc \in Awaits \cup {"none", "arm", "settle", "send", "record_send", "exited", "gone"}
        /\ scope \in {"fired", "cancelled", "live"} /\ scopes \subseteq {"expired", "ok"}
        /\ got \in [{"first", "second"} -> SUBSET (Signal \cup {Own, Timeout, Error})]
        /\ history \in Seq(Events)
    BY DEF TypeOK
  <1>1. CASE receive_signal
    <2>1. UNCHANGED <<sends, scope, scopes>> /\ pc \in Awaits
      BY <1>1 DEF receive_signal, At
    <2>2. consumed \in 0 .. 1
      BY <2>1 DEF CountersAreTrue, Awaits, BeforeFirst, BeforeSecond
    <2>3. ParkedAt \in Awaits /\ AfterReceive \in {"settle", "exited"} /\ Call \in {"first", "second"}
      BY DEF ParkedAt, AfterReceive, Awaits, Call
    <2>4. CASE Parks
      BY <1>0, <2>1, <2>3, <2>4 DEF Parks
    <2>5. CASE TimesOut
      BY <1>0, <2>1, <2>3, <2>5 DEF TimesOut, AnswerWith
    <2>6. CASE Receives
      <3>1. PICK i \in Positions(history, {"Received"}) :
                /\ got' = [got EXCEPT ![Call] = @ \cup {history[i].payload}]
                /\ pc' = AfterReceive
                /\ consumed' = consumed + 1
        BY <2>6 DEF Receives
      <3>2. history[i] \in Events
        BY <1>0, <3>1, PositionFacts
      <3>3. history[i].payload \in Signal \cup {Own}
        BY <3>2 DEF Events
      <3>4. got' \in [{"first", "second"} -> SUBSET (Signal \cup {Own, Timeout, Error})]
        BY <1>0, <2>3, <3>1, <3>3
      <3>5. QED
        BY <1>0, <2>1, <2>2, <2>3, <3>1, <3>4
    <2>7. QED
      BY <1>1, <2>4, <2>5, <2>6, ReceiveCases
  <1>2. UNCHANGED got \/ receive_signal
    BY StepCases
       DEF arm_scope, resume_with_timeout, send_signal, RecordSend, handle_process_exit, Crash, Revive,
           Boot, ScopeWakes, ScopeFires, RouteRecord, RouteDeliver, OneShot, Lookup, deliver_deferred,
           Suspend, resume_workflow, Pause, ResumePaused, vars, answers
  <1>3. (UNCHANGED consumed \/ consumed' = 0) \/ receive_signal
    BY StepCases
       DEF arm_scope, resume_with_timeout, send_signal, RecordSend, handle_process_exit, Crash, Revive,
           Boot, Respawn, ScopeWakes, ScopeFires, RouteRecord, RouteDeliver, OneShot, Lookup,
           deliver_deferred, Suspend, resume_workflow, Pause, ResumePaused, vars, handle
  <1>4. sends' \in {sends, 0} \/ receive_signal \/ send_signal \/ RecordSend
    BY StepCases
       DEF arm_scope, resume_with_timeout, handle_process_exit, Crash, Revive,
           Boot, Respawn, ScopeWakes, ScopeFires, RouteRecord, RouteDeliver, OneShot, Lookup,
           deliver_deferred, Suspend, resume_workflow, Pause, ResumePaused, vars, handle
  <1>5. send_signal \/ RecordSend => sends = 0 /\ sends' \in {0, 1}
    BY DEF send_signal, RecordSend, At, CountersAreTrue, Routing
  <1>6. \/ pc' \in {pc, "none", "arm", "first", "settle", "send", "record_send", "second", "exited", "gone"}
        \/ receive_signal
    BY StepCases
       DEF arm_scope, resume_with_timeout, send_signal, RecordSend, handle_process_exit, Crash, Revive,
           Boot, Respawn, ScopeWakes, ScopeFires, RouteRecord, RouteDeliver, OneShot, Lookup,
           deliver_deferred, Suspend, resume_workflow, Pause, ResumePaused, vars, process
  <1>7. scope' \in {scope, "fired", "cancelled", "live"} \/ receive_signal
    BY StepCases
       DEF arm_scope, resume_with_timeout, send_signal, RecordSend, handle_process_exit, Crash, Revive,
           Boot, ScopeWakes, ScopeFires, RouteRecord, RouteDeliver, OneShot, Lookup,
           deliver_deferred, Suspend, resume_workflow, Pause, ResumePaused, vars, process
  <1>8. scopes' \subseteq scopes \cup {"expired", "ok"}
    BY StepCases
       DEF arm_scope, receive_signal, resume_with_timeout, send_signal, RecordSend, handle_process_exit,
           Crash, Revive, Boot, ScopeWakes, ScopeFires, RouteRecord, RouteDeliver, OneShot, Lookup,
           deliver_deferred, Suspend, resume_workflow, Pause, ResumePaused, vars, answers
  <1>9. CASE ~receive_signal
    <2>1. consumed' \in 0 .. 2 /\ sends' \in 0 .. 1
      BY <1>0, <1>3, <1>4, <1>5, <1>9
    <2>2. pc' \in Awaits \cup {"none", "arm", "settle", "send", "record_send", "exited", "gone"}
      BY <1>0, <1>6, <1>9 DEF Awaits
    <2>3. QED
      BY <1>0, <1>2, <1>7, <1>8, <1>9, <2>1, <2>2
  <1>10. QED
    BY <1>1, <1>9

LEMMA RoutedBound ==
    ASSUME NEW p \in Nat, NEW c \in Nat, NEW b \in {0, 1}, c <= MaxCrashes, p <= c + b
    PROVE  p \in 0 .. MaxCrashes + 1
  OBVIOUS

LEMMA TypeStep ==
    ASSUME TypeOK, TogglesAreHeld, RevivalIsTrue, StartedIsTrue, Sound(history), ScopeIsTrue,
           RegistryIsTrue, CountersAreTrue, UNCHANGED history \/ Appends, [Next]_vars,
           CountersAreTrue', SendsAreTrue', HandoffIsBounded'
    PROVE  TypeOK'
  <1>0. /\ history \in Seq(Events) /\ peer \in 0 .. MaxCrashes + 1 /\ target \in {"peer", "self"}
        /\ crashes \in 0 .. MaxCrashes /\ deferred \in Nat /\ MaxCrashes \in Nat
    BY SignalsFinite DEF TypeOK
  <1>1. history' \in Seq(Events) /\ Len(history') \in Nat
    BY <1>0, HistoryKeeps
  <1>2. toggles' \in 0 .. 2 * MaxHolds /\ holds' \in 0 .. MaxHolds /\ toggles' \in Nat /\ toggles <= toggles'
    BY TogglesStep
  <1>3. revival' \in -1 .. LastSeq' /\ LastSeq <= LastSeq' /\ LastSeq' \in Nat
    BY <1>2, RevivalStep
  <1>4. route' \in [Signal -> [step : Steps, read : 0 .. LastSeq']]
    BY <1>3, RouteType
  <1>5. crashes' \in 0 .. MaxCrashes /\ UNCHANGED target
    <2>1. UNCHANGED target /\ (UNCHANGED crashes \/ (crashes < MaxCrashes /\ crashes' = crashes + 1))
      BY StepCases
         DEF arm_scope, resume_with_timeout, receive_signal, send_signal, RecordSend, handle_process_exit,
             ScopeWakes, ScopeFires, RouteRecord, RouteDeliver, OneShot, Lookup, deliver_deferred, Boot,
             resume_workflow, Suspend, Pause, ResumePaused, Revive, Crash, vars, bounds, durable
    <2>2. QED
      BY <1>0, <2>1
  <1>6. peer' \in 0 .. MaxCrashes + 1
    <2>1. UNCHANGED peer \/ (peer' = peer + 1 /\ target # "self")
      BY StepCases
         DEF arm_scope, resume_with_timeout, receive_signal, send_signal, RecordSend, handle_process_exit,
             ScopeWakes, ScopeFires, RouteRecord, RouteDeliver, OneShot, Lookup, deliver_deferred, Boot,
             resume_workflow, Suspend, Pause, ResumePaused, Revive, Crash, vars, durable
    <2>2. CASE peer' = peer + 1 /\ target # "self"
      <3>1. Routed' = peer'
        BY <1>0, <1>5, <2>2, RoutedIs DEF Owned
      <3>2. Routed' <= crashes' + (IF pc' \in Routing THEN 1 ELSE 0)
        BY DEF SendsAreTrue
      <3>3. crashes' \in Nat /\ crashes' <= MaxCrashes /\ peer \in Nat
        BY <1>0, <1>5
      <3>4. peer' = peer + 1
        BY <2>2
      <3>5. peer' \in Nat
        BY <3>3, <3>4
      <3>6. (IF pc' \in Routing THEN 1 ELSE 0) \in {0, 1}
        OBVIOUS
      <3>7. peer' <= crashes' + (IF pc' \in Routing THEN 1 ELSE 0)
        BY <3>1, <3>2
      <3>8. crashes' \in Nat /\ crashes' <= MaxCrashes
        BY <3>3
      <3>9. QED
        BY <3>5, <3>6, <3>7, <3>8, RoutedBound
    <2>3. QED
      BY <1>0, <2>1, <2>2
  <1>7. deferred' \in 0 .. Cardinality(Signal) + 1
    <2>0. deferred' \in {deferred, deferred + 1, 0}
      BY StepCases
         DEF arm_scope, resume_with_timeout, receive_signal, send_signal, RecordSend, handle_process_exit,
             ScopeWakes, ScopeFires, RouteRecord, RouteDeliver, OneShot, Lookup, deliver_deferred, Boot,
             resume_workflow, Suspend, Pause, ResumePaused, Revive, Crash, vars, handoff, Wake
    <2>1. deferred' \in Nat
      BY <1>0, <2>0
    <2>2. Accepted' \subseteq Signal
      BY DEF Accepted
    <2>3. /\ Cardinality(Accepted') \in Nat /\ Cardinality(Accepted') <= Cardinality(Signal)
          /\ Cardinality(Signal) \in Nat
      BY <2>2, SignalsFinite, FS_Subset, FS_CardinalityType
    <2>4. QED
      BY <2>1, <2>3 DEF HandoffIsBounded
  <1>8. /\ consumed' \in 0 .. 2
        /\ sends' \in 0 .. 1
        /\ pc' \in Awaits \cup {"none", "arm", "settle", "send", "record_send", "exited", "gone"}
        /\ scope' \in {"fired", "cancelled", "live"}
        /\ scopes' \subseteq {"expired", "ok"}
        /\ got' \in [{"first", "second"} -> SUBSET (Signal \cup {Own, Timeout, Error})]
    BY ProcessType
  <1>9. pin' \in -1 .. Len(history')
    <2>1. consumed' \in Nat /\ "Received" \in Occurrence
      BY <1>8 DEF Occurrence
    <2>2. nth_received_occurrence_index(history', consumed') \in 0 .. Len(history')
      BY <1>1, <2>1, IndexResolves DEF nth_received_occurrence_index
    <2>3. pin' \in {nth_received_occurrence_index(history', consumed'), NoIndex}
      BY DEF CountersAreTrue
    <2>4. QED
      BY <1>1, <2>2, <2>3 DEF NoIndex
  <1>10. {up, registered, suspended, flushing, mail, waking}' \subseteq BOOLEAN
    BY FlagsType
  <1>11. QED
    BY <1>1, <1>2, <1>3, <1>4, <1>5, <1>6, <1>7, <1>8, <1>9, <1>10, <1>0 DEF TypeOK, Steps

-----------------------------------------------------------------------------
(***************************************************************************)
(* The inductive invariant holds, and what follows.                        *)
(***************************************************************************)
LEMMA IInvInit == Init => IInv
  <1> SUFFICES ASSUME Init PROVE IInv
    OBVIOUS
  <1>0. history = <<>> /\ history \in Seq(Events) /\ Len(history) = 0 /\ DOMAIN history = {}
    BY DEF Init
  <1>1. \A T : Positions(history, T) = {} /\ Count(history, T) = 0
    BY <1>0, FS_EmptySet DEF Positions, Count
  <1>2. \A t : ~Has(history, t)
    BY <1>0 DEF Has
  <1>3. TypeOK
    <2>1. LastSeq = 0
      BY <1>0 DEF Init, LastSeq
    <2>2. Idle \in [step : Steps, read : 0 .. LastSeq]
      BY <2>1 DEF Idle, Steps
    <2>3. route \in [Signal -> [step : Steps, read : 0 .. LastSeq]]
      BY <2>2 DEF Init
    <2>4. Cardinality(Signal) + 1 \in Nat
      BY SignalsFinite
    <2>5. /\ toggles \in 0 .. 2 * MaxHolds /\ peer \in 0 .. MaxCrashes + 1
          /\ deferred \in 0 .. Cardinality(Signal) + 1 /\ revival \in -1 .. LastSeq
          /\ consumed \in 0 .. 2 /\ sends \in 0 .. 1 /\ pin \in -1 .. Len(history)
          /\ crashes \in 0 .. MaxCrashes /\ holds \in 0 .. MaxHolds
      BY <1>0, <2>1, <2>4 DEF Init, NoIndex
    <2>6. /\ {up, registered, suspended, flushing, mail, waking} \subseteq BOOLEAN
          /\ target \in {"peer", "self"} /\ scope \in {"fired", "cancelled", "live"}
          /\ pc \in Awaits \cup {"none", "arm", "settle", "send", "record_send", "exited", "gone"}
          /\ got \in [{"first", "second"} -> SUBSET (Signal \cup {Own, Timeout, Error})]
          /\ scopes \subseteq {"expired", "ok"}
      BY DEF Init
    <2>7. QED
      BY <1>0, <2>3, <2>5, <2>6 DEF TypeOK, Steps
  <1>4. Sound(history)
    BY <1>1, <1>2 DEF Sound
  <1>5. ScopeIsTrue /\ RegistryIsTrue /\ StartedIsTrue
    BY <1>2 DEF Init, ScopeIsTrue, RegistryIsTrue, StartedIsTrue
  <1>6. CountersAreTrue
    BY <1>1 DEF Init, CountersAreTrue, BeforeFirst, BeforeSecond, Routing, Parked
  <1>7. AnswersAreTrue
    BY DEF Init, AnswersAreTrue
  <1>8. SendsAreTrue
    <2>1. OwnArrivals(history) = {}
      BY <1>0 DEF OwnArrivals
    <2>2. Routed = 0
      BY <2>1, RoutedIs, FS_EmptySet DEF Init, Owned
    <2>3. QED
      BY <1>2, <2>2 DEF Init, SendsAreTrue, Routing
  <1>9. CallsAreTrue /\ OneShotsAreTrue /\ RevivalIsTrue
    <2>1. \A s : Arrivals(history, s) = {}
      BY <1>0 DEF Arrivals
    <2>2. \A s \in Signal : route[s].step = "new"
      BY DEF Init, Idle
    <2>3. QED
      BY <2>1, <2>2 DEF Init, CallsAreTrue, RecordOf, OneShotsAreTrue, RevivalIsTrue
  <1>10. HandoffIsBounded /\ TogglesAreHeld /\ WakeNotLost
    <2>1. Cardinality(Accepted) \in Nat
      BY AcceptedFinite
    <2>2. HandoffIsBounded
      BY <2>1 DEF Init, HandoffIsBounded
    <2>3. TogglesAreHeld
      BY DEF Init, TogglesAreHeld
    <2>4. WakeNotLost
      BY DEF Init, WakeNotLost, Parked
    <2>5. QED
      BY <2>2, <2>3, <2>4
  <1>11. QED
    BY <1>3, <1>4, <1>5, <1>6, <1>7, <1>8, <1>9, <1>10 DEF IInv

LEMMA IInvStep == IInv /\ [Next]_vars => IInv'
  <1> SUFFICES ASSUME IInv, [Next]_vars PROVE IInv'
    OBVIOUS
  <1>0. /\ TypeOK /\ StartedIsTrue /\ TogglesAreHeld /\ Sound(history) /\ ScopeIsTrue /\ RegistryIsTrue
        /\ CountersAreTrue /\ AnswersAreTrue /\ SendsAreTrue /\ CallsAreTrue /\ OneShotsAreTrue
        /\ RevivalIsTrue /\ HandoffIsBounded /\ WakeNotLost
    BY DEF IInv
  <1>1. UNCHANGED history \/ Appends
    BY <1>0, HistoryStep
  <1>2. Sound(history)'
    <2>1. history \in Seq(Events)
      BY <1>0 DEF TypeOK
    <2>2. Sound(history')
      BY <1>0, <1>1, <2>1, HistoryKeeps
    <2>3. QED
      BY <2>2
  <1>3. ScopeIsTrue' /\ RegistryIsTrue' /\ StartedIsTrue'
    BY <1>0, <1>1, ScopeStep, RegistryStep, StartedStep
  <1>4. CountersAreTrue'
    BY <1>0, <1>1, CountersStep
  <1>5. AnswersAreTrue'
    BY <1>0, <1>1, AnswersStep
  <1>6. SendsAreTrue'
    BY <1>0, SendsStep
  <1>7. CallsAreTrue' /\ OneShotsAreTrue'
    BY <1>0, <1>1, CallsStep, OneShotsStep
  <1>8. HandoffIsBounded' /\ WakeNotLost'
    BY <1>0, HandoffStep, WakeStep
  <1>9. TogglesAreHeld' /\ RevivalIsTrue'
    <2>1. TogglesAreHeld' /\ toggles' \in 0 .. 2 * MaxHolds /\ toggles <= toggles'
      BY <1>0, TogglesStep
    <2>2. toggles' \in Nat
      BY <2>1
    <2>3. QED
      BY <1>0, <1>1, <2>1, <2>2, RevivalStep
  <1>10. TypeOK'
    BY <1>0, <1>1, <1>4, <1>6, <1>8, TypeStep
  <1>11. QED
    BY <1>2, <1>3, <1>4, <1>5, <1>6, <1>7, <1>8, <1>9, <1>10 DEF IInv

LEMMA Invariance == Spec => []IInv
  BY IInvInit, IInvStep, PTL DEF Spec

\* The two ends of the first receive exclude each other, and an arrival has one payload.
LEMMA OneEnd ==
    ASSUME NEW h \in Seq(Events)
    PROVE  /\ ~(FirstReceived(h) /\ FirstTimedOut(h))
           /\ \A k, x, y : ArrivalIs(h, k, x) /\ ArrivalIs(h, k, y) => x = y
  <1>1. ~(FirstReceived(h) /\ FirstTimedOut(h))
    <2>1. \A T : Positions(h, T) \subseteq Int
      BY PositionFacts
    <2>2. QED
      BY <2>1 DEF FirstReceived, FirstTimedOut
  <1>2. ASSUME NEW k, NEW x, NEW y, ArrivalIs(h, k, x), ArrivalIs(h, k, y) PROVE x = y
    <2>1. PICK i \in Positions(h, {"Received"}) : Nth(h, "Received", i, k) /\ h[i].payload = x
      BY <1>2 DEF ArrivalIs
    <2>2. PICK j \in Positions(h, {"Received"}) : Nth(h, "Received", j, k) /\ h[j].payload = y
      BY <1>2 DEF ArrivalIs
    <2>3. i = j
      BY <2>1, <2>2, BeforeIsUnique DEF Nth
    <2>4. QED
      BY <2>1, <2>2, <2>3
  <1>3. QED
    BY <1>1, <1>2

LEMMA AtMostOne ==
    ASSUME NEW S, \A x, y \in S : x = y
    PROVE  Cardinality(S) <= 1
  <1>1. CASE S = {}
    BY <1>1, FS_EmptySet
  <1>2. CASE S # {}
    <2>1. PICK x \in S : S = {x}
      BY <1>2
    <2>2. QED
      BY <2>1, FS_Singleton
  <1>3. QED
    BY <1>1, <1>2

LEMMA AnswersAgree == IInv => ReplayAgrees
  <1> SUFFICES ASSUME IInv PROVE ReplayAgrees
    OBVIOUS
  <1>0. history \in Seq(Events) /\ AnswersAreTrue /\ ScopeIsTrue /\ Sound(history)
        /\ scopes \subseteq {"expired", "ok"}
    BY DEF IInv, TypeOK
  <1>1. ~(FirstReceived(history) /\ FirstTimedOut(history))
    BY <1>0, OneEnd
  <1>2. \A k, x, y : ArrivalIs(history, k, x) /\ ArrivalIs(history, k, y) => x = y
    BY <1>0, OneEnd
  <1>3. \A x, y \in got["first"] : x = y
    BY <1>0, <1>1, <1>2 DEF AnswersAreTrue
  <1>4. \A x, y \in got["second"] : x = y
    BY <1>0, <1>1, <1>2 DEF AnswersAreTrue
  <1>5. \A x, y \in scopes : x = y
    BY <1>0 DEF ScopeIsTrue, Sound
  <1>6. QED
    BY <1>3, <1>4, <1>5, AtMostOne DEF ReplayAgrees

LEMMA AnswersInOrder == IInv => ReceivesInOrder
  <1> SUFFICES ASSUME IInv PROVE ReceivesInOrder
    OBVIOUS
  <1>0. history \in Seq(Events) /\ AnswersAreTrue
    BY DEF IInv, TypeOK
  <1> DEFINE first == got["first"] \ {Timeout}
  <1>1. ~(FirstReceived(history) /\ FirstTimedOut(history))
    BY <1>0, OneEnd
  <1>2. ASSUME NEW k \in Nat, NEW x, ArrivalIs(history, k, x) PROVE x \in Arrival(k + 1)
    <2>1. k + 1 - 1 = k
      OBVIOUS
    <2>2. QED
      BY <1>2, <2>1 DEF ArrivalIs, Nth, Arrival
  <1>3. first \subseteq Arrival(1)
    BY <1>0, <1>2 DEF AnswersAreTrue
  <1>4. ASSUME NEW x \in got["second"] PROVE x \in Arrival(IF first = {} THEN 1 ELSE 2)
    <2>1. CASE FirstTimedOut(history) /\ ArrivalIs(history, 0, x)
      <3>1. first = {}
        BY <1>0, <1>1, <2>1 DEF AnswersAreTrue
      <3>2. x \in Arrival(1)
        BY <1>2, <2>1
      <3>3. QED
        BY <3>1, <3>2
    <2>2. CASE FirstReceived(history) /\ ArrivalIs(history, 1, x)
      <3>1. first # {}
        BY <1>0, <1>1, <1>4, <2>2 DEF AnswersAreTrue
      <3>2. x \in Arrival(2)
        BY <1>2, <2>2
      <3>3. QED
        BY <3>1, <3>2
    <2>3. QED
      BY <1>0, <2>1, <2>2 DEF AnswersAreTrue
  <1>5. QED
    BY <1>3, <1>4 DEF ReceivesInOrder

LEMMA InvFollows == IInv => Inv
  <1> SUFFICES ASSUME IInv PROVE Inv
    OBVIOUS
  <1>0. /\ TypeOK /\ Sound(history) /\ SendsAreTrue /\ CallsAreTrue /\ OneShotsAreTrue /\ WakeNotLost
        /\ history \in Seq(Events) /\ RegistryIsTrue
    BY DEF IInv, TypeOK
  <1>1. ToldIsRecorded
    <2>1. SUFFICES ASSUME NEW s \in Signal
                   PROVE  /\ route[s].step = "accepted" => Cardinality(Arrivals(history, s)) = 1
                          /\ route[s].step \in {"rejected", "new"} => Cardinality(Arrivals(history, s)) = 0
      BY DEF ToldIsRecorded, Arrivals
    <2>2. RecordOf(history, route[s].step, s)
      BY <1>0 DEF CallsAreTrue
    <2>3. QED
      BY <2>2, FS_EmptySet, FS_Singleton DEF RecordOf
  <1>2. SentOnce
    <2>1. Cardinality(Positions(history, {"Sent"})) <= 1
      BY <1>0, AtMostOne DEF Sound
    <2>2. Recorded("Sent") => Routed >= 1
      BY <1>0, RecordedHas DEF SendsAreTrue
    <2>3. Routed <= 1 + crashes
      <3>1. Routed \in Nat /\ crashes \in Nat
        BY <1>0, RoutedType
      <3>2. QED
        BY <1>0, <3>1 DEF SendsAreTrue
    <2>4. QED
      BY <2>1, <2>2, <2>3 DEF SentOnce
  <1>3. NothingAfterTheEnd
    BY <1>0, RecordedHas DEF NothingAfterTheEnd, Sound, OneShotsAreTrue, Ended
  <1>4. QED
    BY <1>0, <1>1, <1>2, <1>3 DEF Inv

(***************************************************************************)
(* Types hold, an accepted signal is in the history once and a refused one *)
(* is not, no wake of a parked receive is lost, a send is recorded once    *)
(* and routed at most once per execution, and nothing stands behind the    *)
(* end (signal/router.rs, nif_signal.rs).                                  *)
(***************************************************************************)
THEOREM SignalsAreSafe == Spec => []Inv
  BY Invariance, InvFollows, PTL

(***************************************************************************)
(* An execution after a crash gives every receive and every with_timeout   *)
(* the answer the first execution gave (nif_signal.rs, N-2).               *)
(***************************************************************************)
THEOREM ReceivesReplay == Spec => []ReplayAgrees
  BY Invariance, AnswersAgree, PTL

(***************************************************************************)
(* The k-th completed receive consumes the k-th recorded arrival           *)
(* (nif_signal.rs:314), with a send of the same name between them.         *)
(***************************************************************************)
THEOREM ReceivesAreOrdered == Spec => []ReceivesInOrder
  BY Invariance, AnswersInOrder, PTL

=============================================================================
