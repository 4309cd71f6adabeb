--------------------------- MODULE Children_proofs ---------------------------
(***************************************************************************)
(* Proofs about module Children, for any number of crashes, failures,      *)
(* continue-as-new of the child and reopens of the parent.                 *)
(***************************************************************************)
EXTENDS Children, FiniteSetTheorems, SequenceTheorems, TLAPS

-----------------------------------------------------------------------------
(***************************************************************************)
(* What a history says.                                                    *)
(***************************************************************************)
Has(h, type) == \E i \in DOMAIN h : h[i].type = type
Turns == Ends \cup {"Reopened"}

\* The two ways the first await can end; what is recorded behind them undoes neither.
FirstReturned(h) ==
    \E i \in DOMAIN h : /\ h[i].type = "ChildTerminal"
                        /\ \A f \in DOMAIN h : h[f].type = "TimerFired" => i < f
FirstTimedOut(h) ==
    \E f \in DOMAIN h : /\ h[f].type = "TimerFired"
                        /\ \A i \in DOMAIN h : h[i].type = "ChildTerminal" => f < i

\* An end of the child with this outcome is recorded.
EndIs(h, x) == \E i \in DOMAIN h : h[i].type = "ChildTerminal" /\ h[i].of = x

\* The last end or reopen.
LastTurn(h, l) ==
    /\ l \in DOMAIN h
    /\ h[l].type \in Turns
    /\ \A j \in l + 1 .. Len(h) : h[j].type \notin Turns

\* One end of the child is recorded, the scope is settled one way, and nothing
\* arrives behind the end of the parent.
Sound(h) ==
    /\ \A i, j \in DOMAIN h : h[i].type = "ChildTerminal" /\ h[j].type = "ChildTerminal" => i = j
    /\ ~(Has(h, "TimerFired") /\ Has(h, "TimerCancelled"))
    /\ \A i \in DOMAIN h : h[i].type \in {"ChildTerminal", "TimerFired"} =>
           EndOf(SubSeq(h, 1, i)) = "Reopened"
    /\ (\E i \in DOMAIN h : h[i].type \in Turns) => \E l \in DOMAIN h : LastTurn(h, l)

\* An end of the child may still be recorded.
Open(h) == ~Has(h, "ChildTerminal") /\ EndOf(h) = "Reopened"

-----------------------------------------------------------------------------
(* The inductive invariant.                                                *)

\* What the process remembers of the scope is recorded.
ScopeIsTrue ==
    /\ scope = "fired" => Has(history, "TimerFired")
    /\ scope = "cancelled" => Has(history, "TimerCancelled")

\* Who is registered has a process; a watcher runs for a process that awaits
\* or has awaited; an engine that is down has no tasks.
Watching == {"first_parked", "settle", "second", "second_parked", "exit"}
RegistryIsTrue ==
    /\ registered <=> up /\ pc \notin {"none", "gone"}
    /\ watch # NoWatch => registered /\ pc \in Watching
    /\ ~up => pc = "none" /\ sweep = NoSweep /\ retry = [c \in Child |-> Off]

(***************************************************************************)
(* The recorded end is one the child came to, and so is the one a watcher  *)
(* or an append without a task carries.  An append can land only where the *)
(* lock found the history open: the recorder is in step as long as nothing *)
(* landed, and at its own sequence otherwise.                              *)
(***************************************************************************)
EndsAreTrue ==
    /\ child[Awaited].state \in Outcome => child[Awaited].state \in child[Awaited].outcomes
    /\ \A i \in DOMAIN history :
           history[i].type = "ChildTerminal" => history[i].of \in child[Awaited].outcomes

WatchIsTrue ==
    /\ watch.step \in {"record", "append", "wake"} => watch.outcome \in child[Awaited].outcomes
    /\ watch.step = "append" /\ InStep => Open(history)

DetachedIsTrue ==
    detached # NoAppend =>
        /\ detached.outcome \in child[Awaited].outcomes
        /\ detached.seq <= Len(history)
        /\ registered => detached.seq <= head
        /\ detached.seq = Len(history) => Open(history)

\* Each answer of an await, and the end it was.
AnswersAreTrue ==
    /\ \A x \in got["first"] :
           \/ x = "timeout" /\ FirstTimedOut(history)
           \/ x # "timeout" /\ FirstReturned(history) /\ EndIs(history, x)
    /\ \A x \in got["second"] : EndIs(history, x)

(***************************************************************************)
(* Who may start a child: the process behind its record, the recovery task *)
(* of a start that failed, or the sweep, each once the others are out.     *)
(***************************************************************************)
Members(s) == {s[i] : i \in DOMAIN s}
Distinct(s) == \A i, j \in DOMAIN s : s[i] = s[j] => i = j
Swept == Members(sweep.left)
Sweeping(c) ==
    sweep.left # <<>> /\ c = Head(sweep.left) /\ sweep.task.step \in {"read", "start"}

Claims(c) ==
    /\ child[c].starts <= child[c].seq
    /\ pc = StartLabel[c] => SpawnRecorded(c) /\ retry[c] = Off /\ c \notin Swept
    /\ retry[c] # Off \/ c \in Swept => SpawnRecorded(c)
Exclusive(c) ==
    /\ child[c].starts <= 1
    /\ c \in Swept => retry[c] = Off
    /\ retry[c].step \in {"read", "start"} => child[c].starts = 0
    /\ Sweeping(c) => child[c].starts = 0
StartsAreTrue ==
    /\ Distinct(sweep.left)
    /\ \A c \in Child : Claims(c) /\ (reopens = 0 => Exclusive(c))

IInv ==
    /\ TypeOK
    /\ Sound(history)
    /\ ScopeIsTrue
    /\ RegistryIsTrue
    /\ EndsAreTrue
    /\ WatchIsTrue
    /\ DetachedIsTrue
    /\ AnswersAreTrue
    /\ StartsAreTrue
    /\ ParkedIsWatched

-----------------------------------------------------------------------------
USE ChildrenConstants

(***************************************************************************)
(* What an append does to a history.                                       *)
(***************************************************************************)
Adds(h, e, g) == g = Append(h, e)

LEMMA HistoryFacts ==
    ASSUME NEW h \in Seq(Events)
    PROVE  Len(h) \in Nat /\ DOMAIN h = 1 .. Len(h) /\ \A i \in DOMAIN h : h[i] \in Events
  OBVIOUS

LEMMA AppendFacts ==
    ASSUME NEW h \in Seq(Events), NEW e \in Events, NEW g, Adds(h, e, g)
    PROVE  /\ g \in Seq(Events)
           /\ Len(h) \in Nat /\ Len(g) = Len(h) + 1
           /\ DOMAIN h = 1 .. Len(h) /\ DOMAIN g = 1 .. Len(h) + 1
           /\ \A i \in 1 .. Len(h) : g[i] = h[i]
           /\ g[Len(h) + 1] = e
  BY DEF Adds

LEMMA AppendHas ==
    ASSUME NEW h \in Seq(Events), NEW e \in Events, NEW g, Adds(h, e, g), NEW type
    PROVE  Has(g, type) <=> Has(h, type) \/ e.type = type
  BY AppendFacts DEF Has

\* The last turn names the state of the run.
LEMMA EndIsLast ==
    ASSUME NEW h \in Seq(Events), NEW l, LastTurn(h, l)
    PROVE  EndOf(h) = h[l].type
  <1>1. DOMAIN h = 1 .. Len(h) /\ Len(h) \in Nat
    BY HistoryFacts
  <1> DEFINE c == CHOOSE i \in DOMAIN h : /\ h[i].type \in Ends \cup {"Reopened"}
                                          /\ \A j \in i + 1 .. Len(h) :
                                               h[j].type \notin Ends \cup {"Reopened"}
  <1>2. l \in DOMAIN h /\ h[l].type \in Turns /\ \A j \in l + 1 .. Len(h) : h[j].type \notin Turns
    BY DEF LastTurn
  <1>3. c \in DOMAIN h /\ h[c].type \in Turns /\ \A j \in c + 1 .. Len(h) : h[j].type \notin Turns
    BY <1>2 DEF Turns
  <1>4. EndOf(h) = h[c].type
    BY <1>2 DEF EndOf, Turns
  <1> HIDE DEF c
  <1>5. ~(c < l) /\ ~(l < c)
    BY <1>1, <1>2, <1>3
  <1>6. c = l
    BY <1>1, <1>2, <1>3, <1>5
  <1>7. QED
    BY <1>4, <1>6

LEMMA NoTurn ==
    ASSUME NEW h, \A i \in DOMAIN h : h[i].type \notin Turns
    PROVE  EndOf(h) = "Reopened"
  BY DEF EndOf, Turns

LEMMA AppendTurns ==
    ASSUME NEW h \in Seq(Events), NEW e \in Events, NEW g, Adds(h, e, g), Sound(h)
    PROVE  /\ EndOf(g) = IF e.type \in Turns THEN e.type ELSE EndOf(h)
           /\ (\E i \in DOMAIN g : g[i].type \in Turns) => \E l \in DOMAIN g : LastTurn(g, l)
  <1>1. /\ g \in Seq(Events) /\ Len(h) \in Nat /\ Len(g) = Len(h) + 1
        /\ DOMAIN h = 1 .. Len(h) /\ DOMAIN g = 1 .. Len(h) + 1
        /\ \A i \in 1 .. Len(h) : g[i] = h[i]
        /\ g[Len(h) + 1] = e
    BY AppendFacts
  <1>2. CASE e.type \in Turns
    <2>1. LastTurn(g, Len(h) + 1)
      BY <1>1, <1>2 DEF LastTurn
    <2>2. Len(h) + 1 \in DOMAIN g
      BY <1>1
    <2>3. QED
      BY <1>1, <1>2, <2>1, <2>2, EndIsLast
  <1>3. CASE e.type \notin Turns
    <2>1. CASE \A i \in DOMAIN h : h[i].type \notin Turns
      <3>1. \A i \in DOMAIN g : g[i].type \notin Turns
        BY <1>1, <1>3, <2>1
      <3>2. QED
        BY <1>3, <2>1, <3>1, NoTurn
    <2>2. CASE \E i \in DOMAIN h : h[i].type \in Turns
      <3>1. PICK l \in DOMAIN h : LastTurn(h, l)
        BY <2>2 DEF Sound
      <3>2. l \in DOMAIN g /\ g[l] = h[l]
        BY <1>1
      <3>3. ASSUME NEW j \in l + 1 .. Len(g) PROVE g[j].type \notin Turns
        <4>1. CASE j = Len(h) + 1
          BY <1>1, <1>3, <4>1
        <4>2. CASE j # Len(h) + 1
          <5>1. j \in l + 1 .. Len(h) /\ j \in 1 .. Len(h)
            BY <1>1, <3>3, <4>2
          <5>2. QED
            BY <1>1, <3>1, <5>1 DEF LastTurn
        <4>3. QED
          BY <4>1, <4>2
      <3>4. LastTurn(g, l)
        BY <3>1, <3>2, <3>3 DEF LastTurn
      <3>5. EndOf(g) = g[l].type /\ EndOf(h) = h[l].type
        BY <1>1, <3>1, <3>4, EndIsLast
      <3>6. QED
        BY <1>3, <3>2, <3>4, <3>5
    <2>3. QED
      BY <2>1, <2>2
  <1>4. QED
    BY <1>2, <1>3

\* What was recorded up to an event stays.
LEMMA AppendPrefix ==
    ASSUME NEW h \in Seq(Events), NEW e \in Events, NEW g, Adds(h, e, g)
    PROVE  /\ \A i \in DOMAIN h : SubSeq(g, 1, i) = SubSeq(h, 1, i)
           /\ SubSeq(g, 1, Len(h) + 1) = g
  <1>1. /\ g \in Seq(Events) /\ Len(h) \in Nat /\ Len(g) = Len(h) + 1
        /\ DOMAIN h = 1 .. Len(h) /\ DOMAIN g = 1 .. Len(h) + 1
        /\ \A i \in 1 .. Len(h) : g[i] = h[i]
    BY AppendFacts
  <1>2. ASSUME NEW i \in DOMAIN h PROVE SubSeq(g, 1, i) = SubSeq(h, 1, i)
    BY <1>1
  <1>3. SubSeq(g, 1, Len(h) + 1) = g
    BY <1>1
  <1>4. QED
    BY <1>2, <1>3

LEMMA AppendSound ==
    ASSUME NEW h \in Seq(Events), NEW e \in Events, NEW g, Adds(h, e, g), Sound(h),
           e.type = "ChildTerminal" => Open(h),
           e.type = "TimerFired" => EndOf(h) = "Reopened",
           e.type \in {"TimerFired", "TimerCancelled"} =>
               ~Has(h, "TimerFired") /\ ~Has(h, "TimerCancelled")
    PROVE  Sound(g)
  <1>1. /\ g \in Seq(Events) /\ Len(h) \in Nat /\ Len(g) = Len(h) + 1
        /\ DOMAIN h = 1 .. Len(h) /\ DOMAIN g = 1 .. Len(h) + 1
        /\ \A i \in 1 .. Len(h) : g[i] = h[i]
        /\ g[Len(h) + 1] = e
    BY AppendFacts
  <1>2. \A i, j \in DOMAIN g : g[i].type = "ChildTerminal" /\ g[j].type = "ChildTerminal" => i = j
    BY <1>1 DEF Sound, Open, Has
  <1>3. ~(Has(g, "TimerFired") /\ Has(g, "TimerCancelled"))
    BY AppendHas DEF Sound
  <1>4. ASSUME NEW i \in DOMAIN g, g[i].type \in {"ChildTerminal", "TimerFired"}
        PROVE  EndOf(SubSeq(g, 1, i)) = "Reopened"
    <2>1. CASE i \in DOMAIN h
      <3>1. h[i].type \in {"ChildTerminal", "TimerFired"}
        BY <1>1, <1>4, <2>1
      <3>2. EndOf(SubSeq(h, 1, i)) = "Reopened"
        BY <2>1, <3>1 DEF Sound
      <3>3. SubSeq(g, 1, i) = SubSeq(h, 1, i)
        BY <2>1, AppendPrefix
      <3>4. QED
        BY <3>2, <3>3
    <2>2. CASE i \notin DOMAIN h
      <3>1. i = Len(h) + 1 /\ e.type \in {"ChildTerminal", "TimerFired"}
        BY <1>1, <1>4, <2>2
      <3>2. EndOf(h) = "Reopened" /\ e.type \notin Turns
        BY <3>1 DEF Open, Turns, Ends
      <3>3. EndOf(g) = "Reopened"
        BY <3>2, AppendTurns
      <3>4. QED
        BY <3>1, <3>3, AppendPrefix
    <2>3. QED
      BY <2>1, <2>2
  <1>5. (\E i \in DOMAIN g : g[i].type \in Turns) => \E l \in DOMAIN g : LastTurn(g, l)
    BY AppendTurns
  <1>6. QED
    BY <1>2, <1>3, <1>4, <1>5 DEF Sound

\* How the first await ended is settled, and so is an end.
LEMMA AppendSettles ==
    ASSUME NEW h \in Seq(Events), NEW e \in Events, NEW g, Adds(h, e, g)
    PROVE  /\ FirstReturned(h) => FirstReturned(g)
           /\ FirstTimedOut(h) => FirstTimedOut(g)
           /\ \A x : EndIs(h, x) => EndIs(g, x)
  <1>1. /\ Len(h) \in Nat
        /\ DOMAIN h = 1 .. Len(h) /\ DOMAIN g = 1 .. Len(h) + 1
        /\ \A i \in 1 .. Len(h) : g[i] = h[i]
    BY AppendFacts
  <1>2. FirstReturned(h) => FirstReturned(g)
    BY <1>1 DEF FirstReturned
  <1>3. FirstTimedOut(h) => FirstTimedOut(g)
    BY <1>1 DEF FirstTimedOut
  <1>4. \A x : EndIs(h, x) => EndIs(g, x)
    BY <1>1 DEF EndIs
  <1>5. QED
    BY <1>2, <1>3, <1>4

-----------------------------------------------------------------------------
(***************************************************************************)
(* What a step records.                                                    *)
(***************************************************************************)
MayAppend(e) ==
    /\ e.type = "ChildTerminal" => Open(history) /\ e.of \in child[Awaited].outcomes
    /\ e.type = "TimerFired" => EndOf(history) = "Reopened"
    /\ e.type \in {"TimerFired", "TimerCancelled"} =>
           ~Has(history, "TimerFired") /\ ~Has(history, "TimerCancelled")
    /\ e.type = "Reopened" => pc \in {"none", "gone"} /\ pc' = "spawn_a"

Appends == \E e \in Events : MayAppend(e) /\ Adds(history, e, history')

LEMMA EventFacts ==
    /\ \A c \in Child : /\ Event("ChildStarted", c) \in Events
                        /\ Event("ChildStarted", c).type = "ChildStarted"
                        /\ Event("ChildStarted", c).of = c
    /\ \A x \in Outcome : /\ ChildTerminal(x) \in Events
                          /\ ChildTerminal(x).type = "ChildTerminal"
                          /\ ChildTerminal(x).of = x
    /\ \A t \in {"TimerStarted", "TimerFired", "TimerCancelled"} :
           /\ Event(t, "scope") \in Events
           /\ Event(t, "scope").type = t
    /\ \A t \in Ends \cup {"Reopened"} : Event(t, "run") \in Events /\ Event(t, "run").type = t
  BY DEF Event, Events, ChildTerminal

LEMMA RecordedHas ==
    /\ \A t : Recorded(t) <=> Has(history, t)
    /\ TerminalRecorded <=> Has(history, "ChildTerminal")
    /\ run_has_terminal_history <=> EndOf(history) # "Reopened"
  BY DEF Recorded, Has, TerminalRecorded, run_has_terminal_history

\* A record of any other event.
LEMMA PlainAppends ==
    ASSUME NEW e \in Events, history' = Append(history, e),
           e.type \notin {"ChildTerminal", "TimerFired", "TimerCancelled", "Reopened"}
    PROVE  Appends
  BY DEF Appends, MayAppend, Adds

LEMMA StepCases ==
    [Next]_vars <=>
        \/ (\E c \in Child : spawn_child(c)) \/ (\E c \in Child : SpawnStarts(c))
        \/ arm_scope \/ await_child \/ resume_with_timeout \/ ProcessExits
        \/ handle_process_exit \/ Kill \/ ScopeWakes
        \/ wait_for_child_terminal \/ record_parent_child_terminal \/ WatchAppends \/ WatchWakes
        \/ DetachedLands \/ (\E c \in Child : run_spawn_retry(c))
        \/ SweepChecks \/ SweepReads \/ SweepStarts \/ SweepDone \/ Boot
        \/ ChildSucceeds \/ ScopeFires \/ ChildEnds \/ ChildContinues \/ Cancel \/ Reopen \/ Crash
        \/ UNCHANGED vars
  BY DEF Next, Parent, Watcher, Recovery

LEMMA HistoryStep ==
    ASSUME TypeOK, WatchIsTrue, DetachedIsTrue, [Next]_vars
    PROVE  UNCHANGED history \/ Appends
  <1>1. ASSUME NEW c \in Child, spawn_child(c) PROVE UNCHANGED history \/ Appends
    <2>1. UNCHANGED history \/ history' = Append(history, Event("ChildStarted", c))
      BY <1>1 DEF spawn_child, Record
    <2>2. QED
      BY <2>1, PlainAppends, EventFacts
  <1>2. CASE arm_scope
    <2>1. UNCHANGED history \/ history' = Append(history, Event("TimerStarted", "scope"))
      BY <1>2 DEF arm_scope, Record
    <2>2. QED
      BY <2>1, PlainAppends, EventFacts
  <1>3. CASE resume_with_timeout
    <2>1. \/ UNCHANGED history
          \/ /\ history' = Append(history, Event("TimerCancelled", "scope"))
             /\ ~Has(history, "TimerFired") /\ ~Has(history, "TimerCancelled")
      BY <1>3, RecordedHas DEF resume_with_timeout, Record
    <2>2. QED
      BY <2>1, EventFacts DEF Appends, MayAppend, Adds
  <1>4. CASE ScopeFires
    <2>1. /\ history' = Append(history, Event("TimerFired", "scope"))
          /\ ~Has(history, "TimerFired") /\ ~Has(history, "TimerCancelled")
          /\ EndOf(history) = "Reopened"
      BY <1>4, RecordedHas DEF ScopeFires, Record
    <2>2. QED
      BY <2>1, EventFacts DEF Appends, MayAppend, Adds
  <1>5. CASE handle_process_exit \/ Cancel
    <2>1. UNCHANGED history \/ \E t \in Ends : history' = Append(history, Event(t, "run"))
      BY <1>5 DEF handle_process_exit, Cancel, Record, Conflict, Ends
    <2>2. \A t \in Ends : t \notin {"ChildTerminal", "TimerFired", "TimerCancelled", "Reopened"}
      BY DEF Ends
    <2>3. QED
      BY <2>1, <2>2, PlainAppends, EventFacts
  <1>6. CASE WatchAppends
    <2>1. \/ UNCHANGED history
          \/ InStep /\ history' = Append(history, ChildTerminal(watch.outcome))
      BY <1>6 DEF WatchAppends, Record, Conflict
    <2>2. CASE InStep /\ history' = Append(history, ChildTerminal(watch.outcome))
      <3>1. watch.step = "append"
        BY <1>6 DEF WatchAppends
      <3>2. Open(history) /\ watch.outcome \in child[Awaited].outcomes
        BY <2>2, <3>1 DEF WatchIsTrue
      <3>3. watch.outcome \in Outcome
        BY <3>2 DEF TypeOK, Awaited, Child
      <3>4. QED
        BY <2>2, <3>2, <3>3, EventFacts DEF Appends, MayAppend, Adds
    <2>3. QED
      BY <2>1, <2>2
  <1>7. CASE DetachedLands
    <2>1. \/ UNCHANGED history
          \/ /\ detached # NoAppend /\ detached.seq = Len(history)
             /\ history' = Append(history, ChildTerminal(detached.outcome))
      BY <1>7 DEF DetachedLands
    <2>2. CASE detached # NoAppend /\ detached.seq = Len(history)
               /\ history' = Append(history, ChildTerminal(detached.outcome))
      <3>1. Open(history) /\ detached.outcome \in child[Awaited].outcomes
        BY <2>2 DEF DetachedIsTrue
      <3>2. detached.outcome \in Outcome
        BY <3>1 DEF TypeOK, Awaited, Child
      <3>3. QED
        BY <2>2, <3>1, <3>2, EventFacts DEF Appends, MayAppend, Adds
    <2>3. QED
      BY <2>1, <2>2
  <1>8. CASE Reopen
    <2>1. /\ history' = Append(history, Event("Reopened", "run"))
          /\ pc \in {"none", "gone"} /\ pc' = "spawn_a"
      BY <1>8 DEF Reopen
    <2>2. QED
      BY <2>1, EventFacts DEF Appends, MayAppend, Adds
  <1>9. ASSUME NEW c \in Child, SpawnStarts(c) \/ run_spawn_retry(c) PROVE UNCHANGED history
    BY <1>9 DEF SpawnStarts, run_spawn_retry
  <1>10. await_child \/ ProcessExits \/ Kill \/ ScopeWakes \/ wait_for_child_terminal
         \/ record_parent_child_terminal \/ WatchWakes \/ SweepChecks \/ SweepReads \/ SweepStarts
         \/ SweepDone \/ Boot \/ ChildSucceeds \/ ChildEnds \/ ChildContinues \/ Crash
         \/ UNCHANGED vars => UNCHANGED history
    BY DEF await_child, ProcessExits, Kill, ScopeWakes, wait_for_child_terminal,
           record_parent_child_terminal, WatchWakes, SweepChecks, SweepReads, SweepStarts,
           SweepDone, Boot, ChildSucceeds, ChildEnds, ChildContinues, Crash, vars
  <1>11. QED
    BY <1>1, <1>2, <1>3, <1>4, <1>5, <1>6, <1>7, <1>8, <1>9, <1>10, StepCases

LEMMA HistoryKeeps ==
    ASSUME history \in Seq(Events), Sound(history), UNCHANGED history \/ Appends
    PROVE  /\ history' \in Seq(Events)
           /\ Sound(history')
           /\ Len(history) \in Nat /\ Len(history') \in Nat /\ Len(history) <= Len(history')
           /\ \A t : Has(history, t) => Has(history', t)
           /\ \A c : SpawnRecorded(c) => SpawnRecorded(c)'
           /\ FirstReturned(history) => FirstReturned(history')
           /\ FirstTimedOut(history) => FirstTimedOut(history')
           /\ \A x : EndIs(history, x) => EndIs(history', x)
  <1>1. Len(history) \in Nat
    BY HistoryFacts
  <1>2. CASE UNCHANGED history
    BY <1>1, <1>2 DEF SpawnRecorded
  <1>3. CASE Appends
    <2>1. PICK e \in Events : MayAppend(e) /\ Adds(history, e, history')
      BY <1>3 DEF Appends
    <2>2. /\ history' \in Seq(Events) /\ Len(history') = Len(history) + 1
          /\ DOMAIN history = 1 .. Len(history) /\ DOMAIN history' = 1 .. Len(history) + 1
          /\ \A i \in 1 .. Len(history) : history'[i] = history[i]
      BY <2>1, AppendFacts
    <2>3. \A t : Has(history, t) => Has(history', t)
      BY <2>1, AppendHas
    <2>4. \A c : SpawnRecorded(c) => SpawnRecorded(c)'
      BY <1>1, <2>2 DEF SpawnRecorded
    <2>5. /\ FirstReturned(history) => FirstReturned(history')
          /\ FirstTimedOut(history) => FirstTimedOut(history')
          /\ \A x : EndIs(history, x) => EndIs(history', x)
      BY <2>1, AppendSettles
    <2>6. Sound(history')
      BY <2>1, AppendSound DEF MayAppend
    <2>7. QED
      BY <1>1, <2>2, <2>3, <2>4, <2>5, <2>6
  <1>4. QED
    BY <1>2, <1>3

-----------------------------------------------------------------------------
(***************************************************************************)
(* What an await does: it times out as the first await of a run whose      *)
(* scope fired before any end of the child was recorded, returns the end   *)
(* that is recorded, or parks with a watcher.                              *)
(***************************************************************************)
AwaitTimesOut ==
    /\ Answer("timeout")
    /\ AbortWatch
    /\ Call = "first"
    /\ FirstTimedOut(history)

AwaitReturns ==
    /\ \E i \in DOMAIN history : history[i].type = "ChildTerminal" /\ Answer(history[i].of)
    /\ UNCHANGED <<watch, detached>>
    /\ Call = "first" => FirstReturned(history)

AwaitParks ==
    /\ watch' = IF watch = NoWatch THEN [NoWatch EXCEPT !.step = "poll"] ELSE watch
    /\ pc' = ParkedAt
    /\ UNCHANGED <<got, detached>>

LEMMA ExpiredIsFired ==
    ASSUME ScopeIsTrue
    PROVE  expired_scope_deadline => Call = "first" /\ Has(history, "TimerFired")
  BY RecordedHas DEF expired_scope_deadline, ScopeIsTrue

LEMMA NotExpired ==
    ASSUME TypeOK, ScopeIsTrue, Sound(history), Call = "first", Has(history, "TimerFired")
    PROVE  expired_scope_deadline
  <1>1. scope \in {"fired", "live"}
    BY DEF TypeOK, ScopeIsTrue, Sound
  <1>2. QED
    BY <1>1, RecordedHas DEF expired_scope_deadline

LEMMA AwaitCases ==
    ASSUME TypeOK, Sound(history), ScopeIsTrue, await_child
    PROVE  AwaitTimesOut \/ AwaitReturns \/ AwaitParks
  <1>0. history \in Seq(Events) /\ Len(history) \in Nat /\ DOMAIN history = 1 .. Len(history)
    BY HistoryFacts DEF TypeOK
  <1>1. \/ TerminalRecorded /\ scope_expired_before_child_terminal /\ Answer("timeout") /\ AbortWatch
        \/ /\ TerminalRecorded /\ ~scope_expired_before_child_terminal
           /\ \E i \in DOMAIN history : TerminalAt(i) /\ Answer(history[i].of)
           /\ UNCHANGED <<watch, detached>>
        \/ ~TerminalRecorded /\ expired_scope_deadline /\ Answer("timeout") /\ AbortWatch
        \/ AwaitParks
    BY DEF await_child, AwaitParks
  <1>2. CASE TerminalRecorded /\ scope_expired_before_child_terminal /\ Answer("timeout") /\ AbortWatch
    <2>1. Call = "first" /\ FirstTimedOut(history)
      BY <1>2, ExpiredIsFired DEF scope_expired_before_child_terminal, FirstTimedOut, TerminalAt
    <2>2. QED
      BY <1>2, <2>1 DEF AwaitTimesOut
  <1>3. CASE ~TerminalRecorded /\ expired_scope_deadline /\ Answer("timeout") /\ AbortWatch
    <2>1. Call = "first" /\ FirstTimedOut(history)
      BY <1>3, ExpiredIsFired, RecordedHas DEF FirstTimedOut, Has
    <2>2. QED
      BY <1>3, <2>1 DEF AwaitTimesOut
  <1>4. CASE /\ TerminalRecorded /\ ~scope_expired_before_child_terminal
             /\ \E i \in DOMAIN history : TerminalAt(i) /\ Answer(history[i].of)
             /\ UNCHANGED <<watch, detached>>
    <2>1. PICK i \in DOMAIN history : history[i].type = "ChildTerminal" /\ Answer(history[i].of)
      BY <1>4 DEF TerminalAt
    <2>2. \A j \in DOMAIN history : history[j].type = "ChildTerminal" => j = i
      BY <2>1 DEF Sound
    <2>3. ASSUME Call = "first", NEW f \in DOMAIN history, history[f].type = "TimerFired"
          PROVE  i < f
      <3>1. Has(history, "TimerFired")
        BY <2>3 DEF Has
      <3>2. expired_scope_deadline
        BY <2>3, <3>1, NotExpired
      <3>3. \E j \in DOMAIN history : TerminalAt(j) /\ ~(f < j)
        BY <1>4, <2>3, <3>2 DEF scope_expired_before_child_terminal
      <3>4. ~(f < i)
        BY <2>2, <3>3 DEF TerminalAt
      <3>5. f # i
        BY <2>1, <2>3
      <3>6. f \in Int /\ i \in Int
        BY <1>0
      <3>7. QED
        BY <3>4, <3>5, <3>6
    <2>4. Call = "first" => FirstReturned(history)
      BY <2>1, <2>3 DEF FirstReturned
    <2>5. QED
      BY <1>4, <2>1, <2>4 DEF AwaitReturns
  <1>5. QED
    BY <1>1, <1>2, <1>3, <1>4

\* The label and the watcher behind an await.
LEMMA AwaitMoves ==
    ASSUME TypeOK, Sound(history), ScopeIsTrue, await_child
    PROVE  /\ pc \in {"first", "first_parked", "second", "second_parked"} /\ up
           /\ pc' \in {"settle", "exit", "first_parked", "second_parked"}
           /\ UNCHANGED <<history, child, up, registered, head, scope, killing, waking, retry, sweep>>
           /\ UNCHANGED bounds
  <1>1. pc' \in {"settle", "exit", "first_parked", "second_parked"}
    BY AwaitCases DEF AwaitTimesOut, AwaitReturns, AwaitParks, Answer, ParkedAt
  <1>2. QED
    BY <1>1 DEF await_child, At

LEMMA ScopeStep ==
    ASSUME TypeOK, Sound(history), ScopeIsTrue, UNCHANGED history \/ Appends, [Next]_vars
    PROVE  ScopeIsTrue'
  <1>1. \A t : Has(history, t) => Has(history', t)
    BY HistoryKeeps DEF TypeOK
  <1>2. CASE UNCHANGED scope
    BY <1>1, <1>2 DEF ScopeIsTrue
  <1>3. CASE arm_scope
    <2>1. /\ scope' = "fired" => scope = "fired" \/ Has(history, "TimerFired")
          /\ scope' = "cancelled" => scope = "cancelled" \/ Has(history, "TimerCancelled")
      BY <1>3, RecordedHas DEF arm_scope
    <2>2. QED
      BY <1>1, <2>1 DEF ScopeIsTrue
  <1>4. CASE scope' = "live"
    BY <1>4 DEF ScopeIsTrue
  <1>5. UNCHANGED scope \/ arm_scope \/ scope' = "live"
    BY StepCases
       DEF spawn_child, SpawnStarts, await_child, resume_with_timeout, ProcessExits,
           handle_process_exit, Kill, ScopeWakes, wait_for_child_terminal,
           record_parent_child_terminal, WatchAppends, WatchWakes, DetachedLands, run_spawn_retry,
           SweepChecks, SweepReads, SweepStarts, start_workflow, Fall, SweepDone, Boot, ChildSucceeds,
           ScopeFires, ChildEnds, ChildContinues, Cancel, Reopen, Crash, vars, process
  <1>6. QED
    BY <1>2, <1>3, <1>4, <1>5


\* The pcs of a process that runs its code.
Running == {"spawn_a", "start_a", "spawn_b", "start_b", "arm", "first", "first_parked", "settle",
            "second", "second_parked", "exit"}

\* How the process moves: on through its code and to its exit, out of the registry, down with the
\* engine, or into a new execution.
Moves ==
    /\ up /\ pc \in Running /\ pc' \in Running \cup {"exited"} /\ UNCHANGED <<up, registered>>
    /\ pc \in Watching => pc' \in Watching \/ watch' = NoWatch
Leaves ==
    /\ up /\ pc = "exited"
    /\ \/ pc' = "gone" /\ registered' = FALSE
       \/ pc' = "wedged" /\ UNCHANGED registered
    /\ UNCHANGED <<up, watch>>
Starts ==
    /\ up' /\ registered' /\ pc' = "spawn_a" /\ UNCHANGED watch
    /\ pc \in {"none", "gone"}
    /\ sweep'.left = Unfinished /\ UNCHANGED retry

LEMMA ProcessStep ==
    ASSUME TypeOK, Sound(history), ScopeIsTrue, RegistryIsTrue, [Next]_vars
    PROVE  \/ UNCHANGED <<pc, registered, up>>
           \/ Moves
           \/ Leaves
           \/ Fall
           \/ Starts
           \/ ~up /\ up' = TRUE /\ UNCHANGED <<registered, pc, sweep, watch, retry>>
  <1>1. ASSUME NEW c \in Child, spawn_child(c) \/ SpawnStarts(c) PROVE Moves
    BY <1>1 DEF spawn_child, SpawnStarts, At, Moves, Running, Watching, SpawnLabel, StartLabel,
                AfterSpawn, Child
  <1>2. arm_scope \/ resume_with_timeout \/ ProcessExits => Moves
    BY DEF arm_scope, resume_with_timeout, ProcessExits, At, Moves, Running, Watching, AbortWatch
  <1>3. await_child => Moves
    BY AwaitMoves DEF Moves, Running, Watching
  <1>4. handle_process_exit => Leaves
    BY DEF handle_process_exit, At, Leaves
  <1>5. CASE Kill
    BY <1>5 DEF Kill, Moves, Running, Watching, AbortWatch, Alive, TypeOK
  <1>6. CASE Boot
    <2>1. CASE run_has_terminal_history
      BY <1>6, <2>1 DEF Boot
    <2>2. CASE ~run_has_terminal_history
      <3>1. ~up /\ up' = TRUE /\ registered' = TRUE /\ pc' = "spawn_a" /\ sweep' = Sweep(TRUE)
            /\ UNCHANGED <<watch, retry>>
        BY <1>6, <2>2 DEF Boot
      <3>2. pc = "none"
        BY <3>1 DEF RegistryIsTrue
      <3>3. Starts
        BY <3>1, <3>2 DEF Starts, Sweep
      <3>4. QED
        BY <3>3
    <2>3. QED
      BY <2>1, <2>2
  <1>7. CASE Reopen
    BY <1>7 DEF Reopen, Starts, Sweep
  <1>8. Crash => Fall
    BY DEF Crash
  <1>9. CASE SweepStarts
    BY <1>9 DEF SweepStarts, start_workflow, process
  <1>10. CASE \E c \in Child : run_spawn_retry(c)
    BY <1>10 DEF run_spawn_retry, process
  <1>11. ScopeWakes \/ wait_for_child_terminal \/ record_parent_child_terminal \/ WatchAppends
         \/ WatchWakes \/ DetachedLands \/ SweepChecks \/ SweepReads \/ SweepDone \/ ChildSucceeds
         \/ ScopeFires \/ ChildEnds \/ ChildContinues \/ Cancel \/ UNCHANGED vars
         => UNCHANGED <<pc, registered, up>>
    BY DEF ScopeWakes, wait_for_child_terminal, record_parent_child_terminal, WatchAppends,
           WatchWakes, DetachedLands, SweepChecks, SweepReads, SweepDone, ChildSucceeds,
           ScopeFires, ChildEnds, ChildContinues, Cancel, vars, process
  <1>12. QED
    BY <1>1, <1>2, <1>3, <1>4, <1>5, <1>6, <1>7, <1>8, <1>9, <1>10, <1>11, StepCases

\* Who touches the watcher.
LEMMA WatchCases ==
    ASSUME TypeOK, Sound(history), ScopeIsTrue, [Next]_vars
    PROVE  \/ UNCHANGED watch
           \/ AbortWatch
           \/ watch' = NoWatch
           \/ await_child /\ AwaitParks
           \/ wait_for_child_terminal \/ record_parent_child_terminal \/ WatchAppends
  <1>1. CASE await_child
    BY <1>1, AwaitCases DEF AwaitTimesOut, AwaitReturns
  <1>2. CASE SweepStarts
    BY <1>2 DEF SweepStarts, start_workflow, Fall
  <1>3. Crash => watch' = NoWatch
    BY DEF Crash, Fall
  <1>4. CASE \E c \in Child : run_spawn_retry(c) \/ spawn_child(c) \/ SpawnStarts(c)
    BY <1>4 DEF run_spawn_retry, spawn_child, SpawnStarts
  <1>5. CASE Kill
    BY <1>5 DEF Kill
  <1>6. ProcessExits => AbortWatch
    BY DEF ProcessExits
  <1>7. WatchWakes => watch' = NoWatch
    BY DEF WatchWakes
  <1>8. arm_scope \/ resume_with_timeout \/ handle_process_exit \/ ScopeWakes
         \/ DetachedLands \/ SweepChecks \/ SweepReads \/ SweepDone \/ ChildSucceeds
         \/ ScopeFires \/ ChildEnds \/ ChildContinues \/ Cancel \/ Boot \/ Reopen \/ UNCHANGED vars
         => UNCHANGED watch
    BY DEF arm_scope, resume_with_timeout, handle_process_exit, ScopeWakes,
           DetachedLands, SweepChecks, SweepReads, SweepDone, ChildSucceeds,
           ScopeFires, ChildEnds, ChildContinues, Cancel, Boot, Reopen, vars
  <1>9. QED
    BY <1>1, <1>2, <1>3, <1>4, <1>5, <1>6, <1>7, <1>8, StepCases

\* An engine that is down only boots, and the boot touches no task.
LEMMA DownStep ==
    ASSUME ~up, [Next]_vars
    PROVE  UNCHANGED vars \/ Boot
  BY StepCases
     DEF spawn_child, SpawnStarts, arm_scope, await_child, resume_with_timeout, ProcessExits, At,
         handle_process_exit, Kill, ScopeWakes, wait_for_child_terminal,
         record_parent_child_terminal, WatchAppends, WatchWakes, DetachedLands, run_spawn_retry,
         SweepChecks, SweepReads, SweepStarts, SweepDone, ChildSucceeds,
         ScopeFires, ChildEnds, ChildContinues, Cancel, Reopen, Crash

LEMMA RegistryStep ==
    ASSUME TypeOK, Sound(history), ScopeIsTrue, RegistryIsTrue, [Next]_vars
    PROVE  RegistryIsTrue'
  <1>0. registered \in BOOLEAN /\ up \in BOOLEAN
    BY DEF TypeOK
  <1>1. registered' <=> up' /\ pc' \notin {"none", "gone"}
    <2>1. UNCHANGED <<pc, registered, up>> => (registered' <=> up' /\ pc' \notin {"none", "gone"})
      BY DEF RegistryIsTrue
    <2>2. Moves => (registered' <=> up' /\ pc' \notin {"none", "gone"})
      BY DEF RegistryIsTrue, Moves, Running
    <2>3. Leaves => (registered' <=> up' /\ pc' \notin {"none", "gone"})
      <3>1. CASE Leaves /\ pc' = "gone" /\ registered' = FALSE
        BY <3>1
      <3>2. CASE Leaves /\ pc' = "wedged" /\ UNCHANGED registered
        <4>1. registered /\ up'
          BY <3>2 DEF RegistryIsTrue, Leaves
        <4>2. QED
          BY <3>2, <4>1
      <3>3. QED
        BY <3>1, <3>2 DEF Leaves
    <2>4. Fall => (registered' <=> up' /\ pc' \notin {"none", "gone"})
      BY DEF Fall
    <2>5. Starts => (registered' <=> up' /\ pc' \notin {"none", "gone"})
      BY DEF Starts
    <2>6. ~up /\ up' = TRUE /\ UNCHANGED <<registered, pc>>
            => (registered' <=> up' /\ pc' \notin {"none", "gone"})
      BY DEF RegistryIsTrue
    <2>7. QED
      BY <2>1, <2>2, <2>3, <2>4, <2>5, <2>6, ProcessStep
  <1>2. ~up' => pc' = "none" /\ sweep' = NoSweep /\ retry' = [c \in Child |-> Off]
    <2>1. CASE up
      BY <2>1, ProcessStep DEF Moves, Leaves, Fall, Starts
    <2>2. CASE ~up
      <3>1. pc = "none" /\ sweep = NoSweep /\ retry = [c \in Child |-> Off]
        BY <2>2 DEF RegistryIsTrue
      <3>2. UNCHANGED vars \/ Boot
        BY <2>2, DownStep
      <3>3. CASE Boot
        BY <3>3 DEF Boot
      <3>4. CASE UNCHANGED vars
        BY <3>1, <3>4 DEF vars, process
      <3>5. QED
        BY <3>2, <3>3, <3>4
    <2>3. QED
      BY <2>1, <2>2
  <1>3. ASSUME watch' # NoWatch PROVE registered' /\ pc' \in Watching
    <2>1. CASE await_child /\ AwaitParks
      <3>1. registered /\ UNCHANGED registered
        BY <2>1, AwaitMoves DEF RegistryIsTrue
      <3>2. pc' \in Watching
        BY <2>1 DEF AwaitParks, ParkedAt, Watching
      <3>3. QED
        BY <3>1, <3>2
    <2>2. ASSUME watch # NoWatch, registered' = registered, pc' \in Watching
          PROVE  registered' /\ pc' \in Watching
      BY <2>2 DEF RegistryIsTrue
    <2>3. CASE wait_for_child_terminal \/ record_parent_child_terminal \/ WatchAppends
      <3>1. watch # NoWatch /\ UNCHANGED <<pc, registered>>
        BY <2>3 DEF wait_for_child_terminal, record_parent_child_terminal, WatchAppends, NoWatch, process
      <3>2. QED
        BY <3>1 DEF RegistryIsTrue
    <2>4. CASE UNCHANGED watch
      <3>1. watch # NoWatch /\ registered /\ pc \in Watching
        BY <1>3, <2>4 DEF RegistryIsTrue
      <3>2. up /\ pc \notin {"none", "gone", "exited"}
        BY <3>1 DEF RegistryIsTrue, Watching
      <3>3. UNCHANGED <<pc, registered, up>> \/ Moves
        BY <1>3, <3>2, ProcessStep DEF Leaves, Fall, Starts
      <3>4. CASE Moves
        <4>1. registered'
          BY <3>1, <3>4 DEF Moves
        <4>2. pc' \in Watching
          BY <1>3, <3>1, <3>4 DEF Moves
        <4>3. QED
          BY <4>1, <4>2
      <3>5. QED
        BY <3>1, <3>3, <3>4
    <2>5. QED
      BY <1>3, <2>1, <2>3, <2>4, WatchCases DEF AbortWatch
  <1>4. QED
    BY <1>1, <1>2, <1>3 DEF RegistryIsTrue

-----------------------------------------------------------------------------
(***************************************************************************)
(* The ends of the child, the watcher and the append without a task.       *)
(***************************************************************************)
\* What a step may do to a child: its ends are only added to, and a new one is its state.
ChildGrows(c) ==
    /\ child'[c].outcomes = child[c].outcomes \/ child'[c].outcomes = child[c].outcomes \cup {child'[c].state}
    /\ child'[c].state = child[c].state \/ child'[c].state \notin Outcome
       \/ child'[c].state \in child'[c].outcomes

ChildRecord == [seq : Nat, starts : Nat, state : Outcome \cup {"absent", "running", "continued"},
                live : BOOLEAN, outcomes : SUBSET Outcome]

LEMMA WithStartGrows ==
    ASSUME TypeOK, NEW c \in Child, NEW lives \in BOOLEAN, child' = WithStart(c, lives)
    PROVE  \A d \in Child : /\ child'[d].outcomes = child[d].outcomes
                            /\ child'[d].state = child[d].state \/ child'[d].state \notin Outcome
  <1>1. child \in [Child -> ChildRecord]
    BY DEF TypeOK, ChildRecord
  <1>2. ASSUME NEW d \in Child, d # c PROVE child'[d] = child[d]
    BY <1>1, <1>2 DEF WithStart
  <1>3. child'[c].outcomes = child[c].outcomes /\ child'[c].state = "running"
    BY <1>1 DEF WithStart, ChildRecord
  <1>4. QED
    BY <1>2, <1>3 DEF Outcome

LEMMA SweepContinuedGrows ==
    ASSUME NEW children, NEW d \in Child
    PROVE  /\ SweepContinued(children)[d].outcomes = children[d].outcomes
           /\ SweepContinued(children)[d].state = children[d].state
              \/ SweepContinued(children)[d].state = "running"
           /\ SweepContinued(children)[d].starts = children[d].starts
  BY DEF SweepContinued

LEMMA ChildStep ==
    ASSUME TypeOK, [Next]_vars, NEW d \in Child
    PROVE  ChildGrows(d)
  <1>1. ASSUME NEW c \in Child, child' = child \/ child' = WithStart(c, TRUE) \/ child' = WithStart(c, FALSE)
        PROVE  ChildGrows(d)
    BY <1>1, WithStartGrows DEF ChildGrows
  <1>2. ASSUME NEW c \in Child, SpawnStarts(c) \/ run_spawn_retry(c) PROVE ChildGrows(d)
    <2>1. child' = child \/ child' = WithStart(c, TRUE) \/ child' = WithStart(c, FALSE)
      BY <1>2 DEF SpawnStarts, run_spawn_retry, start_workflow
    <2>2. QED
      BY <1>1, <2>1
  <1>3. CASE SweepStarts
    <2>1. Head(sweep.left) \in Child
      BY <1>3 DEF SweepStarts, TypeOK
    <2>2. child' = child \/ child' = WithStart(Head(sweep.left), TRUE)
          \/ child' = WithStart(Head(sweep.left), FALSE)
      BY <1>3 DEF SweepStarts, start_workflow
    <2>3. QED
      BY <1>1, <2>1, <2>2
  <1>4. CASE SweepDone
    <2>1. child' = child \/ child' = SweepContinued(child)
      BY <1>4 DEF SweepDone
    <2>2. QED
      BY <2>1, SweepContinuedGrows DEF ChildGrows, Outcome
  <1>5. CASE Boot
    <2> DEFINE respawned == [c \in Child |-> [child[c] EXCEPT !.live = child[c].state = "running"]]
    <2>1. child' = respawned \/ child' = SweepContinued(respawned)
      BY <1>5 DEF Boot
    <2>2. respawned[d].outcomes = child[d].outcomes /\ respawned[d].state = child[d].state
      BY DEF TypeOK
    <2> HIDE DEF respawned
    <2>3. QED
      BY <2>1, <2>2, SweepContinuedGrows DEF ChildGrows, Outcome
  <1>6. CASE ChildEnds
    <2>1. PICK outcome \in Outcome :
              child' = [child EXCEPT ![Awaited].seq = @ + 1, ![Awaited].state = outcome,
                                     ![Awaited].live = FALSE,
                                     ![Awaited].outcomes = @ \cup {outcome}]
      BY <1>6 DEF ChildEnds
    <2>2. Awaited \in Child /\ child \in [Child -> ChildRecord]
      BY DEF TypeOK, ChildRecord, Awaited, Child
    <2>3. CASE d # Awaited
      BY <2>1, <2>2, <2>3 DEF ChildGrows
    <2>4. CASE d = Awaited
      <3>1. child'[d].outcomes = child[d].outcomes \cup {outcome} /\ child'[d].state = outcome
        BY <2>1, <2>2, <2>4 DEF ChildRecord
      <3>2. QED
        BY <3>1 DEF ChildGrows
    <2>5. QED
      BY <2>3, <2>4
  <1>7. CASE ChildContinues \/ ChildSucceeds
    <2>1. PICK state \in {"continued", "running"} :
              child' = [child EXCEPT ![Awaited].seq = @ + 1, ![Awaited].state = state]
      BY <1>7 DEF ChildContinues, ChildSucceeds
    <2>2. Awaited \in Child /\ child \in [Child -> ChildRecord]
      BY DEF TypeOK, ChildRecord, Awaited, Child
    <2>3. CASE d # Awaited
      BY <2>1, <2>2, <2>3 DEF ChildGrows
    <2>4. CASE d = Awaited
      <3>1. child'[d].outcomes = child[d].outcomes /\ child'[d].state = state
        BY <2>1, <2>2, <2>4 DEF ChildRecord
      <3>2. QED
        BY <3>1 DEF ChildGrows, Outcome
    <2>5. QED
      BY <2>3, <2>4
  <1>8. CASE UNCHANGED child
    BY <1>8 DEF ChildGrows
  <1>9. ASSUME NEW c \in Child, spawn_child(c) PROVE UNCHANGED child
    BY <1>9 DEF spawn_child
  <1>10. arm_scope \/ await_child \/ resume_with_timeout \/ ProcessExits \/ handle_process_exit \/ Kill
         \/ ScopeWakes \/ wait_for_child_terminal \/ record_parent_child_terminal \/ WatchAppends
         \/ WatchWakes \/ DetachedLands \/ SweepChecks \/ SweepReads \/ ScopeFires \/ Cancel \/ Reopen
         \/ Crash \/ UNCHANGED vars => UNCHANGED child
    BY DEF arm_scope, await_child, resume_with_timeout, ProcessExits, handle_process_exit, Kill,
           ScopeWakes, wait_for_child_terminal, record_parent_child_terminal, WatchAppends,
           WatchWakes, DetachedLands, SweepChecks, SweepReads, ScopeFires, Cancel, Reopen, Crash, vars
  <1>11. QED
    BY <1>2, <1>3, <1>4, <1>5, <1>6, <1>7, <1>8, <1>9, <1>10, StepCases

LEMMA EndsStep ==
    ASSUME TypeOK, EndsAreTrue, UNCHANGED history \/ Appends, [Next]_vars
    PROVE  EndsAreTrue' /\ child[Awaited].outcomes \subseteq child'[Awaited].outcomes
  <1>0. Awaited \in Child
    BY DEF Awaited, Child
  <1>1. ChildGrows(Awaited)
    BY <1>0, ChildStep
  <1>2. child[Awaited].outcomes \subseteq child'[Awaited].outcomes
    BY <1>1 DEF ChildGrows
  <1>3. child'[Awaited].state \in Outcome => child'[Awaited].state \in child'[Awaited].outcomes
    BY <1>1, <1>2 DEF ChildGrows, EndsAreTrue
  <1>4. \A i \in DOMAIN history' :
            history'[i].type = "ChildTerminal" => history'[i].of \in child'[Awaited].outcomes
    <2>1. CASE UNCHANGED history
      BY <1>2, <2>1 DEF EndsAreTrue
    <2>2. CASE Appends
      <3>1. PICK e \in Events : MayAppend(e) /\ Adds(history, e, history')
        BY <2>2 DEF Appends
      <3>2. /\ Len(history) \in Nat
            /\ DOMAIN history = 1 .. Len(history) /\ DOMAIN history' = 1 .. Len(history) + 1
            /\ \A i \in 1 .. Len(history) : history'[i] = history[i]
            /\ history'[Len(history) + 1] = e
        BY <3>1, AppendFacts DEF TypeOK
      <3>3. e.type = "ChildTerminal" => e.of \in child[Awaited].outcomes
        BY <3>1 DEF MayAppend
      <3>4. ASSUME NEW i \in DOMAIN history', history'[i].type = "ChildTerminal"
            PROVE  history'[i].of \in child'[Awaited].outcomes
        <4>1. CASE i = Len(history) + 1
          BY <1>2, <3>2, <3>3, <3>4, <4>1
        <4>2. CASE i # Len(history) + 1
          <5>1. i \in DOMAIN history /\ history'[i] = history[i]
            BY <3>2, <3>4, <4>2
          <5>2. QED
            BY <1>2, <3>4, <5>1 DEF EndsAreTrue
        <4>3. QED
          BY <4>1, <4>2
      <3>5. QED
        BY <3>4
    <2>3. QED
      BY <2>1, <2>2
  <1>5. QED
    BY <1>2, <1>3, <1>4 DEF EndsAreTrue

(***************************************************************************)
(* The recorder: it records in step, is made for the history it reads, or  *)
(* is left behind by an append without a task.                             *)
(***************************************************************************)
Records == head = Len(history) /\ head' = head + 1 /\ Len(history') = Len(history) + 1
Resumes == ~registered /\ head' = Len(history')

LEMMA HeadStep ==
    ASSUME TypeOK, RegistryIsTrue, [Next]_vars
    PROVE  \/ UNCHANGED <<history, head>> /\ (registered' => registered)
           \/ Records /\ ~Locked /\ (registered' => registered)
           \/ Records /\ WatchAppends
           \/ Resumes /\ watch = NoWatch
           \/ Fall /\ UNCHANGED history
           \/ DetachedLands
  <1>0. history \in Seq(Events) /\ Len(history) \in Nat
    BY HistoryFacts DEF TypeOK
  <1>1. ASSUME NEW e, Record(e) PROVE Records
    BY <1>0, <1>1 DEF Record, Records, InStep
  <1>2. ASSUME NEW c \in Child, spawn_child(c)
        PROVE  (UNCHANGED <<history, head>> \/ (Records /\ ~Locked)) /\ UNCHANGED registered
    <2>1. UNCHANGED <<history, head>> \/ (~Locked /\ Record(Event("ChildStarted", c)))
      BY <1>2 DEF spawn_child
    <2>2. UNCHANGED registered
      BY <1>2 DEF spawn_child
    <2>3. QED
      BY <1>1, <2>1, <2>2
  <1>3. ASSUME NEW c \in Child, SpawnStarts(c) \/ run_spawn_retry(c)
        PROVE  UNCHANGED <<history, head, registered>>
    BY <1>3 DEF SpawnStarts, run_spawn_retry
  <1>4. arm_scope \/ resume_with_timeout \/ ScopeFires \/ Cancel
        => (UNCHANGED <<history, head>> \/ (Records /\ ~Locked)) /\ UNCHANGED registered
    <2>1. arm_scope \/ resume_with_timeout \/ ScopeFires \/ Cancel
          => UNCHANGED <<history, head>> \/ (~Locked /\ \E e : Record(e))
      BY DEF arm_scope, resume_with_timeout, ScopeFires, Cancel
    <2>2. arm_scope \/ resume_with_timeout \/ ScopeFires \/ Cancel => UNCHANGED registered
      BY DEF arm_scope, resume_with_timeout, ScopeFires, Cancel
    <2>3. QED
      BY <1>1, <2>1, <2>2
  <1>5. handle_process_exit => (UNCHANGED <<history, head>> \/ (Records /\ ~Locked))
                               /\ (registered' => registered)
    BY <1>1 DEF handle_process_exit, Conflict
  <1>6. WatchAppends => (UNCHANGED <<history, head>> \/ Records) /\ UNCHANGED registered
    BY <1>1 DEF WatchAppends, Conflict
  <1>7. CASE Boot
    <2>1. CASE run_has_terminal_history
      BY <1>7, <2>1 DEF Boot
    <2>2. CASE ~run_has_terminal_history
      BY <1>7, <2>2 DEF Boot, Resumes, resume_at, RegistryIsTrue
    <2>3. QED
      BY <2>1, <2>2
  <1>8. CASE Reopen
    <2>1. history' = Append(history, Event("Reopened", "run")) /\ head' = Len(history) + 1
          /\ pc \in {"none", "gone"}
      BY <1>8 DEF Reopen, resume_at
    <2>2. QED
      BY <1>0, <2>1 DEF Resumes, RegistryIsTrue
  <1>9. Crash => Fall /\ UNCHANGED history
    BY DEF Crash
  <1>10. CASE SweepStarts
    BY <1>10 DEF SweepStarts, start_workflow
  <1>11. await_child \/ ProcessExits \/ Kill
         \/ ScopeWakes \/ wait_for_child_terminal \/ record_parent_child_terminal
         \/ WatchWakes \/ SweepChecks \/ SweepReads \/ SweepDone \/ ChildSucceeds \/ ChildEnds
         \/ ChildContinues \/ UNCHANGED vars => UNCHANGED <<history, head, registered>>
    BY DEF await_child, ProcessExits, Kill,
           ScopeWakes, wait_for_child_terminal, record_parent_child_terminal,
           WatchWakes, SweepChecks, SweepReads, SweepDone, ChildSucceeds, ChildEnds,
           ChildContinues, vars
  <1>12. QED
    BY <1>2, <1>3, <1>4, <1>5, <1>6, <1>7, <1>8, <1>9, <1>10, <1>11, StepCases

LEMMA WatchStep ==
    ASSUME TypeOK, Sound(history), ScopeIsTrue, RegistryIsTrue, EndsAreTrue, WatchIsTrue,
           UNCHANGED history \/ Appends, [Next]_vars
    PROVE  WatchIsTrue'
  <1>0. /\ child[Awaited].outcomes \subseteq child'[Awaited].outcomes
        /\ history \in Seq(Events) /\ Len(history) \in Nat /\ head \in Nat
    BY EndsStep, HistoryFacts DEF TypeOK
  <1>1. CASE watch'.step \notin {"record", "append", "wake"}
    BY <1>1 DEF WatchIsTrue
  <1>2. CASE UNCHANGED watch
    <2>1. watch'.step \in {"record", "append", "wake"} => watch'.outcome \in child'[Awaited].outcomes
      BY <1>0, <1>2 DEF WatchIsTrue
    <2>2. ASSUME watch'.step = "append", InStep' PROVE Open(history')
      <3>1. watch.step = "append" /\ watch # NoWatch /\ registered /\ Locked
        BY <1>2, <2>2 DEF RegistryIsTrue, NoWatch, Locked
      <3>2. Len(history) - head \in {0, 1}
        BY <3>1 DEF TypeOK
      <3>3. ~Fall
        BY <1>2, <3>1 DEF Fall
      <3>4. ~WatchAppends
        BY <1>2, <3>1 DEF WatchAppends, TypeOK
      <3>5. UNCHANGED <<history, head>> \/ DetachedLands
        BY <3>1, <3>3, <3>4, HeadStep
      <3>6. UNCHANGED <<history, head>>
        <4>1. CASE DetachedLands
          <5>1. UNCHANGED head /\ (UNCHANGED history
                                   \/ history' = Append(history, ChildTerminal(detached.outcome)))
            BY <4>1 DEF DetachedLands
          <5>2. history' # Append(history, ChildTerminal(detached.outcome))
            <6>1. SUFFICES ASSUME history' = Append(history, ChildTerminal(detached.outcome))
                           PROVE  FALSE
              OBVIOUS
            <6>2. Len(history') = Len(history) + 1
              BY <1>0, <6>1
            <6>3. head = Len(history')
              BY <2>2, <5>1 DEF InStep
            <6>4. QED
              BY <1>0, <3>2, <6>2, <6>3
          <5>3. QED
            BY <5>1, <5>2
        <4>2. QED
          BY <3>5, <4>1
      <3>7. QED
        BY <2>2, <3>1, <3>6 DEF WatchIsTrue, InStep
    <2>3. QED
      BY <2>1, <2>2 DEF WatchIsTrue
  <1>3. CASE wait_for_child_terminal
    <2>1. watch' = [step |-> "record", outcome |-> child[Awaited].state] /\ child[Awaited].state \in Outcome
      BY <1>3 DEF wait_for_child_terminal
    <2>2. watch'.outcome \in child'[Awaited].outcomes
      BY <1>0, <2>1 DEF EndsAreTrue
    <2>3. QED
      BY <2>1, <2>2 DEF WatchIsTrue
  <1>4. CASE record_parent_child_terminal
    <2>1. CASE run_has_terminal_history
      <3>1. watch' = NoWatch
        BY <1>4, <2>1 DEF record_parent_child_terminal
      <3>2. QED
        BY <3>1 DEF NoWatch, WatchIsTrue
    <2>2. CASE ~run_has_terminal_history
      <3>1. watch.step = "record"
            /\ watch' = [watch EXCEPT !.step = IF TerminalRecorded THEN "wake" ELSE "append"]
            /\ UNCHANGED history
        BY <1>4, <2>2 DEF record_parent_child_terminal
      <3>2. watch'.outcome = watch.outcome /\ (watch'.step = "append" => ~TerminalRecorded)
        BY <3>1 DEF TypeOK
      <3>3. watch'.outcome \in child'[Awaited].outcomes
        BY <1>0, <3>1, <3>2 DEF WatchIsTrue
      <3>4. watch'.step = "append" => Open(history)
        BY <2>2, <3>2, RecordedHas DEF Open
      <3>5. QED
        BY <3>1, <3>3, <3>4 DEF WatchIsTrue
    <2>3. QED
      BY <2>1, <2>2
  <1>5. CASE WatchAppends
    <2>1. watch.step = "append" /\ (watch' = [watch EXCEPT !.step = "wake"]
                                    \/ watch' = [watch EXCEPT !.step = "record"])
      BY <1>5 DEF WatchAppends
    <2>2. watch'.outcome = watch.outcome /\ watch'.step # "append"
      BY <2>1 DEF TypeOK
    <2>3. QED
      BY <1>0, <2>1, <2>2 DEF WatchIsTrue
  <1>6. CASE watch' = NoWatch
    BY <1>1, <1>6 DEF NoWatch
  <1>7. CASE await_child /\ AwaitParks
    <2>1. UNCHANGED watch \/ watch'.step = "poll"
      BY <1>7 DEF AwaitParks, NoWatch
    <2>2. QED
      BY <1>1, <1>2, <2>1
  <1>8. QED
    BY <1>2, <1>3, <1>4, <1>5, <1>6, <1>7, WatchCases DEF AbortWatch

\* An abort leaves the append of a locked watcher with the store.
Orphaned ==
    /\ watch.step = "append"
    /\ detached' = [outcome |-> watch.outcome, seq |-> head]
    /\ UNCHANGED <<history, child, registered, head>>

LEMMA DetachedCases ==
    ASSUME TypeOK, Sound(history), ScopeIsTrue, [Next]_vars
    PROVE  UNCHANGED detached \/ detached' = NoAppend \/ Orphaned
  <1>1. ASSUME AbortWatch, UNCHANGED <<history, child, registered, head>>
        PROVE  UNCHANGED detached \/ Orphaned
    BY <1>1 DEF AbortWatch, Orphaned
  <1>2. CASE await_child
    <2>1. UNCHANGED <<history, child, registered, head>>
      BY <1>2 DEF await_child
    <2>2. QED
      BY <1>1, <1>2, <2>1, AwaitCases DEF AwaitTimesOut, AwaitReturns, AwaitParks
  <1>3. CASE ProcessExits
    BY <1>1, <1>3 DEF ProcessExits
  <1>4. CASE Kill
    BY <1>1, <1>4 DEF Kill
  <1>5. CASE SweepStarts \/ Crash
    BY <1>5 DEF SweepStarts, start_workflow, Fall, Crash
  <1>6. CASE \E c \in Child : run_spawn_retry(c) \/ spawn_child(c) \/ SpawnStarts(c)
    BY <1>6 DEF run_spawn_retry, spawn_child, SpawnStarts
  <1>7. DetachedLands => detached' = NoAppend
    BY DEF DetachedLands
  <1>8. arm_scope \/ resume_with_timeout \/ handle_process_exit \/ ScopeWakes
         \/ wait_for_child_terminal \/ record_parent_child_terminal \/ WatchAppends \/ WatchWakes
         \/ SweepChecks \/ SweepReads \/ SweepDone \/ ChildSucceeds
         \/ ScopeFires \/ ChildEnds \/ ChildContinues \/ Cancel \/ Boot \/ Reopen \/ UNCHANGED vars
         => UNCHANGED detached
    BY DEF arm_scope, resume_with_timeout, handle_process_exit, ScopeWakes,
           wait_for_child_terminal, record_parent_child_terminal, WatchAppends, WatchWakes,
           SweepChecks, SweepReads, SweepDone, ChildSucceeds,
           ScopeFires, ChildEnds, ChildContinues, Cancel, Boot, Reopen, vars
  <1>9. QED
    BY <1>2, <1>3, <1>4, <1>5, <1>6, <1>7, <1>8, StepCases

LEMMA DetachedStep ==
    ASSUME TypeOK, Sound(history), ScopeIsTrue, RegistryIsTrue, EndsAreTrue, WatchIsTrue,
           DetachedIsTrue, UNCHANGED history \/ Appends, [Next]_vars
    PROVE  DetachedIsTrue'
  <1>0. /\ child[Awaited].outcomes \subseteq child'[Awaited].outcomes
        /\ history \in Seq(Events) /\ Len(history) \in Nat /\ head \in Nat
        /\ detached.seq \in Nat
    BY EndsStep, HistoryFacts DEF TypeOK
  <1>1. CASE detached' = NoAppend
    BY <1>1 DEF DetachedIsTrue
  <1>2. CASE Orphaned
    <2>1. watch.step = "append" /\ registered
      BY <1>2 DEF Orphaned, RegistryIsTrue, NoWatch
    <2>2. head <= Len(history)
      <3>1. Len(history) - head \in {0, 1}
        BY <2>1 DEF TypeOK
      <3>2. QED
        BY <1>0, <3>1
    <2>3. detached'.seq = head /\ detached'.outcome = watch.outcome
          /\ UNCHANGED <<history, child, registered, head>>
      BY <1>2 DEF Orphaned
    <2>4. detached'.outcome \in child'[Awaited].outcomes
      BY <2>1, <2>3 DEF WatchIsTrue
    <2>5. detached'.seq <= Len(history') /\ detached'.seq <= head'
      BY <1>0, <2>2, <2>3
    <2>6. detached'.seq = Len(history') => Open(history')
      BY <2>1, <2>3 DEF WatchIsTrue, InStep
    <2>7. QED
      BY <2>4, <2>5, <2>6 DEF DetachedIsTrue
  <1>3. CASE UNCHANGED detached /\ detached # NoAppend
    <2>0. /\ detached.outcome \in child[Awaited].outcomes /\ detached.seq <= Len(history)
          /\ registered => detached.seq <= head
          /\ detached.seq = Len(history) => Open(history)
      BY <1>3 DEF DetachedIsTrue
    <2>1. detached'.outcome \in child'[Awaited].outcomes
      BY <1>0, <1>3, <2>0
    <2>2. UNCHANGED history \/ Len(history') = Len(history) + 1
      <3>1. CASE Appends
        BY <1>0, <3>1, AppendFacts DEF Appends
      <3>2. QED
        BY <3>1
    <2>3. detached'.seq <= Len(history')
      BY <1>0, <1>3, <2>0, <2>2
    <2>4. detached'.seq = Len(history') => Open(history')
      BY <1>0, <1>3, <2>0, <2>2
    <2>5. ~DetachedLands
      BY <1>3 DEF DetachedLands
    <2>6. ASSUME registered' PROVE detached'.seq <= head'
      <3>1. CASE UNCHANGED <<history, head>> /\ registered
        BY <1>3, <2>0, <3>1
      <3>2. CASE Records /\ registered
        <4>1. head' = head + 1
          BY <3>2 DEF Records
        <4>2. QED
          BY <1>0, <1>3, <2>0, <3>2, <4>1
      <3>3. CASE Resumes
        BY <1>3, <2>3, <3>3 DEF Resumes
      <3>4. WatchAppends => registered
        BY DEF WatchAppends, RegistryIsTrue, NoWatch
      <3>5. ~Fall
        BY <2>6 DEF Fall
      <3>6. QED
        BY <2>5, <2>6, <3>1, <3>2, <3>3, <3>4, <3>5, HeadStep
    <2>7. QED
      BY <2>1, <2>3, <2>4, <2>6 DEF DetachedIsTrue
  <1>4. QED
    BY <1>1, <1>2, <1>3, DetachedCases

-----------------------------------------------------------------------------
(***************************************************************************)
(* The answers and the parked await.                                       *)
(***************************************************************************)
LEMMA EndsHaveOutcomes ==
    ASSUME NEW h \in Seq(Events), NEW i \in DOMAIN h, h[i].type = "ChildTerminal"
    PROVE  h[i].of \in Outcome
  <1>1. h[i] \in Events
    BY HistoryFacts
  <1>2. QED
    BY <1>1 DEF Events, Event, ChildTerminal, Ends

LEMMA GotStep ==
    ASSUME [Next]_vars
    PROVE  UNCHANGED got \/ await_child
  BY StepCases
     DEF spawn_child, SpawnStarts, arm_scope, resume_with_timeout, ProcessExits,
         handle_process_exit, Kill, ScopeWakes, wait_for_child_terminal,
         record_parent_child_terminal, WatchAppends, WatchWakes, DetachedLands, run_spawn_retry,
         SweepChecks, SweepReads, SweepStarts, SweepDone, Boot, ChildSucceeds,
         ScopeFires, ChildEnds, ChildContinues, Cancel, Reopen, Crash, vars

LEMMA AnswersStep ==
    ASSUME TypeOK, Sound(history), ScopeIsTrue, AnswersAreTrue, UNCHANGED history \/ Appends,
           [Next]_vars
    PROVE  AnswersAreTrue'
  <1>0. history \in Seq(Events) /\ got \in [{"first", "second"} -> SUBSET (Outcome \cup {"timeout"})]
    BY DEF TypeOK
  <1>1. /\ FirstReturned(history) => FirstReturned(history')
        /\ FirstTimedOut(history) => FirstTimedOut(history')
        /\ \A x : EndIs(history, x) => EndIs(history', x)
    BY <1>0, HistoryKeeps
  <1>2. CASE UNCHANGED got
    BY <1>1, <1>2 DEF AnswersAreTrue
  <1>3. CASE await_child
    <2>0. UNCHANGED history
      BY <1>3 DEF await_child
    <2>1. CASE AwaitTimesOut
      <3>1. got' = [got EXCEPT !["first"] = @ \cup {"timeout"}] /\ FirstTimedOut(history)
        BY <2>1 DEF AwaitTimesOut, Answer
      <3>2. got'["first"] = got["first"] \cup {"timeout"} /\ got'["second"] = got["second"]
        BY <1>0, <3>1
      <3>3. QED
        BY <2>0, <3>1, <3>2 DEF AnswersAreTrue
    <2>2. CASE AwaitReturns
      <3>1. PICK i \in DOMAIN history : history[i].type = "ChildTerminal" /\ Answer(history[i].of)
        BY <2>2 DEF AwaitReturns
      <3>2. history[i].of \in Outcome /\ EndIs(history, history[i].of)
        BY <1>0, <3>1, EndsHaveOutcomes DEF EndIs
      <3>3. history[i].of # "timeout"
        BY <3>2 DEF Outcome
      <3>4. CASE Call = "first"
        <4>1. FirstReturned(history)
          BY <2>2, <3>4 DEF AwaitReturns
        <4>2. got' = [got EXCEPT !["first"] = @ \cup {history[i].of}]
          BY <3>1, <3>4 DEF Answer
        <4>3. got'["first"] = got["first"] \cup {history[i].of} /\ got'["second"] = got["second"]
          BY <1>0, <4>2
        <4>4. QED
          BY <2>0, <3>2, <3>3, <4>1, <4>3 DEF AnswersAreTrue
      <3>5. CASE Call # "first"
        <4>1. Call = "second"
          BY <3>5 DEF Call
        <4>2. got' = [got EXCEPT !["second"] = @ \cup {history[i].of}]
          BY <3>1, <4>1 DEF Answer
        <4>3. got'["second"] = got["second"] \cup {history[i].of} /\ got'["first"] = got["first"]
          BY <1>0, <4>2
        <4>4. QED
          BY <2>0, <3>2, <4>3 DEF AnswersAreTrue
      <3>6. QED
        BY <3>4, <3>5
    <2>3. CASE AwaitParks
      BY <1>2, <2>3 DEF AwaitParks
    <2>4. QED
      BY <1>3, <2>1, <2>2, <2>3, AwaitCases
  <1>4. QED
    BY <1>2, <1>3, GotStep

\* Only an await parks, and its mark stays until it is taken.
LEMMA ParkedFrame ==
    ASSUME TypeOK, Sound(history), ScopeIsTrue, [Next]_vars, Parked', ~await_child
    PROVE  UNCHANGED pc
  <1>1. ASSUME NEW c \in Child, spawn_child(c) \/ SpawnStarts(c)
        PROVE  pc' \in {"start_a", "start_b", "spawn_b", "arm"}
    BY <1>1 DEF spawn_child, SpawnStarts, StartLabel, AfterSpawn, Child
  <1>2. arm_scope \/ resume_with_timeout \/ ProcessExits => ~Parked'
    BY DEF arm_scope, resume_with_timeout, ProcessExits, Parked
  <1>3. handle_process_exit => UNCHANGED pc \/ ~Parked'
    BY DEF handle_process_exit, Parked
  <1>4. Kill \/ SweepStarts \/ Boot \/ Reopen \/ Crash => UNCHANGED pc \/ ~Parked'
    BY DEF Kill, SweepStarts, start_workflow, Fall, Boot, Reopen, Crash, Parked, process
  <1>5. (\E c \in Child : run_spawn_retry(c)) \/ ScopeWakes \/ wait_for_child_terminal
        \/ record_parent_child_terminal \/ WatchAppends \/ WatchWakes \/ DetachedLands
        \/ SweepChecks \/ SweepReads \/ SweepDone \/ ChildSucceeds \/ ScopeFires \/ ChildEnds
        \/ ChildContinues \/ Cancel \/ UNCHANGED vars => UNCHANGED pc
    BY DEF run_spawn_retry, ScopeWakes, wait_for_child_terminal, record_parent_child_terminal,
           WatchAppends, WatchWakes, DetachedLands, SweepChecks, SweepReads, SweepDone, ChildSucceeds,
           ScopeFires, ChildEnds, ChildContinues, Cancel, vars, process
  <1>6. pc' \in {"start_a", "start_b", "spawn_b", "arm"} => ~Parked'
    BY DEF Parked
  <1>7. QED
    BY <1>1, <1>2, <1>3, <1>4, <1>5, <1>6, StepCases

LEMMA MailFrame ==
    ASSUME [Next]_vars, Parked', ~await_child
    PROVE  UNCHANGED mail \/ mail' = (mail \/ Alive)
  BY StepCases
     DEF Parked, spawn_child, SpawnStarts, arm_scope, resume_with_timeout, ProcessExits,
         handle_process_exit, Kill, ScopeWakes, wait_for_child_terminal,
         record_parent_child_terminal, WatchAppends, WatchWakes, DetachedLands, run_spawn_retry,
         SweepChecks, SweepReads, SweepStarts, start_workflow, Fall, SweepDone, Boot, ChildSucceeds,
         ScopeFires, ChildEnds, ChildContinues, Cancel, Reopen, Crash, vars, process

LEMMA WakingFrame ==
    ASSUME [Next]_vars, Parked'
    PROVE  UNCHANGED waking \/ waking' = TRUE \/ ScopeWakes
  BY StepCases
     DEF Parked, spawn_child, SpawnStarts, arm_scope, await_child, resume_with_timeout, ProcessExits,
         handle_process_exit, Kill, wait_for_child_terminal,
         record_parent_child_terminal, WatchAppends, WatchWakes, DetachedLands, run_spawn_retry,
         SweepChecks, SweepReads, SweepStarts, start_workflow, Fall, SweepDone, Boot, ChildSucceeds,
         ScopeFires, ChildEnds, ChildContinues, Cancel, Reopen, Crash, vars, process

LEMMA WatchFrame ==
    ASSUME TypeOK, [Next]_vars, Parked', UNCHANGED pc, ~await_child, watch # NoWatch,
           ~run_has_terminal_history
    PROVE  watch' # NoWatch \/ WatchWakes
  <1>1. CASE UNCHANGED watch
    BY <1>1
  <1>2. CASE record_parent_child_terminal \/ WatchAppends \/ wait_for_child_terminal
    BY <1>2 DEF record_parent_child_terminal, WatchAppends, wait_for_child_terminal, NoWatch, TypeOK
  <1>3. CASE Kill
    BY <1>3 DEF Kill, Alive, Parked
  <1>4. CASE SweepStarts
    BY <1>4 DEF SweepStarts, start_workflow, Fall, Parked
  <1>5. ~ProcessExits /\ ~Crash
    BY DEF ProcessExits, Crash, Fall, Parked
  <1>6. UNCHANGED watch \/ record_parent_child_terminal \/ WatchAppends \/ wait_for_child_terminal
        \/ Kill \/ SweepStarts \/ ProcessExits \/ Crash \/ WatchWakes
    BY StepCases
       DEF spawn_child, SpawnStarts, arm_scope, resume_with_timeout,
           handle_process_exit, ScopeWakes, DetachedLands, run_spawn_retry,
           SweepChecks, SweepReads, SweepDone, Boot, ChildSucceeds,
           ScopeFires, ChildEnds, ChildContinues, Cancel, Reopen, vars
  <1>7. QED
    BY <1>1, <1>2, <1>3, <1>4, <1>5, <1>6

LEMMA ParkedStep ==
    ASSUME TypeOK, Sound(history), ScopeIsTrue, RegistryIsTrue, ParkedIsWatched,
           UNCHANGED history \/ Appends, [Next]_vars
    PROVE  ParkedIsWatched'
  <1> SUFFICES ASSUME up', Parked', ~run_has_terminal_history'
               PROVE  mail' \/ waking' \/ watch' # NoWatch
    BY DEF ParkedIsWatched
  <1>0. {mail, waking, up} \subseteq BOOLEAN /\ history \in Seq(Events)
    BY DEF TypeOK
  <1>1. CASE await_child
    <2>1. AwaitParks
      BY <1>1, AwaitCases DEF AwaitTimesOut, AwaitReturns, Answer, Parked
    <2>2. QED
      BY <2>1 DEF AwaitParks, NoWatch
  <1>2. CASE ~await_child
    <2>1. UNCHANGED pc /\ Parked
      BY <1>2, ParkedFrame DEF Parked
    <2>2. up /\ Alive
      BY <2>1 DEF RegistryIsTrue, Parked, Alive
    <2>3. ~run_has_terminal_history
      <3>1. CASE UNCHANGED history
        BY <3>1 DEF run_has_terminal_history
      <3>2. CASE Appends
        <4>1. PICK e \in Events : MayAppend(e) /\ Adds(history, e, history')
          BY <3>2 DEF Appends
        <4>2. EndOf(history') = IF e.type \in Turns THEN e.type ELSE EndOf(history)
          BY <1>0, <4>1, AppendTurns
        <4>3. e.type # "Reopened"
          BY <2>1, <4>1 DEF MayAppend, Parked
        <4>4. EndOf(history') = "Reopened"
          BY DEF run_has_terminal_history
        <4>5. QED
          BY <4>2, <4>3, <4>4 DEF run_has_terminal_history
      <3>3. QED
        BY <3>1, <3>2
    <2>4. mail \/ waking \/ watch # NoWatch
      BY <2>1, <2>2, <2>3 DEF ParkedIsWatched
    <2>5. CASE mail
      BY <1>0, <1>2, <2>2, <2>5, MailFrame
    <2>6. CASE waking
      <3>1. CASE ScopeWakes
        BY <2>2, <3>1 DEF ScopeWakes
      <3>2. QED
        BY <2>6, <3>1, WakingFrame
    <2>7. CASE watch # NoWatch
      <3>1. CASE WatchWakes
        BY <2>2, <3>1 DEF WatchWakes
      <3>2. QED
        BY <1>2, <2>1, <2>3, <2>7, <3>1, WatchFrame
    <2>8. QED
      BY <2>4, <2>5, <2>6, <2>7
  <1>3. QED
    BY <1>1, <1>2

-----------------------------------------------------------------------------
(***************************************************************************)
(* The starts.                                                             *)
(***************************************************************************)
LEMMA TailFacts ==
    ASSUME NEW s \in Seq(Child), s # <<>>, Distinct(s)
    PROVE  /\ Tail(s) \in Seq(Child) /\ Len(Tail(s)) = Len(s) - 1 /\ Len(s) \in Nat
           /\ Distinct(Tail(s))
           /\ Head(s) \in Child /\ Head(s) \in Members(s)
           /\ Members(Tail(s)) \subseteq Members(s) \ {Head(s)}
  <1>1. /\ Tail(s) \in Seq(Child) /\ Len(Tail(s)) = Len(s) - 1 /\ Len(s) \in Nat \ {0}
        /\ DOMAIN s = 1 .. Len(s) /\ DOMAIN Tail(s) = 1 .. Len(s) - 1
        /\ \A i \in 1 .. Len(s) - 1 : Tail(s)[i] = s[i + 1]
        /\ Head(s) = s[1] /\ s[1] \in Child
    OBVIOUS
  <1>2. ASSUME NEW i \in DOMAIN Tail(s) PROVE i + 1 \in DOMAIN s /\ Tail(s)[i] = s[i + 1] /\ i + 1 # 1
    BY <1>1
  <1>3. 1 \in DOMAIN s
    BY <1>1
  <1>4. Members(Tail(s)) \subseteq Members(s) \ {Head(s)}
    <2>1. ASSUME NEW i \in DOMAIN Tail(s) PROVE Tail(s)[i] \in Members(s) \ {Head(s)}
      BY <1>1, <1>2, <1>3 DEF Members, Distinct
    <2>2. QED
      BY <2>1 DEF Members
  <1>5. ASSUME NEW i \in DOMAIN Tail(s), NEW j \in DOMAIN Tail(s), Tail(s)[i] = Tail(s)[j] PROVE i = j
    <2>1. i + 1 = j + 1
      BY <1>2, <1>5 DEF Distinct
    <2>2. i \in Int /\ j \in Int
      BY <1>1
    <2>3. QED
      BY <2>1, <2>2
  <1>6. QED
    BY <1>1, <1>3, <1>4, <1>5 DEF Members, Distinct

LEMMA UnfinishedFacts ==
    /\ Unfinished \in Seq(Child) /\ Len(Unfinished) <= 2
    /\ Distinct(Unfinished)
    /\ \A c \in Members(Unfinished) : SpawnRecorded(c)
  <1> DEFINE A == SpawnRecorded("a") /\ ~TerminalRecorded
             B == SpawnRecorded("b")
  <1>1. CASE A /\ B
    <2>1. Unfinished = <<"a">> \o <<"b">>
      BY <1>1 DEF Unfinished
    <2> DEFINE s == <<"a">> \o <<"b">>
    <2>2. <<"a">> \in Seq(Child) /\ <<"b">> \in Seq(Child)
      BY DEF Child
    <2>3. s \in Seq(Child) /\ Len(s) = 2
      BY <2>2, ConcatProperties
    <2>4. s[1] = "a" /\ s[2] = "b"
      BY <2>2, ConcatProperties
    <2> HIDE DEF s
    <2>5. DOMAIN s = 1 .. 2
      BY <2>3
    <2>6. QED
      BY <1>1, <2>1, <2>3, <2>4, <2>5 DEF s, Members, Distinct
  <1>2. CASE A /\ ~B
    <2>1. Unfinished = <<"a">>
      BY <1>2 DEF Unfinished
    <2>2. QED
      BY <1>2, <2>1 DEF Members, Distinct, Child
  <1>3. CASE ~A /\ B
    <2>1. Unfinished = <<>> \o <<"b">>
      BY <1>3 DEF Unfinished
    <2>2. <<"b">> \in Seq(Child)
      BY DEF Child
    <2>3. Unfinished = <<"b">>
      BY <2>1, <2>2, ConcatEmptySeq
    <2>4. QED
      BY <1>3, <2>3 DEF Members, Distinct, Child
  <1>4. CASE ~A /\ ~B
    <2>1. Unfinished = <<>>
      BY <1>4 DEF Unfinished
    <2>2. QED
      BY <2>1 DEF Members, Distinct, Child
  <1>5. QED
    BY <1>1, <1>2, <1>3, <1>4

\* A start, or none.
StartOf(c) ==
    \/ UNCHANGED child
    \/ /\ child'[c].starts = child[c].starts + 1
       /\ child'[c].seq = child[c].seq + 1
       /\ \A d \in Child \ {c} : child'[d] = child[d]

LEMMA StartIsOne ==
    ASSUME TypeOK, NEW c \in Child,
           child' = child \/ child' = WithStart(c, TRUE) \/ child' = WithStart(c, FALSE)
    PROVE  StartOf(c)
  <1>1. child \in [Child -> ChildRecord]
    BY DEF TypeOK, ChildRecord
  <1>2. ASSUME NEW lives \in BOOLEAN, child' = WithStart(c, lives) PROVE StartOf(c)
    <2>1. \A d \in Child \ {c} : child'[d] = child[d]
      BY <1>1, <1>2 DEF WithStart
    <2>2. child'[c].starts = child[c].starts + 1 /\ child'[c].seq = child[c].seq + 1
      BY <1>1, <1>2 DEF WithStart, ChildRecord
    <2>3. QED
      BY <2>1, <2>2 DEF StartOf
  <1>3. QED
    BY <1>2 DEF StartOf

\* No step but a start counts one.
Ages(c) == child'[c].starts = child[c].starts /\ child[c].seq <= child'[c].seq

LEMMA SweepContinuedAges ==
    ASSUME NEW children \in [Child -> ChildRecord], NEW d \in Child
    PROVE  /\ SweepContinued(children)[d].starts = children[d].starts
           /\ children[d].seq <= SweepContinued(children)[d].seq
  <1>1. children[d] \in ChildRecord
    OBVIOUS
  <1>2. SweepContinued(children)[d] \in {children[d], [children[d] EXCEPT !.seq = children[d].seq + 1,
                                                         !.state = "running", !.live = TRUE]}
    BY DEF SweepContinued
  <1>3. children[d].seq \in Nat
    BY <1>1 DEF ChildRecord
  <1>4. CASE SweepContinued(children)[d] = children[d]
    BY <1>3, <1>4
  <1>5. CASE SweepContinued(children)[d] = [children[d] EXCEPT !.seq = children[d].seq + 1,
                                                         !.state = "running", !.live = TRUE]
    <2>1. SweepContinued(children)[d].starts = children[d].starts
          /\ SweepContinued(children)[d].seq = children[d].seq + 1
      BY <1>1, <1>5 DEF ChildRecord
    <2>2. QED
      BY <1>3, <2>1
  <1>6. QED
    BY <1>2, <1>4, <1>5

LEMMA AgeStep ==
    ASSUME TypeOK, NEW d \in Child,
           SweepDone \/ Boot \/ ChildEnds \/ ChildContinues \/ ChildSucceeds \/ UNCHANGED child
    PROVE  Ages(d)
  <1>0. child \in [Child -> ChildRecord] /\ Awaited \in Child /\ child[d].seq \in Nat
    BY DEF TypeOK, ChildRecord, Awaited, Child
  <1>1. CASE UNCHANGED child
    BY <1>0, <1>1 DEF Ages
  <1>2. CASE SweepDone
    BY <1>0, <1>1, <1>2, SweepContinuedAges DEF SweepDone, Ages
  <1>3. CASE Boot
    <2> DEFINE respawned == [c \in Child |-> [child[c] EXCEPT !.live = child[c].state = "running"]]
    <2>1. child' = respawned \/ child' = SweepContinued(respawned)
      BY <1>3 DEF Boot
    <2>2. respawned \in [Child -> ChildRecord]
      BY <1>0 DEF ChildRecord
    <2>3. respawned[d].starts = child[d].starts /\ respawned[d].seq = child[d].seq
      BY <1>0 DEF ChildRecord
    <2> HIDE DEF respawned
    <2>4. QED
      BY <1>0, <2>1, <2>2, <2>3, SweepContinuedAges DEF Ages
  <1>4. CASE ChildEnds
    <2>1. PICK outcome \in Outcome :
              child' = [child EXCEPT ![Awaited].seq = @ + 1, ![Awaited].state = outcome,
                                     ![Awaited].live = FALSE,
                                     ![Awaited].outcomes = @ \cup {outcome}]
      BY <1>4 DEF ChildEnds
    <2>2. CASE d # Awaited
      BY <1>0, <2>1, <2>2 DEF Ages
    <2>3. CASE d = Awaited
      <3>1. child'[d].starts = child[d].starts /\ child'[d].seq = child[d].seq + 1
        BY <1>0, <2>1, <2>3 DEF ChildRecord
      <3>2. QED
        BY <1>0, <3>1 DEF Ages
    <2>4. QED
      BY <2>2, <2>3
  <1>5. CASE ChildContinues \/ ChildSucceeds
    <2>1. PICK state \in {"continued", "running"} :
              child' = [child EXCEPT ![Awaited].seq = @ + 1, ![Awaited].state = state]
      BY <1>5 DEF ChildContinues, ChildSucceeds
    <2>2. CASE d # Awaited
      BY <1>0, <2>1, <2>2 DEF Ages
    <2>3. CASE d = Awaited
      <3>1. child'[d].starts = child[d].starts /\ child'[d].seq = child[d].seq + 1
        BY <1>0, <2>1, <2>3 DEF ChildRecord
      <3>2. QED
        BY <1>0, <3>1 DEF Ages
    <2>4. QED
      BY <2>2, <2>3
  <1>6. QED
    BY <1>1, <1>2, <1>3, <1>4, <1>5

-----------------------------------------------------------------------------
(***************************************************************************)
(* The types.                                                              *)
(***************************************************************************)
LEMMA RecordFacts ==
    ASSUME NEW r \in ChildRecord
    PROVE  /\ r.seq \in Nat /\ r.seq + 1 \in Nat /\ r.outcomes \subseteq Outcome
           /\ \A n \in Nat, x \in Outcome \cup {"absent", "running", "continued"}, b \in BOOLEAN,
                o \in SUBSET Outcome :
                  /\ [r EXCEPT !.seq = n, !.state = x, !.live = b] \in ChildRecord
                  /\ [r EXCEPT !.seq = n, !.state = x] \in ChildRecord
                  /\ [r EXCEPT !.seq = n, !.state = x, !.live = b, !.outcomes = o] \in ChildRecord
  <1>1. r.seq \in Nat /\ r.seq + 1 \in Nat /\ r.outcomes \subseteq Outcome
    BY DEF ChildRecord
  <1>2. QED
    BY <1>1 DEF ChildRecord

LEMMA ChildType ==
    ASSUME TypeOK, [Next]_vars
    PROVE  child' \in [Child -> ChildRecord]
  <1>0. child \in [Child -> ChildRecord] /\ Awaited \in Child
    BY DEF TypeOK, ChildRecord, Awaited, Child
  <1>1. ASSUME NEW c \in Child, NEW lives \in BOOLEAN, child' = WithStart(c, lives)
        PROVE  child' \in [Child -> ChildRecord]
    BY <1>0, <1>1 DEF WithStart, ChildRecord
  <1>2. ASSUME NEW c \in Child, SpawnStarts(c) \/ run_spawn_retry(c)
        PROVE  child' \in [Child -> ChildRecord]
    <2>1. child' = child \/ child' = WithStart(c, TRUE) \/ child' = WithStart(c, FALSE)
      BY <1>2 DEF SpawnStarts, run_spawn_retry, start_workflow
    <2>2. QED
      BY <1>0, <1>1, <2>1
  <1>3. CASE SweepStarts
    <2>1. Head(sweep.left) \in Child
      BY <1>3 DEF SweepStarts, TypeOK
    <2>2. child' = child \/ child' = WithStart(Head(sweep.left), TRUE)
          \/ child' = WithStart(Head(sweep.left), FALSE)
      BY <1>3 DEF SweepStarts, start_workflow
    <2>3. QED
      BY <1>0, <1>1, <2>1, <2>2
  <1>4. ASSUME NEW children \in [Child -> ChildRecord]
        PROVE  SweepContinued(children) \in [Child -> ChildRecord]
    <2>1. ASSUME NEW c \in Child
          PROVE  [children[c] EXCEPT !.seq = @ + 1, !.state = "running", !.live = TRUE] \in ChildRecord
      <3>1. children[c] \in ChildRecord
        BY <1>4
      <3>2. QED
        BY <3>1, RecordFacts
    <2>2. QED
      BY <1>4, <2>1 DEF SweepContinued
  <1>5. CASE SweepDone
    BY <1>0, <1>4, <1>5 DEF SweepDone
  <1>6. CASE Boot
    <2> DEFINE respawned == [c \in Child |-> [child[c] EXCEPT !.live = child[c].state = "running"]]
    <2>1. child' = respawned \/ child' = SweepContinued(respawned)
      BY <1>6 DEF Boot
    <2>2. respawned \in [Child -> ChildRecord]
      BY <1>0 DEF ChildRecord
    <2> HIDE DEF respawned
    <2>3. QED
      BY <1>4, <2>1, <2>2
  <1>7. CASE ChildEnds
    <2>1. PICK outcome \in Outcome :
              child' = [child EXCEPT ![Awaited].seq = @ + 1, ![Awaited].state = outcome,
                                     ![Awaited].live = FALSE,
                                     ![Awaited].outcomes = @ \cup {outcome}]
      BY <1>7 DEF ChildEnds
    <2> DEFINE r == child[Awaited]
    <2>2. r \in ChildRecord /\ r.outcomes \cup {outcome} \in SUBSET Outcome
      BY <1>0, RecordFacts
    <2>3. child' = [child EXCEPT ![Awaited] = [r EXCEPT !.seq = r.seq + 1, !.state = outcome,
                                     !.live = FALSE, !.outcomes = r.outcomes \cup {outcome}]]
      BY <1>0, <2>1 DEF ChildRecord
    <2>4. [r EXCEPT !.seq = r.seq + 1, !.state = outcome, !.live = FALSE,
                    !.outcomes = r.outcomes \cup {outcome}] \in ChildRecord
      BY <2>2, RecordFacts
    <2>5. QED
      BY <1>0, <2>3, <2>4
  <1>8. CASE ChildContinues \/ ChildSucceeds
    <2>1. PICK state \in {"continued", "running"} :
              child' = [child EXCEPT ![Awaited].seq = @ + 1, ![Awaited].state = state]
      BY <1>8 DEF ChildContinues, ChildSucceeds
    <2> DEFINE r == child[Awaited]
    <2>2. r \in ChildRecord
      BY <1>0
    <2>3. child' = [child EXCEPT ![Awaited] = [r EXCEPT !.seq = r.seq + 1, !.state = state]]
      BY <1>0, <2>1 DEF ChildRecord
    <2>4. [r EXCEPT !.seq = r.seq + 1, !.state = state] \in ChildRecord
      BY <2>2, RecordFacts
    <2>5. QED
      BY <1>0, <2>3, <2>4
  <1>9. ASSUME NEW c \in Child, spawn_child(c) PROVE UNCHANGED child
    BY <1>9 DEF spawn_child
  <1>10. arm_scope \/ await_child \/ resume_with_timeout \/ ProcessExits \/ handle_process_exit \/ Kill
         \/ ScopeWakes \/ wait_for_child_terminal \/ record_parent_child_terminal \/ WatchAppends
         \/ WatchWakes \/ DetachedLands \/ SweepChecks \/ SweepReads \/ ScopeFires \/ Cancel \/ Reopen
         \/ Crash \/ UNCHANGED vars => UNCHANGED child
    BY DEF arm_scope, await_child, resume_with_timeout, ProcessExits, handle_process_exit, Kill,
           ScopeWakes, wait_for_child_terminal, record_parent_child_terminal, WatchAppends,
           WatchWakes, DetachedLands, SweepChecks, SweepReads, ScopeFires, Cancel, Reopen, Crash, vars
  <1>11. QED
    BY <1>0, <1>2, <1>3, <1>5, <1>6, <1>7, <1>8, <1>9, <1>10, StepCases

LEMMA FlagTypes ==
    ASSUME TypeOK, [Next]_vars
    PROVE  {up, registered, mail, killing, waking}' \subseteq BOOLEAN
  <1>0. {up, registered, mail, killing, waking} \subseteq BOOLEAN
    BY DEF TypeOK
  <1>1. up' \in BOOLEAN /\ registered' \in BOOLEAN
    BY <1>0, StepCases
       DEF spawn_child, SpawnStarts, arm_scope, await_child, resume_with_timeout, ProcessExits,
           handle_process_exit, Kill, ScopeWakes, wait_for_child_terminal,
           record_parent_child_terminal, WatchAppends, WatchWakes, DetachedLands, run_spawn_retry,
           SweepChecks, SweepReads, SweepStarts, start_workflow, Fall, SweepDone, Boot, ChildSucceeds,
           ScopeFires, ChildEnds, ChildContinues, Cancel, Reopen, Crash, vars, process
  <1>2. killing' \in BOOLEAN /\ waking' \in BOOLEAN
    BY <1>0, StepCases
       DEF spawn_child, SpawnStarts, arm_scope, await_child, resume_with_timeout, ProcessExits,
           handle_process_exit, Kill, ScopeWakes, wait_for_child_terminal,
           record_parent_child_terminal, WatchAppends, WatchWakes, DetachedLands, run_spawn_retry,
           SweepChecks, SweepReads, SweepStarts, start_workflow, Fall, SweepDone, Boot, ChildSucceeds,
           ScopeFires, ChildEnds, ChildContinues, Cancel, Reopen, Crash, vars, process
  <1>3. mail' \in BOOLEAN
    <2>1. UNCHANGED mail \/ mail' = FALSE \/ mail' = (mail \/ Alive)
      BY StepCases
         DEF spawn_child, SpawnStarts, arm_scope, await_child, resume_with_timeout, ProcessExits,
           handle_process_exit, Kill, ScopeWakes, wait_for_child_terminal,
           record_parent_child_terminal, WatchAppends, WatchWakes, DetachedLands, run_spawn_retry,
           SweepChecks, SweepReads, SweepStarts, start_workflow, Fall, SweepDone, Boot, ChildSucceeds,
           ScopeFires, ChildEnds, ChildContinues, Cancel, Reopen, Crash, vars, process
    <2>2. QED
      BY <1>0, <2>1
  <1>4. QED
    BY <1>1, <1>2, <1>3

LEMMA HeadType ==
    ASSUME TypeOK, Sound(history), RegistryIsTrue, DetachedIsTrue, UNCHANGED history \/ Appends, [Next]_vars
    PROVE  head' \in Nat /\ (registered' => Len(history') - head' \in {0, 1})
  <1>0. /\ history \in Seq(Events) /\ Len(history) \in Nat /\ Len(history') \in Nat /\ head \in Nat
        /\ registered => Len(history) - head \in {0, 1}
    BY HistoryKeeps DEF TypeOK
  <1>1. CASE UNCHANGED <<history, head>> /\ (registered' => registered)
    BY <1>0, <1>1
  <1>2. CASE Records
    <2>1. head = Len(history) /\ head' = head + 1 /\ Len(history') = Len(history) + 1
      BY <1>2 DEF Records
    <2>2. QED
      BY <1>0, <2>1
  <1>3. CASE Resumes
    <2>1. head' = Len(history')
      BY <1>3 DEF Resumes
    <2>2. QED
      BY <1>0, <2>1
  <1>4. CASE Fall
    BY <1>4 DEF Fall
  <1>5. CASE DetachedLands
    <2>1. UNCHANGED <<registered, head>> /\ detached # NoAppend
      BY <1>5 DEF DetachedLands
    <2>2. CASE UNCHANGED history
      BY <1>0, <2>1, <2>2
    <2>3. CASE ~UNCHANGED history
      <3>1. detached.seq = Len(history) /\ history' = Append(history, ChildTerminal(detached.outcome))
        BY <1>5, <2>3 DEF DetachedLands
      <3>2. Len(history') = Len(history) + 1
        BY <1>0, <3>1
      <3>3. registered => Len(history) <= head
        BY <2>1, <3>1 DEF DetachedIsTrue
      <3>4. QED
        BY <1>0, <2>1, <3>2, <3>3
    <2>4. QED
      BY <2>2, <2>3
  <1>6. QED
    BY <1>1, <1>2, <1>3, <1>4, <1>5, HeadStep

LEMMA ProcessTypes ==
    ASSUME TypeOK, Sound(history), ScopeIsTrue, RegistryIsTrue, [Next]_vars
    PROVE  /\ pc' \in Running \cup {"none", "exited", "gone", "wedged"}
           /\ scope' \in {"fired", "cancelled", "live"}
  <1>0. pc \in Running \cup {"none", "exited", "gone", "wedged"} /\ scope \in {"fired", "cancelled", "live"}
    BY DEF TypeOK, Running
  <1>1. pc' \in Running \cup {"none", "exited", "gone", "wedged"}
    BY <1>0, ProcessStep DEF Moves, Leaves, Fall, Starts, Running
  <1>2. UNCHANGED scope \/ scope' \in {"fired", "cancelled", "live"}
    BY StepCases
       DEF spawn_child, SpawnStarts, arm_scope, await_child, resume_with_timeout, ProcessExits,
           handle_process_exit, Kill, ScopeWakes, wait_for_child_terminal,
           record_parent_child_terminal, WatchAppends, WatchWakes, DetachedLands, run_spawn_retry,
           SweepChecks, SweepReads, SweepStarts, start_workflow, Fall, SweepDone, Boot, ChildSucceeds,
           ScopeFires, ChildEnds, ChildContinues, Cancel, Reopen, Crash, vars, process
  <1>3. QED
    BY <1>0, <1>1, <1>2

WatchRecord == [step : {"off", "poll", "record", "append", "wake"}, outcome : Outcome \cup {"none"}]
AppendRecord == [outcome : Outcome \cup {"none"}, seq : Nat]

LEMMA WatcherTypes ==
    ASSUME TypeOK, Sound(history), ScopeIsTrue, [Next]_vars
    PROVE  watch' \in WatchRecord /\ detached' \in AppendRecord
  <1>0. watch \in WatchRecord /\ detached \in AppendRecord /\ head \in Nat
    BY DEF TypeOK, WatchRecord, AppendRecord
  <1>1. NoWatch \in WatchRecord /\ [NoWatch EXCEPT !.step = "poll"] \in WatchRecord
    BY DEF NoWatch, WatchRecord
  <1>2. wait_for_child_terminal => watch' \in WatchRecord
    BY DEF wait_for_child_terminal, WatchRecord
  <1>3. record_parent_child_terminal => watch' \in WatchRecord
    BY <1>0, <1>1 DEF record_parent_child_terminal, WatchRecord
  <1>4. WatchAppends => watch' \in WatchRecord
    BY <1>0 DEF WatchAppends, WatchRecord
  <1>5. AwaitParks => watch' \in WatchRecord
    BY <1>0, <1>1 DEF AwaitParks
  <1>6. watch' \in WatchRecord
    BY <1>0, <1>1, <1>2, <1>3, <1>4, <1>5, WatchCases DEF AbortWatch
  <1>7. Orphaned => detached' \in AppendRecord
    BY <1>0 DEF Orphaned, WatchRecord, AppendRecord
  <1>8. NoAppend \in AppendRecord
    BY DEF NoAppend, AppendRecord
  <1>9. QED
    BY <1>0, <1>6, <1>7, <1>8, DetachedCases

LEMMA TaskTypes ==
    ASSUME TypeOK, StartsAreTrue, [Next]_vars
    PROVE  /\ retry' \in [Child -> Tasks]
           /\ sweep' \in [left : Seq(Child), task : Tasks, boot : BOOLEAN]
           /\ Len(sweep'.left) <= 2
  <1>0. /\ retry \in [Child -> Tasks] /\ sweep \in [left : Seq(Child), task : Tasks, boot : BOOLEAN]
        /\ Len(sweep.left) <= 2 /\ Distinct(sweep.left)
        /\ \A c \in Child : child[c].seq \in Nat
    BY DEF TypeOK, StartsAreTrue
  <1>1. /\ \A n \in Nat, step \in {"off", "check", "read", "start"} : Task(step, n) \in Tasks
        /\ Off \in Tasks
    BY DEF Task, Tasks, Off
  <1>2. [c \in Child |-> Off] \in [Child -> Tasks]
    BY <1>1
  <1>3. NoSweep \in [left : Seq(Child), task : Tasks, boot : BOOLEAN] /\ Len(NoSweep.left) <= 2
    BY <1>1 DEF NoSweep
  <1>4. ASSUME NEW b \in BOOLEAN
        PROVE  Sweep(b) \in [left : Seq(Child), task : Tasks, boot : BOOLEAN] /\ Len(Sweep(b).left) <= 2
    BY <1>1, <1>4, UnfinishedFacts DEF Sweep
  <1>5. ASSUME SweepNext, sweep.left # <<>>
        PROVE  sweep' \in [left : Seq(Child), task : Tasks, boot : BOOLEAN] /\ Len(sweep'.left) <= 2
    <2>1. sweep' = [sweep EXCEPT !.left = Tail(sweep.left), !.task = Task("check", 0)]
      BY <1>5 DEF SweepNext
    <2>2. Tail(sweep.left) \in Seq(Child) /\ Len(Tail(sweep.left)) = Len(sweep.left) - 1
          /\ Len(sweep.left) \in Nat
      BY <1>0, <1>5, TailFacts
    <2>3. Len(Tail(sweep.left)) <= 2
      BY <1>0, <2>2
    <2>4. Task("check", 0) \in Tasks
      BY <1>1
    <2>5. QED
      BY <1>0, <2>1, <2>2, <2>3, <2>4
  <1>6. ASSUME NEW n \in Nat, NEW step \in {"off", "check", "read", "start"}, SweepTo(step, n)
        PROVE  sweep' \in [left : Seq(Child), task : Tasks, boot : BOOLEAN] /\ Len(sweep'.left) <= 2
    BY <1>0, <1>1, <1>6 DEF SweepTo
  <1>7. sweep' \in [left : Seq(Child), task : Tasks, boot : BOOLEAN] /\ Len(sweep'.left) <= 2
    <2>1. CASE UNCHANGED sweep
      BY <1>0, <2>1
    <2>2. CASE Boot
      BY <1>0, <1>4, <2>2 DEF Boot
    <2>3. CASE Reopen
      BY <1>4, <2>3 DEF Reopen
    <2>4. CASE SweepChecks
      BY <1>5, <1>6, <2>4 DEF SweepChecks
    <2>5. CASE SweepReads
      <3>1. Head(sweep.left) \in Child /\ SweepTo("start", child[Head(sweep.left)].seq)
        BY <1>0, <2>5 DEF SweepReads
      <3>2. QED
        BY <1>0, <1>6, <3>1
    <2>6. CASE SweepStarts
      BY <1>3, <1>5, <2>6 DEF SweepStarts, start_workflow, Fall
    <2>7. CASE SweepDone \/ Crash
      BY <1>3, <2>7 DEF SweepDone, Crash, Fall
    <2>8. UNCHANGED sweep \/ Boot \/ Reopen \/ SweepChecks \/ SweepReads \/ SweepStarts \/ SweepDone \/ Crash
      BY StepCases
         DEF spawn_child, SpawnStarts, arm_scope, await_child, resume_with_timeout, ProcessExits,
             handle_process_exit, Kill, ScopeWakes, wait_for_child_terminal,
             record_parent_child_terminal, WatchAppends, WatchWakes, DetachedLands, run_spawn_retry,
             ChildSucceeds, ScopeFires, ChildEnds, ChildContinues, Cancel, vars
    <2>9. QED
      BY <2>1, <2>2, <2>3, <2>4, <2>5, <2>6, <2>7, <2>8
  <1>8. retry' \in [Child -> Tasks]
    <2>1. ASSUME NEW c \in Child, NEW t \in Tasks, retry' = [retry EXCEPT ![c] = t]
          PROVE  retry' \in [Child -> Tasks]
      BY <1>0, <2>1
    <2>2. ASSUME NEW c \in Child, SpawnStarts(c) PROVE retry' \in [Child -> Tasks]
      <3>1. UNCHANGED retry \/ retry' = [retry EXCEPT ![c] = Task("check", 0)]
        BY <2>2 DEF SpawnStarts, start_workflow
      <3>2. QED
        BY <1>0, <1>1, <2>1, <3>1
    <2>3. ASSUME NEW c \in Child, run_spawn_retry(c) PROVE retry' \in [Child -> Tasks]
      <3>1. \E n \in {0, child[c].seq}, step \in {"off", "check", "read", "start"} :
                retry' = [retry EXCEPT ![c] = Task(step, n)]
        BY <2>3 DEF run_spawn_retry, start_workflow
      <3>2. QED
        BY <1>0, <1>1, <2>1, <3>1
    <2>4. CASE SweepStarts \/ Crash
      BY <1>0, <1>2, <2>4 DEF SweepStarts, start_workflow, Fall, Crash
    <2>5. UNCHANGED retry \/ (\E c \in Child : SpawnStarts(c)) \/ (\E c \in Child : run_spawn_retry(c))
          \/ SweepStarts \/ Crash
      BY StepCases
         DEF spawn_child, arm_scope, await_child, resume_with_timeout, ProcessExits,
             handle_process_exit, Kill, ScopeWakes, wait_for_child_terminal, SweepChecks, SweepReads,
             SweepDone, Boot, Reopen,
             record_parent_child_terminal, WatchAppends, WatchWakes, DetachedLands,
             ChildSucceeds, ScopeFires, ChildEnds, ChildContinues, Cancel, vars
    <2>6. QED
      BY <1>0, <2>2, <2>3, <2>4, <2>5
  <1>9. QED
    BY <1>7, <1>8

LEMMA GotType ==
    ASSUME TypeOK, Sound(history), ScopeIsTrue, [Next]_vars
    PROVE  got' \in [{"first", "second"} -> SUBSET (Outcome \cup {"timeout"})]
  <1>0. got \in [{"first", "second"} -> SUBSET (Outcome \cup {"timeout"})] /\ history \in Seq(Events)
        /\ Call \in {"first", "second"}
    BY DEF TypeOK, Call
  <1>1. ASSUME NEW x \in Outcome \cup {"timeout"}, Answer(x)
        PROVE  got' \in [{"first", "second"} -> SUBSET (Outcome \cup {"timeout"})]
    BY <1>0, <1>1 DEF Answer
  <1>2. CASE await_child
    BY <1>0, <1>1, <1>2, AwaitCases, EndsHaveOutcomes DEF AwaitTimesOut, AwaitReturns, AwaitParks
  <1>3. QED
    BY <1>0, <1>2, GotStep

LEMMA BoundTypes ==
    ASSUME TypeOK, [Next]_vars
    PROVE  /\ crashes' \in 0 .. MaxCrashes /\ failures' \in 0 .. MaxFailures
           /\ continues' \in 0 .. MaxContinues /\ reopens' \in 0 .. MaxReopens
  <1>0. /\ crashes \in 0 .. MaxCrashes /\ failures \in 0 .. MaxFailures
        /\ continues \in 0 .. MaxContinues /\ reopens \in 0 .. MaxReopens
    BY DEF TypeOK
  <1>1. UNCHANGED crashes \/ (crashes < MaxCrashes /\ crashes' = crashes + 1)
    BY StepCases
       DEF spawn_child, SpawnStarts, arm_scope, await_child, resume_with_timeout, ProcessExits,
           handle_process_exit, Kill, ScopeWakes, wait_for_child_terminal,
           record_parent_child_terminal, WatchAppends, WatchWakes, DetachedLands, run_spawn_retry,
           SweepChecks, SweepReads, SweepStarts, SweepDone, Boot, ChildSucceeds,
           ScopeFires, ChildEnds, ChildContinues, Cancel, Reopen, Crash, vars, bounds
  <1>2. UNCHANGED failures \/ (failures < MaxFailures /\ failures' = failures + 1)
    BY StepCases
       DEF spawn_child, SpawnStarts, arm_scope, await_child, resume_with_timeout, ProcessExits,
           handle_process_exit, Kill, ScopeWakes, wait_for_child_terminal,
           record_parent_child_terminal, WatchAppends, WatchWakes, DetachedLands, run_spawn_retry,
           SweepChecks, SweepReads, SweepStarts, start_workflow, SweepDone, Boot, ChildSucceeds,
           ScopeFires, ChildEnds, ChildContinues, Cancel, Reopen, Crash, vars, bounds
  <1>3. UNCHANGED continues \/ (continues < MaxContinues /\ continues' = continues + 1)
    BY StepCases
       DEF spawn_child, SpawnStarts, arm_scope, await_child, resume_with_timeout, ProcessExits,
           handle_process_exit, Kill, ScopeWakes, wait_for_child_terminal,
           record_parent_child_terminal, WatchAppends, WatchWakes, DetachedLands, run_spawn_retry,
           SweepChecks, SweepReads, SweepStarts, SweepDone, Boot, ChildSucceeds,
           ScopeFires, ChildEnds, ChildContinues, Cancel, Reopen, Crash, vars, bounds
  <1>4. UNCHANGED reopens \/ (reopens < MaxReopens /\ reopens' = reopens + 1)
    BY StepCases
       DEF spawn_child, SpawnStarts, arm_scope, await_child, resume_with_timeout, ProcessExits,
           handle_process_exit, Kill, ScopeWakes, wait_for_child_terminal,
           record_parent_child_terminal, WatchAppends, WatchWakes, DetachedLands, run_spawn_retry,
           SweepChecks, SweepReads, SweepStarts, SweepDone, Boot, ChildSucceeds,
           ScopeFires, ChildEnds, ChildContinues, Cancel, Reopen, Crash, vars, bounds
  <1>5. QED
    BY <1>0, <1>1, <1>2, <1>3, <1>4

LEMMA TypeStep ==
    ASSUME IInv, UNCHANGED history \/ Appends, [Next]_vars
    PROVE  TypeOK'
  <1>0. /\ TypeOK /\ Sound(history) /\ ScopeIsTrue /\ RegistryIsTrue /\ DetachedIsTrue
        /\ StartsAreTrue /\ history \in Seq(Events)
    BY DEF IInv, TypeOK
  <1>1. history' \in Seq(Events)
    BY <1>0, HistoryKeeps
  <1>2. child' \in [Child -> ChildRecord]
    BY <1>0, ChildType
  <1>3. {up, registered, mail, killing, waking}' \subseteq BOOLEAN
    BY <1>0, FlagTypes
  <1>4. head' \in Nat /\ (registered' => Len(history') - head' \in {0, 1})
    BY <1>0, HeadType
  <1>5. /\ pc' \in Running \cup {"none", "exited", "gone", "wedged"}
        /\ scope' \in {"fired", "cancelled", "live"}
    BY <1>0, ProcessTypes
  <1>6. watch' \in WatchRecord /\ detached' \in AppendRecord
    BY <1>0, WatcherTypes
  <1>7. /\ retry' \in [Child -> Tasks]
        /\ sweep' \in [left : Seq(Child), task : Tasks, boot : BOOLEAN]
        /\ Len(sweep'.left) <= 2
    BY <1>0, TaskTypes
  <1>8. got' \in [{"first", "second"} -> SUBSET (Outcome \cup {"timeout"})]
    BY <1>0, GotType
  <1>9. /\ crashes' \in 0 .. MaxCrashes /\ failures' \in 0 .. MaxFailures
        /\ continues' \in 0 .. MaxContinues /\ reopens' \in 0 .. MaxReopens
    BY <1>0, BoundTypes
  <1>10. pc' \in {"none", "spawn_a", "start_a", "spawn_b", "start_b", "arm", "first",
                  "first_parked", "settle", "second", "second_parked", "exit", "exited",
                  "gone", "wedged"}
    BY <1>5 DEF Running
  <1>11. QED
    BY <1>1, <1>2, <1>3, <1>4, <1>5, <1>6, <1>7, <1>8, <1>9, <1>10
       DEF TypeOK, ChildRecord, WatchRecord, AppendRecord

-----------------------------------------------------------------------------
(***************************************************************************)
(* No step lets two starters at one child.                                 *)
(***************************************************************************)
Counts(c) == child[c].starts \in Nat /\ child[c].seq \in Nat

LEMMA CountFacts ==
    ASSUME TypeOK
    PROVE  /\ \A c \in Child : Counts(c)
           /\ retry \in [Child -> Tasks] /\ sweep.left \in Seq(Child) /\ reopens \in Nat
           /\ sweep \in [left : Seq(Child), task : Tasks, boot : BOOLEAN]
  BY DEF TypeOK, Counts

LEMMA LabelFacts ==
    /\ \A c \in Child : StartLabel[c] \in {"start_a", "start_b"}
    /\ \A c, d \in Child : StartLabel[c] = StartLabel[d] => c = d
    /\ \A c \in Child : AfterSpawn[c] \notin {"start_a", "start_b"}
  BY DEF StartLabel, AfterSpawn, Child

\* A step that touches neither the tasks nor the count of starts.
LEMMA QuietStep ==
    ASSUME TypeOK, TypeOK', StartsAreTrue, \A c : SpawnRecorded(c) => SpawnRecorded(c)',
           \A c \in Child : Ages(c), UNCHANGED <<retry, sweep, reopens>>,
           UNCHANGED pc \/ pc' \notin {"start_a", "start_b"}
    PROVE  StartsAreTrue'
  <1>1. Distinct(sweep'.left)
    BY DEF StartsAreTrue
  <1>2. ASSUME NEW c \in Child PROVE Claims(c)' /\ (reopens' = 0 => Exclusive(c)')
    <2>0. Claims(c) /\ (reopens = 0 => Exclusive(c)) /\ Counts(c) /\ Ages(c)
      BY CountFacts DEF StartsAreTrue
    <2>1. child'[c].starts <= child'[c].seq
      <3>1. child'[c].seq \in Nat
        BY DEF TypeOK
      <3>2. QED
        BY <2>0, <3>1 DEF Claims, Counts, Ages
    <2>2. pc' = StartLabel[c] => pc = StartLabel[c]
      BY LabelFacts
    <2>3. Claims(c)'
      BY <2>0, <2>1, <2>2 DEF Claims, Swept
    <2>4. reopens = 0 => Exclusive(c)'
      BY <2>0 DEF Exclusive, Ages, Swept, Sweeping
    <2>5. QED
      BY <2>3, <2>4
  <1>3. QED
    BY <1>1, <1>2 DEF StartsAreTrue

\* The tasks are gone, or new behind an unfinished list.
LEMMA ClearedStep ==
    ASSUME TypeOK, TypeOK', StartsAreTrue, \A c : SpawnRecorded(c) => SpawnRecorded(c)',
           \A c \in Child : child'[c].starts <= child'[c].seq,
           reopens = 0 => \A c \in Child : child'[c].starts <= 1,
           \A c \in Child : retry'[c] \in {Off, retry[c]},
           UNCHANGED reopens, pc' \notin {"start_a", "start_b"},
           \/ sweep'.left = <<>> /\ \A c \in Child : retry'[c] = Off
           \/ /\ sweep'.left = Unfinished /\ sweep'.task.step = "check"
              /\ \A c \in Child : retry'[c] = Off
    PROVE  StartsAreTrue'
  <1>0. Off.step = "off"
    BY DEF Off, Task
  <1>1. Distinct(sweep'.left) /\ \A c \in Members(sweep'.left) : SpawnRecorded(c)
    BY UnfinishedFacts DEF Distinct, Members
  <1>2. ASSUME NEW c \in Child PROVE Claims(c)' /\ (reopens' = 0 => Exclusive(c)')
    <2>1. pc' # StartLabel[c]
      BY LabelFacts
    <2>2. retry'[c] = Off
      OBVIOUS
    <2>3. ~Sweeping(c)'
      BY DEF Sweeping
    <2>4. Claims(c)'
      BY <1>1, <2>1, <2>2 DEF Claims, Swept
    <2>5. reopens' = 0 => Exclusive(c)'
      BY <1>0, <2>2, <2>3 DEF Exclusive
    <2>6. QED
      BY <2>4, <2>5
  <1>3. QED
    BY <1>1, <1>2 DEF StartsAreTrue

\* The process records a child and only then has it to start.
LEMMA SpawnStep ==
    ASSUME TypeOK, TypeOK', StartsAreTrue, \A d : SpawnRecorded(d) => SpawnRecorded(d)',
           NEW s \in Child, spawn_child(s)
    PROVE  StartsAreTrue'
  <1>0. UNCHANGED <<child, retry, sweep, reopens>>
    BY DEF spawn_child, bounds
  <1>1. \A c \in Child : Ages(c)
    BY <1>0, AgeStep
  <1>2. CASE SpawnRecorded(s)
    <2>1. pc' \notin {"start_a", "start_b"}
      BY <1>2, LabelFacts DEF spawn_child
    <2>2. QED
      BY <1>0, <1>1, <2>1, QuietStep
  <1>3. CASE ~SpawnRecorded(s)
    <2>1. pc' = StartLabel[s] /\ history' = Append(history, Event("ChildStarted", s))
      BY <1>3 DEF spawn_child, Record
    <2>2. SpawnRecorded(s)'
      <3>1. history \in Seq(Events) /\ Event("ChildStarted", s) \in Events
        BY EventFacts DEF TypeOK
      <3>2. Len(history) + 1 \in DOMAIN history' /\ history'[Len(history) + 1] = Event("ChildStarted", s)
        BY <2>1, <3>1, AppendFacts DEF Adds
      <3>3. QED
        BY <3>2 DEF SpawnRecorded
    <2>3. retry[s] = Off /\ s \notin Swept
      BY <1>3 DEF StartsAreTrue, Claims
    <2>4. ASSUME NEW c \in Child PROVE Claims(c)' /\ (reopens' = 0 => Exclusive(c)')
      <3>0. Claims(c) /\ (reopens = 0 => Exclusive(c))
        BY DEF StartsAreTrue
      <3>1. pc' = StartLabel[c] => c = s
        BY <2>1, LabelFacts
      <3>2. Claims(c)'
        BY <1>0, <2>2, <2>3, <3>0, <3>1 DEF Claims, Swept
      <3>3. reopens = 0 => Exclusive(c)'
        BY <1>0, <3>0 DEF Exclusive, Swept, Sweeping
      <3>4. QED
        BY <1>0, <3>2, <3>3
    <2>5. QED
      BY <1>0, <2>4 DEF StartsAreTrue
  <1>4. QED
    BY <1>2, <1>3

\* A start by one who may: it counts once.
LEMMA StartCounts ==
    ASSUME TypeOK, NEW s \in Child, StartOf(s), NEW c \in Child, child[c].starts <= child[c].seq
    PROVE  /\ child'[c].starts <= child'[c].seq
           /\ c # s => child'[c] = child[c]
           /\ child[c].starts = 0 => child'[c].starts <= 1
  <1>0. Counts(c)
    BY CountFacts
  <1>1. CASE UNCHANGED child
    BY <1>0, <1>1 DEF Counts
  <1>2. CASE c # s
    BY <1>0, <1>2 DEF StartOf, Counts
  <1>3. CASE /\ c = s
             /\ child'[c].starts = child[c].starts + 1 /\ child'[c].seq = child[c].seq + 1
    BY <1>0, <1>3 DEF Counts
  <1>4. QED
    BY <1>1, <1>2, <1>3 DEF StartOf

LEMMA SpawnStartsStep ==
    ASSUME TypeOK, TypeOK', StartsAreTrue, \A d : SpawnRecorded(d) => SpawnRecorded(d)',
           NEW s \in Child, SpawnStarts(s)
    PROVE  StartsAreTrue'
  <1>0. /\ pc = StartLabel[s] /\ pc' \notin {"start_a", "start_b"} /\ UNCHANGED <<sweep, reopens>>
        /\ retry' = retry \/ retry' = [retry EXCEPT ![s] = Task("check", 0)]
    BY LabelFacts DEF SpawnStarts, start_workflow, At
  <1>1. StartOf(s)
    <2>1. child' = child \/ child' = WithStart(s, TRUE) \/ child' = WithStart(s, FALSE)
      BY DEF SpawnStarts, start_workflow
    <2>2. QED
      BY <2>1, StartIsOne
  <1>2. UNCHANGED child \/ child[s].seq = 0
    BY DEF SpawnStarts, start_workflow
  <1>3. SpawnRecorded(s) /\ retry[s] = Off /\ s \notin Swept
    BY <1>0 DEF StartsAreTrue, Claims
  <1>4. retry'[s].step \notin {"read", "start"} /\ \A c \in Child \ {s} : retry'[c] = retry[c]
    BY <1>0, <1>3, CountFacts DEF Off, Task
  <1>5. ASSUME NEW c \in Child PROVE Claims(c)' /\ (reopens' = 0 => Exclusive(c)')
    <2>0. Claims(c) /\ (reopens = 0 => Exclusive(c)) /\ Counts(c)
      BY CountFacts DEF StartsAreTrue
    <2>1. child[c].starts <= child[c].seq
      BY <2>0 DEF Claims
    <2>2. child'[c].starts <= child'[c].seq /\ (c # s => child'[c] = child[c])
          /\ (child[c].starts = 0 => child'[c].starts <= 1)
      BY <1>1, <2>1, StartCounts
    <2>3. pc' # StartLabel[c]
      BY <1>0, LabelFacts
    <2>4. CASE c # s
      <3>1. child'[c] = child[c] /\ retry'[c] = retry[c]
        BY <1>4, <2>2, <2>4
      <3>2. Claims(c)'
        BY <1>0, <2>0, <2>2, <2>3, <3>1 DEF Claims, Swept
      <3>3. reopens = 0 => Exclusive(c)'
        BY <1>0, <2>0, <3>1 DEF Exclusive, Swept, Sweeping
      <3>4. QED
        BY <1>0, <3>2, <3>3
    <2>5. CASE c = s
      <3>1. c \notin Swept /\ c \notin Swept'
        BY <1>0, <1>3, <2>5 DEF Swept
      <3>2. Claims(c)'
        BY <1>3, <2>2, <2>3, <2>5, <3>1 DEF Claims
      <3>3. ~Sweeping(c)'
        <4>1. sweep.left # <<>> => Head(sweep.left) \in Swept
          BY CountFacts, TailFacts DEF Swept, StartsAreTrue
        <4>2. QED
          BY <1>0, <3>1, <4>1 DEF Sweeping
      <3>4. reopens = 0 => child'[c].starts <= 1
        <4>1. CASE UNCHANGED child
          BY <2>0, <4>1 DEF Exclusive
        <4>2. CASE child[s].seq = 0
          <5>1. child[c].starts = 0
            BY <2>0, <2>1, <2>5, <4>2 DEF Counts
          <5>2. QED
            BY <2>2, <5>1
        <4>3. QED
          BY <1>2, <4>1, <4>2
      <3>5. reopens = 0 => Exclusive(c)'
        BY <1>4, <2>5, <3>1, <3>3, <3>4 DEF Exclusive
      <3>6. QED
        BY <1>0, <3>2, <3>5
    <2>6. QED
      BY <2>4, <2>5
  <1>6. QED
    BY <1>0, <1>5 DEF StartsAreTrue

LEMMA RetryStep ==
    ASSUME TypeOK, TypeOK', StartsAreTrue, \A d : SpawnRecorded(d) => SpawnRecorded(d)',
           NEW s \in Child, run_spawn_retry(s)
    PROVE  StartsAreTrue'
  <1>0. /\ UNCHANGED <<sweep, reopens, pc>>
        /\ \E t \in {"off", "check", "read", "start"}, n \in {0, child[s].seq} :
              retry' = [retry EXCEPT ![s] = Task(t, n)]
        /\ retry[s].step \in {"check", "read", "start"}
    BY DEF run_spawn_retry, start_workflow, process
  <1>1. StartOf(s)
    <2>1. child' = child \/ child' = WithStart(s, TRUE) \/ child' = WithStart(s, FALSE)
      BY DEF run_spawn_retry, start_workflow
    <2>2. QED
      BY <2>1, StartIsOne
  <1>2. UNCHANGED child \/ retry[s].step = "start"
    BY DEF run_spawn_retry, start_workflow
  <1>3. retry[s] # Off
    BY <1>0 DEF Off, Task
  <1>4. SpawnRecorded(s) /\ pc # StartLabel[s] /\ (reopens = 0 => s \notin Swept)
    BY <1>3 DEF StartsAreTrue, Claims, Exclusive
  <1>5. \A c \in Child \ {s} : retry'[c] = retry[c]
    BY <1>0, CountFacts
  <1>6. retry'[s].step \in {"read", "start"} => UNCHANGED child /\ (child[s].starts = 0 \/ retry[s].step = "read")
    <2>1. \/ /\ retry[s].step = "check"
             /\ IF child[s].starts > 0 THEN retry' = [retry EXCEPT ![s] = Task("off", 0)]
                ELSE retry' = [retry EXCEPT ![s] = Task("read", 0)]
             /\ UNCHANGED child
          \/ retry[s].step = "read" /\ UNCHANGED child
          \/ /\ retry[s].step = "start"
             /\ \/ retry' = [retry EXCEPT ![s] = Task("off", 0)]
                \/ retry' = [retry EXCEPT ![s] = Task("check", 0)]
      BY DEF run_spawn_retry, start_workflow
    <2>2. ~(child[s].starts > 0) => child[s].starts = 0
      BY CountFacts DEF Counts
    <2>3. \A t : retry' = [retry EXCEPT ![s] = Task(t, 0)] => retry'[s].step = t
      BY CountFacts DEF Task
    <2>4. QED
      BY <2>1, <2>2, <2>3
  <1>7. ASSUME NEW c \in Child PROVE Claims(c)' /\ (reopens' = 0 => Exclusive(c)')
    <2>0. Claims(c) /\ (reopens = 0 => Exclusive(c)) /\ Counts(c)
      BY CountFacts DEF StartsAreTrue
    <2>1. child[c].starts <= child[c].seq
      BY <2>0 DEF Claims
    <2>2. child'[c].starts <= child'[c].seq /\ (c # s => child'[c] = child[c])
          /\ (child[c].starts = 0 => child'[c].starts <= 1)
      BY <1>1, <2>1, StartCounts
    <2>3. CASE c # s
      <3>1. child'[c] = child[c] /\ retry'[c] = retry[c]
        BY <1>5, <2>2, <2>3
      <3>2. Claims(c)'
        BY <1>0, <2>0, <2>2, <3>1 DEF Claims, Swept
      <3>3. reopens = 0 => Exclusive(c)'
        BY <1>0, <2>0, <3>1 DEF Exclusive, Swept, Sweeping
      <3>4. QED
        BY <1>0, <3>2, <3>3
    <2>4. CASE c = s
      <3>1. Claims(c)'
        BY <1>0, <1>4, <2>2, <2>4 DEF Claims
      <3>2. ASSUME reopens = 0 PROVE Exclusive(c)'
        <4>1. c \notin Swept /\ c \notin Swept'
          BY <1>0, <1>4, <2>4, <3>2 DEF Swept
        <4>2. ~Sweeping(c)'
          <5>1. sweep.left # <<>> => Head(sweep.left) \in Swept
            BY CountFacts, TailFacts DEF Swept, StartsAreTrue
          <5>2. QED
            BY <1>0, <4>1, <5>1 DEF Sweeping
        <4>3. child'[c].starts <= 1
          <5>1. CASE UNCHANGED child
            BY <2>0, <3>2, <5>1 DEF Exclusive
          <5>2. CASE retry[s].step = "start"
            BY <2>0, <2>2, <2>4, <3>2, <5>2 DEF Exclusive
          <5>3. QED
            BY <1>2, <5>1, <5>2
        <4>4. retry'[c].step \in {"read", "start"} => child'[c].starts = 0
          BY <1>6, <2>0, <2>4, <3>2 DEF Exclusive
        <4>5. QED
          BY <4>1, <4>2, <4>3, <4>4 DEF Exclusive
      <3>3. QED
        BY <1>0, <3>1, <3>2
    <2>5. QED
      BY <2>3, <2>4
  <1>8. QED
    BY <1>0, <1>7 DEF StartsAreTrue

\* The sweep moves on without a start.
LEMMA SweepMoves ==
    ASSUME TypeOK, TypeOK', StartsAreTrue, \A d : SpawnRecorded(d) => SpawnRecorded(d)',
           \A d \in Child : retry'[d] = retry[d], UNCHANGED <<reopens, pc>>,
           Distinct(sweep'.left), Swept' \subseteq Swept,
           \A d \in Child : child'[d].starts <= child'[d].seq,
           reopens = 0 => \A d \in Child : /\ child'[d].starts <= 1
                                           /\ retry[d] # Off => child'[d].starts = child[d].starts
                                           /\ Sweeping(d)' => child'[d].starts = 0
    PROVE  StartsAreTrue'
  <1>1. ASSUME NEW c \in Child PROVE Claims(c)' /\ (reopens' = 0 => Exclusive(c)')
    <2>0. Claims(c) /\ (reopens = 0 => Exclusive(c))
      BY DEF StartsAreTrue
    <2>1. Claims(c)'
      BY <2>0 DEF Claims
    <2>2. ASSUME reopens = 0 PROVE Exclusive(c)'
      <3>1. retry[c].step \in {"read", "start"} => retry[c] # Off
        BY DEF Off, Task
      <3>2. QED
        BY <2>0, <2>2, <3>1 DEF Exclusive
    <2>3. QED
      BY <2>1, <2>2
  <1>2. QED
    BY <1>1 DEF StartsAreTrue

LEMMA SweepStep ==
    ASSUME TypeOK, TypeOK', StartsAreTrue, \A d : SpawnRecorded(d) => SpawnRecorded(d)',
           SweepChecks \/ SweepReads
    PROVE  StartsAreTrue'
  <1> DEFINE first == Head(sweep.left)
  <1>0. /\ UNCHANGED <<child, retry, reopens, pc>> /\ sweep.left # <<>>
        /\ \A d \in Child : Claims(d) /\ (reopens = 0 => Exclusive(d)) /\ Counts(d)
        /\ sweep \in [left : Seq(Child), task : Tasks, boot : BOOLEAN] /\ Distinct(sweep.left)
    BY CountFacts DEF SweepChecks, SweepReads, StartsAreTrue, bounds, process
  <1>1. ASSUME sweep'.left = sweep.left, reopens = 0 => child[first].starts = 0
        PROVE  StartsAreTrue'
    <2>1. Distinct(sweep'.left) /\ Swept' = Swept
      BY <1>0, <1>1 DEF Swept
    <2>2. \A d \in Child : child'[d].starts <= child'[d].seq
      BY <1>0 DEF Claims
    <2>3. reopens = 0 => \A d \in Child : child'[d].starts <= 1 /\ (Sweeping(d)' => child'[d].starts = 0)
      BY <1>0, <1>1 DEF Exclusive, Sweeping
    <2>4. QED
      BY <1>0, <2>1, <2>2, <2>3, SweepMoves
  <1>2. CASE SweepNext
    <2>1. sweep'.left = Tail(sweep.left) /\ sweep'.task.step = "check"
      BY <1>0, <1>2 DEF SweepNext, Task
    <2>2. Distinct(sweep'.left) /\ Swept' \subseteq Swept
      BY <1>0, <2>1, TailFacts DEF Swept
    <2>3. \A d \in Child : child'[d].starts <= child'[d].seq
      BY <1>0 DEF Claims
    <2>4. reopens = 0 => \A d \in Child : child'[d].starts <= 1 /\ ~Sweeping(d)'
      BY <1>0, <2>1 DEF Exclusive, Sweeping
    <2>5. QED
      BY <1>0, <2>2, <2>3, <2>4, SweepMoves
  <1>3. CASE SweepReads
    <2>1. sweep'.left = sweep.left /\ sweep.task.step = "read"
      BY <1>0, <1>3 DEF SweepReads, SweepTo
    <2>2. first \in Child
      BY <1>0
    <2>3. reopens = 0 => child[first].starts = 0
      BY <1>0, <2>1, <2>2 DEF Exclusive, Sweeping
    <2>4. QED
      BY <1>1, <2>1, <2>3
  <1>4. CASE SweepChecks /\ ~SweepNext
    <2>1. SweepTo("read", 0) /\ ~(child[first].starts > 0)
      BY <1>4 DEF SweepChecks
    <2>2. sweep'.left = sweep.left
      BY <1>0, <2>1 DEF SweepTo
    <2>3. first \in Child
      BY <1>0
    <2>4. child[first].starts = 0
      BY <1>0, <2>1, <2>3 DEF Counts
    <2>5. QED
      BY <1>1, <2>2, <2>4
  <1>5. QED
    BY <1>2, <1>3, <1>4

LEMMA SweepStartsStep ==
    ASSUME TypeOK, TypeOK', StartsAreTrue, \A d : SpawnRecorded(d) => SpawnRecorded(d)', SweepStarts
    PROVE  StartsAreTrue'
  <1> DEFINE first == Head(sweep.left)
  <1>0. /\ UNCHANGED reopens /\ sweep.left # <<>> /\ sweep.task.step = "start"
        /\ \A d \in Child : Claims(d) /\ (reopens = 0 => Exclusive(d)) /\ Counts(d)
        /\ sweep \in [left : Seq(Child), task : Tasks, boot : BOOLEAN] /\ Distinct(sweep.left)
    BY CountFacts DEF SweepStarts, StartsAreTrue
  <1>1. first \in Child /\ first \in Swept
    BY <1>0, TailFacts DEF Swept
  <1>2. StartOf(first)
    <2>1. child' = child \/ child' = WithStart(first, TRUE) \/ child' = WithStart(first, FALSE)
      BY DEF SweepStarts, start_workflow
    <2>2. QED
      BY <1>1, <2>1, StartIsOne
  <1>3. reopens = 0 => child[first].starts = 0 /\ retry[first] = Off
    BY <1>0, <1>1 DEF Exclusive, Sweeping
  <1>4. ASSUME NEW d \in Child
        PROVE  /\ child'[d].starts <= child'[d].seq
               /\ reopens = 0 => child'[d].starts <= 1
               /\ reopens = 0 /\ retry[d] # Off => child'[d].starts = child[d].starts
    <2>1. child[d].starts <= child[d].seq /\ (reopens = 0 => child[d].starts <= 1)
      BY <1>0 DEF Claims, Exclusive
    <2>2. child'[d].starts <= child'[d].seq /\ (d # first => child'[d] = child[d])
          /\ (child[d].starts = 0 => child'[d].starts <= 1)
      BY <1>1, <1>2, <2>1, StartCounts
    <2>3. QED
      BY <1>3, <2>1, <2>2
  <1>5. CASE Fall
    <2>1. \A c \in Child : retry'[c] = Off
      BY <1>5 DEF Fall
    <2>2. sweep'.left = <<>> /\ pc' \notin {"start_a", "start_b"}
      BY <1>5 DEF Fall, NoSweep
    <2>3. QED
      BY <1>0, <1>4, <2>1, <2>2, ClearedStep
  <1>6. CASE SweepNext /\ UNCHANGED <<pc, retry>>
    <2>1. sweep'.left = Tail(sweep.left) /\ sweep'.task.step = "check"
      BY <1>0, <1>6 DEF SweepNext, Task
    <2>2. Distinct(sweep'.left) /\ Swept' \subseteq Swept
      BY <1>0, <2>1, TailFacts DEF Swept
    <2>3. \A d \in Child : ~Sweeping(d)'
      BY <2>1 DEF Sweeping
    <2>4. QED
      BY <1>0, <1>4, <1>6, <2>2, <2>3, SweepMoves
  <1>7. CASE sweep' = NoSweep /\ UNCHANGED <<pc, retry>>
    <2>1. sweep'.left = <<>>
      BY <1>7 DEF NoSweep
    <2>2. Distinct(sweep'.left) /\ Swept' \subseteq Swept /\ \A d \in Child : ~Sweeping(d)'
      BY <2>1 DEF Distinct, Swept, Members, Sweeping
    <2>3. QED
      BY <1>0, <1>4, <1>7, <2>2, SweepMoves
  <1>8. QED
    BY <1>5, <1>6, <1>7 DEF SweepStarts, start_workflow, process

LEMMA SweepEndsStep ==
    ASSUME TypeOK, TypeOK', StartsAreTrue, \A d : SpawnRecorded(d) => SpawnRecorded(d)', SweepDone
    PROVE  StartsAreTrue'
  <1>0. /\ UNCHANGED <<reopens, retry, pc>> /\ sweep' = NoSweep
        /\ \A d \in Child : Claims(d) /\ (reopens = 0 => Exclusive(d)) /\ Counts(d)
        /\ \A d \in Child : Ages(d)
    BY CountFacts, AgeStep DEF SweepDone, StartsAreTrue, bounds, process
  <1>1. Distinct(sweep'.left) /\ Swept' \subseteq Swept /\ \A d \in Child : ~Sweeping(d)'
    BY <1>0 DEF NoSweep, Distinct, Swept, Members, Sweeping
  <1>2. ASSUME NEW d \in Child PROVE child'[d].starts <= child'[d].seq
    <2>1. child'[d].seq \in Nat
      BY DEF TypeOK
    <2>2. QED
      BY <1>0, <2>1 DEF Claims, Counts, Ages
  <1>3. reopens = 0 => \A d \in Child : child'[d].starts <= 1 /\ child'[d].starts = child[d].starts
    BY <1>0 DEF Exclusive, Ages
  <1>4. QED
    BY <1>0, <1>1, <1>2, <1>3, SweepMoves

LEMMA BootStep ==
    ASSUME TypeOK, TypeOK', StartsAreTrue, RegistryIsTrue,
           \A d : SpawnRecorded(d) => SpawnRecorded(d)', Boot \/ Crash
    PROVE  StartsAreTrue'
  <1>0. /\ UNCHANGED reopens
        /\ \A d \in Child : Claims(d) /\ (reopens = 0 => Exclusive(d)) /\ Counts(d)
        /\ \A d \in Child : Ages(d)
    BY CountFacts, AgeStep DEF Boot, Crash, StartsAreTrue, bounds
  <1>1. ASSUME NEW d \in Child PROVE child'[d].starts <= child'[d].seq
    <2>1. child'[d].seq \in Nat
      BY DEF TypeOK
    <2>2. QED
      BY <1>0, <2>1 DEF Claims, Counts, Ages
  <1>2. reopens = 0 => \A d \in Child : child'[d].starts <= 1
    BY <1>0 DEF Exclusive, Ages
  <1>3. CASE Crash
    <2>1. \A c \in Child : retry'[c] = Off
      BY <1>3 DEF Crash, Fall
    <2>2. sweep'.left = <<>> /\ pc' \notin {"start_a", "start_b"}
      BY <1>3 DEF Crash, Fall, NoSweep
    <2>3. QED
      BY <1>0, <1>1, <1>2, <2>1, <2>2, ClearedStep
  <1>4. CASE Boot
    <2>1. ~up /\ UNCHANGED retry
      BY <1>4 DEF Boot
    <2>2. pc = "none" /\ sweep = NoSweep /\ retry = [c \in Child |-> Off]
      BY <2>1 DEF RegistryIsTrue
    <2>3. \A c \in Child : retry'[c] = Off
      BY <2>1, <2>2
    <2>4. pc' \notin {"start_a", "start_b"}
      BY <1>4, <2>2 DEF Boot
    <2>5. \/ sweep'.left = <<>>
          \/ sweep'.left = Unfinished /\ sweep'.task.step = "check"
      BY <1>4, <2>2 DEF Boot, Sweep, NoSweep, Task
    <2>6. QED
      BY <1>0, <1>1, <1>2, <2>3, <2>4, <2>5, ClearedStep
  <1>5. QED
    BY <1>3, <1>4

LEMMA ReopenStep ==
    ASSUME TypeOK, TypeOK', StartsAreTrue, \A d : SpawnRecorded(d) => SpawnRecorded(d)', Reopen
    PROVE  StartsAreTrue'
  <1>0. /\ reopens' = reopens + 1 /\ reopens \in Nat /\ sweep'.left = Unfinished
        /\ pc' = "spawn_a" /\ UNCHANGED <<child, retry>>
    BY CountFacts DEF Reopen, Sweep
  <1>1. Distinct(sweep'.left) /\ \A c \in Members(sweep'.left) : SpawnRecorded(c)
    BY <1>0, UnfinishedFacts
  <1>2. ASSUME NEW c \in Child PROVE Claims(c)'
    <2>1. Claims(c) /\ pc' # StartLabel[c]
      BY <1>0, LabelFacts DEF StartsAreTrue
    <2>2. QED
      BY <1>0, <1>1, <2>1 DEF Claims, Swept
  <1>3. reopens' # 0
    BY <1>0
  <1>4. QED
    BY <1>1, <1>2, <1>3 DEF StartsAreTrue

LEMMA StartsStep ==
    ASSUME TypeOK, TypeOK', Sound(history), ScopeIsTrue, RegistryIsTrue, StartsAreTrue,
           UNCHANGED history \/ Appends, [Next]_vars
    PROVE  StartsAreTrue'
  <1>0. \A c : SpawnRecorded(c) => SpawnRecorded(c)'
    BY HistoryKeeps DEF TypeOK
  <1>1. CASE \E c \in Child : spawn_child(c)
    BY <1>0, <1>1, SpawnStep
  <1>2. CASE \E c \in Child : SpawnStarts(c)
    BY <1>0, <1>2, SpawnStartsStep
  <1>3. CASE \E c \in Child : run_spawn_retry(c)
    BY <1>0, <1>3, RetryStep
  <1>4. CASE SweepChecks \/ SweepReads
    BY <1>0, <1>4, SweepStep
  <1>5. CASE SweepStarts
    BY <1>0, <1>5, SweepStartsStep
  <1>6. CASE SweepDone
    BY <1>0, <1>6, SweepEndsStep
  <1>7. CASE Boot \/ Crash
    BY <1>0, <1>7, BootStep
  <1>8. CASE Reopen
    BY <1>0, <1>8, ReopenStep
  <1>9. CASE \/ arm_scope \/ await_child \/ resume_with_timeout \/ ProcessExits
             \/ handle_process_exit \/ Kill \/ ScopeWakes
             \/ wait_for_child_terminal \/ record_parent_child_terminal \/ WatchAppends \/ WatchWakes
             \/ DetachedLands \/ ChildSucceeds \/ ScopeFires \/ ChildEnds \/ ChildContinues \/ Cancel
             \/ UNCHANGED vars
    <2>1. UNCHANGED <<retry, sweep, reopens>>
      BY <1>9 DEF arm_scope, await_child, resume_with_timeout, ProcessExits, handle_process_exit, Kill,
                ScopeWakes, wait_for_child_terminal, record_parent_child_terminal, WatchAppends,
                WatchWakes, DetachedLands, ChildSucceeds, ScopeFires, ChildEnds, ChildContinues,
                Cancel, vars, bounds
    <2>2. ChildSucceeds \/ ChildEnds \/ ChildContinues \/ UNCHANGED child
      BY <1>9 DEF arm_scope, await_child, resume_with_timeout, ProcessExits, handle_process_exit, Kill,
                ScopeWakes, wait_for_child_terminal, record_parent_child_terminal, WatchAppends,
                WatchWakes, DetachedLands, ScopeFires, Cancel, vars
    <2>3. \A c \in Child : Ages(c)
      BY <2>2, AgeStep
    <2>4. await_child => pc' \notin {"start_a", "start_b"}
      BY AwaitMoves
    <2>5. UNCHANGED pc \/ pc' \notin {"start_a", "start_b"}
      BY <1>9, <2>4
         DEF arm_scope, resume_with_timeout, ProcessExits, handle_process_exit, Kill,
             ScopeWakes, wait_for_child_terminal, record_parent_child_terminal, WatchAppends,
             WatchWakes, DetachedLands, ChildSucceeds, ScopeFires, ChildEnds, ChildContinues,
             Cancel, vars, process
    <2>6. QED
      BY <1>0, <2>1, <2>3, <2>5, QuietStep
  <1>10. QED
    BY <1>1, <1>2, <1>3, <1>4, <1>5, <1>6, <1>7, <1>8, <1>9, StepCases

-----------------------------------------------------------------------------
(***************************************************************************)
(* The invariant holds, and what follows from it.                          *)
(***************************************************************************)
LEMMA IInvInit == Init => IInv
  <1> SUFFICES ASSUME Init PROVE IInv
    OBVIOUS
  <1>1. TypeOK
    <2>1. history \in Seq(Events) /\ head = Len(history) /\ head \in Nat /\ Len(history) = 0
      BY DEF Init
    <2>2. child \in [Child -> ChildRecord]
      BY DEF Init, ChildRecord
    <2>3. /\ {up, registered, mail, killing, waking} \subseteq BOOLEAN
          /\ pc = "spawn_a" /\ scope = "live"
      BY DEF Init
    <2>4. watch \in WatchRecord /\ detached \in AppendRecord
      BY DEF Init, NoWatch, NoAppend, WatchRecord, AppendRecord
    <2>5. Off \in Tasks /\ retry \in [Child -> Tasks]
      BY DEF Init, Off, Task, Tasks
    <2>6. sweep \in [left : Seq(Child), task : Tasks, boot : BOOLEAN] /\ Len(sweep.left) <= 2
      BY <2>5 DEF Init, NoSweep
    <2>7. got \in [{"first", "second"} -> SUBSET (Outcome \cup {"timeout"})]
      BY DEF Init
    <2>8. /\ crashes \in 0 .. MaxCrashes /\ failures \in 0 .. MaxFailures
          /\ continues \in 0 .. MaxContinues /\ reopens \in 0 .. MaxReopens
      BY DEF Init
    <2>9. QED
      BY <2>1, <2>2, <2>3, <2>4, <2>5, <2>6, <2>7, <2>8
         DEF TypeOK, ChildRecord, WatchRecord, AppendRecord
  <1>2. /\ history = <<>> /\ DOMAIN history = {}
        /\ scope = "live" /\ up = TRUE /\ registered = TRUE /\ pc = "spawn_a"
        /\ watch = NoWatch /\ detached = NoAppend /\ sweep = NoSweep
    BY DEF Init
  <1>3. Sound(history)
    BY <1>2 DEF Sound, Has
  <1>4. ScopeIsTrue /\ RegistryIsTrue
    BY <1>2 DEF ScopeIsTrue, RegistryIsTrue
  <1>5. WatchIsTrue /\ DetachedIsTrue
    BY <1>2 DEF WatchIsTrue, DetachedIsTrue, NoWatch
  <1>6. EndsAreTrue
    BY <1>2 DEF Init, EndsAreTrue, Awaited, Child, Outcome
  <1>7. AnswersAreTrue
    BY DEF Init, AnswersAreTrue
  <1>8. StartsAreTrue
    <2>1. sweep.left = <<>> /\ Swept = {} /\ Distinct(sweep.left)
      BY <1>2 DEF NoSweep, Swept, Members, Distinct
    <2>2. ASSUME NEW c \in Child
          PROVE  child[c].starts = 0 /\ child[c].seq = 0 /\ retry[c] = Off /\ pc # StartLabel[c]
      BY LabelFacts DEF Init
    <2>3. Off.step = "off"
      BY DEF Off, Task
    <2>4. ASSUME NEW c \in Child PROVE Claims(c) /\ Exclusive(c)
      BY <2>1, <2>2, <2>3 DEF Claims, Exclusive, Sweeping
    <2>5. QED
      BY <2>1, <2>4 DEF StartsAreTrue
  <1>9. ParkedIsWatched
    BY <1>2 DEF ParkedIsWatched, Parked
  <1>10. QED
    BY <1>1, <1>3, <1>4, <1>5, <1>6, <1>7, <1>8, <1>9 DEF IInv

LEMMA IInvStep == IInv /\ [Next]_vars => IInv'
  <1> SUFFICES ASSUME IInv, [Next]_vars PROVE IInv'
    OBVIOUS
  <1>0. /\ TypeOK /\ Sound(history) /\ ScopeIsTrue /\ RegistryIsTrue /\ EndsAreTrue /\ WatchIsTrue
        /\ DetachedIsTrue /\ AnswersAreTrue /\ StartsAreTrue /\ ParkedIsWatched
        /\ history \in Seq(Events)
    BY DEF IInv, TypeOK
  <1>1. UNCHANGED history \/ Appends
    BY <1>0, HistoryStep
  <1>2. Sound(history')
    BY <1>0, <1>1, HistoryKeeps
  <1>3. TypeOK'
    BY <1>1, TypeStep
  <1>4. ScopeIsTrue' /\ RegistryIsTrue'
    BY <1>0, <1>1, ScopeStep, RegistryStep
  <1>5. EndsAreTrue' /\ WatchIsTrue' /\ DetachedIsTrue'
    BY <1>0, <1>1, EndsStep, WatchStep, DetachedStep
  <1>6. AnswersAreTrue' /\ ParkedIsWatched'
    BY <1>0, <1>1, AnswersStep, ParkedStep
  <1>7. StartsAreTrue'
    BY <1>0, <1>1, <1>3, StartsStep
  <1>8. QED
    BY <1>2, <1>3, <1>4, <1>5, <1>6, <1>7 DEF IInv

LEMMA Invariance == Spec => []IInv
  BY IInvInit, IInvStep, PTL DEF Spec

\* The two ends of the first await exclude each other, and the child has one end.
LEMMA OneEnd ==
    ASSUME NEW h \in Seq(Events), Sound(h)
    PROVE  /\ ~(FirstReturned(h) /\ FirstTimedOut(h))
           /\ \A x, y : EndIs(h, x) /\ EndIs(h, y) => x = y
  <1>1. DOMAIN h \subseteq Int
    BY HistoryFacts
  <1>2. ASSUME FirstReturned(h), FirstTimedOut(h) PROVE FALSE
    <2>1. PICK i \in DOMAIN h : /\ h[i].type = "ChildTerminal"
                                /\ \A f \in DOMAIN h : h[f].type = "TimerFired" => i < f
      BY <1>2 DEF FirstReturned
    <2>2. PICK f \in DOMAIN h : /\ h[f].type = "TimerFired"
                                /\ \A j \in DOMAIN h : h[j].type = "ChildTerminal" => f < j
      BY <1>2 DEF FirstTimedOut
    <2>3. i < f /\ f < i
      BY <2>1, <2>2
    <2>4. QED
      BY <1>1, <2>3
  <1>3. \A x, y : EndIs(h, x) /\ EndIs(h, y) => x = y
    BY DEF EndIs, Sound
  <1>4. QED
    BY <1>2, <1>3

LEMMA AtMostOne ==
    ASSUME NEW S, \A x, y \in S : x = y
    PROVE  Cardinality(S) <= 1
  <1>1. CASE S = {}
    BY <1>1, FS_EmptySet
  <1>2. CASE S # {}
    <2>1. PICK x \in S : S = {x}
      BY <1>2
    <2>2. QED
      BY <2>1, FS_Singleton
  <1>3. QED
    BY <1>1, <1>2

LEMMA AnswersAgree == IInv => ReplayAgrees
  <1> SUFFICES ASSUME IInv PROVE ReplayAgrees
    OBVIOUS
  <1>0. history \in Seq(Events) /\ Sound(history) /\ AnswersAreTrue
    BY DEF IInv, TypeOK
  <1>1. /\ ~(FirstReturned(history) /\ FirstTimedOut(history))
        /\ \A x, y : EndIs(history, x) /\ EndIs(history, y) => x = y
    BY <1>0, OneEnd
  <1>2. \A x, y \in got["first"] : x = y
    BY <1>0, <1>1 DEF AnswersAreTrue
  <1>3. \A x, y \in got["second"] : x = y
    BY <1>0, <1>1 DEF AnswersAreTrue
  <1>4. QED
    BY <1>2, <1>3, AtMostOne DEF ReplayAgrees

LEMMA EndsAreOne == IInv => RecordedOnceAndTrue
  <1> SUFFICES ASSUME IInv PROVE RecordedOnceAndTrue
    OBVIOUS
  <1>0. Sound(history) /\ EndsAreTrue
    BY DEF IInv
  <1>1. \A i, j \in Terminals : i = j
    BY <1>0 DEF Sound, Terminals, TerminalAt
  <1>2. \A i \in Terminals : history[i].of \in child[Awaited].outcomes
    BY <1>0 DEF EndsAreTrue, Terminals, TerminalAt
  <1>3. QED
    BY <1>1, <1>2, AtMostOne DEF RecordedOnceAndTrue

LEMMA InvFollows == IInv => Inv
  <1> SUFFICES ASSUME IInv PROVE Inv
    OBVIOUS
  <1>1. NoArrivalAfterTheEnd
    BY DEF IInv, Sound, NoArrivalAfterTheEnd
  <1>2. StartedOnce
    BY DEF IInv, StartsAreTrue, Exclusive, StartedOnce
  <1>3. QED
    BY <1>1, <1>2 DEF IInv, Inv

(***************************************************************************)
(* Types hold, the recorder is at most the one lost append behind, a       *)
(* parked parent has a watcher or a wake (F5), no child is started twice   *)
(* as long as nothing is reopened (startup_sweeps.rs:26-28), and nothing   *)
(* arrives behind the end of the parent (nif_child_watch.rs:238-239).      *)
(***************************************************************************)
THEOREM ChildrenAreSafe == Spec => []Inv
  BY Invariance, InvFollows, PTL

(***************************************************************************)
(* An execution after a crash or a reopen gives every await the answer the *)
(* first execution gave (nif_child.rs:349-363, F1 and N-1).                *)
(***************************************************************************)
THEOREM AwaitsReplay == Spec => []ReplayAgrees
  BY Invariance, AnswersAgree, PTL

(***************************************************************************)
(* One end of the child is recorded in the parent, by the watcher or by    *)
(* the append it lost, and the child came to it                            *)
(* (nif_child_watch.rs:233-234).                                           *)
(***************************************************************************)
THEOREM EndsAreRecordedOnce == Spec => []RecordedOnceAndTrue
  BY Invariance, EndsAreOne, PTL
=============================================================================
