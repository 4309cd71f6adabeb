------------------------- MODULE RunLifecycle_proofs -------------------------
(***************************************************************************)
(* Proofs about module RunLifecycle, for any callers, operations, runs of  *)
(* the chain and crashes.                                                  *)
(***************************************************************************)
EXTENDS RunLifecycle, NaturalsInduction, FiniteSetTheorems, TLAPS

-----------------------------------------------------------------------------
(* The inductive invariant.                                                *)

\* Runs are numbered in the order of their starts, and only started runs have events.
RunsAreNumbered ==
    /\ Len(history) > 0
    /\ \A i, j \in 1 .. Len(history) :
           (i < j /\ history[i].type = "Started" /\ history[j].type = "Started")
               => history[i].run < history[j].run
    /\ \A i \in 1 .. Len(history) : \E s \in 1 .. i :
           history[s].type = "Started" /\ history[s].run = history[i].run

\* An outcome is in the history, and in a chain that has not forked it is one of the run.
Recorded(type, run) ==
    \E i \in 1 .. Len(history) :
        history[i].type = type /\ (OneSuccessor => history[i].run = run)

\* The operations that reach a step.
OpsAt(at) ==
    CASE at \in {"idle", "done"} -> {"none"}
      [] at \in {"read", "reconcile", "check"} -> {"monitor"}
      [] at = "query" -> {"sweep"}
      [] at \in {"head", "start", "publish"} -> {"continue", "monitor", "sweep"}
      [] at = "record" -> {"cancel", "pause", "resume", "continue"}
      [] at = "kill" -> {"cancel"}
      [] at = "deregister" -> {"cancel", "continue"}
      [] at = "hold" -> {"pause"}
      [] at = "release" -> {"cancel", "resume"}
      [] at = "evict" -> {"reopen"}
      [] at \in {"append", "respawn"} -> {"resume", "reopen"}

\* An operation that was validated on the history it read still stands while that is the
\* whole history.
StillValid(op, run) ==
    LET e == history[Len(history)]
    IN  OneSuccessor => /\ e.run = run
                        /\ op = "reopen" => e.type \in {"Failed", "Cancelled"}
                        /\ op = "resume" => e.type = "Paused"

(***************************************************************************)
(* What an agent in the middle of its work knows: its handle is one of its *)
(* run, the head it has read is of a past of the history, what it acts on  *)
(* is recorded, and what it was validated on stands.                       *)
(***************************************************************************)
AgentIsTrue(g) ==
    /\ g.op \in OpsAt(g.at)
    /\ g.head <= Len(history)
    /\ g.at \in {"publish", "reconcile"} => g.head > 0
    /\ g.handle # 0 => g.handle \in 1 .. Len(handles) /\ handles[g.handle].run = g.run
    /\ g.op \in {"cancel", "continue", "pause"} => g.handle # 0
    /\ g.at = "record" => g.handle # 0
    /\ g.at \in {"read", "reconcile", "check"} => g.seen # "None" /\ Recorded(g.seen, g.run)
    /\ g.at = "check" => g.seen = "ContinuedAsNew"
    /\ g.op \in AllOps => g.run \in StartedRuns
    /\ g.at \in {"kill", "deregister"} /\ g.op = "cancel" => Recorded("Cancelled", g.run)
    /\ g.at \in {"head", "start"} => Recorded("ContinuedAsNew", g.run)
    /\ g.op = "continue" /\ g.at # "record" => Recorded("ContinuedAsNew", g.run)
    /\ g.at \in {"evict", "append"} /\ g.head = Len(history) => StillValid(g.op, g.run)

AgentsAreTrue == \A a \in Agents : AgentIsTrue(agent[a])

\* Handles are of started runs.
HandlesAreStarted == \A h \in 1 .. Len(handles) : handles[h].run \in StartedRuns

\* The registry names handles of the run it names them for.
RegistryIsTrue ==
    /\ \A r \in Runs : registry[r].handle # 0 =>
           registry[r].handle \in 1 .. Len(handles) /\ handles[registry[r].handle].run = r
    /\ index \in 0 .. Len(handles)

\* A crash leaves the history alone.
DownIsEmpty ==
    ~up => /\ handles = <<>> /\ index = 0
           /\ \A r \in Runs : registry[r].handle = 0
           /\ \A a \in Agents : agent[a] = Idle

\* Every handle, and every one still to be made, belongs to a crash, an operation or a run.
Publishing == {a \in Agents : agent[a].at = "publish"}
Respawning == {c \in Callers : agent[c].op \in {"resume", "reopen"}}
HandlesAreEnough ==
    Len(handles) + Cardinality(Publishing) + Cardinality(Respawning)
        <= (IF up THEN crashes ELSE crashes - 1) + ops + CurrentRun

(***************************************************************************)
(* The history of a chain that has not forked, event by event.  Every      *)
(* writer checks the terminal or the status of its run's segment.  It      *)
(* finds the end of the history there, because the run is the newest, or   *)
(* is sent away, because the segment of every other run ends with its      *)
(* ContinuedAsNew.                                                         *)
(***************************************************************************)
Follows(e, f) ==
    /\ f.type = "Started" => e.type = "ContinuedAsNew" /\ f.parent = e.run
    /\ f.type # "Started" => f.run = e.run
    /\ f.type = "Reopened" => e.type \in {"Failed", "Cancelled"}
    /\ f.type = "Paused" => StatusOf(e.type) = "Running"
    /\ f.type = "Resumed" => e.type = "Paused"
    /\ f.type \in Terminals => e.type \notin Terminals

ChainIsLinear ==
    /\ \A i \in 2 .. Len(history) : Follows(history[i - 1], history[i])
    /\ \A i \in 1 .. Len(history) : \E s \in 1 .. i :
           /\ history[s].type = "Started" /\ history[s].run = history[i].run
           /\ \A j \in s + 1 .. i : history[j].type # "Started"

UnforkedIsLinear == OneSuccessor => ChainIsLinear

IInv ==
    /\ TypeOK
    /\ RunsAreNumbered
    /\ AgentsAreTrue
    /\ HandlesAreStarted
    /\ RegistryIsTrue
    /\ DownIsEmpty
    /\ HandlesAreEnough
    /\ UnforkedIsLinear
    /\ ToldIsRecorded

-----------------------------------------------------------------------------
(* Lemmas about numbers, sets and sequences.                               *)

\* A set of naturals that is not empty has a least element.
LEMMA LeastExists ==
    ASSUME NEW S \in SUBSET Nat, S # {}
    PROVE  \E m \in S : \A k \in S : m <= k
  <1> DEFINE R == {p \in Nat \X Nat : p[1] < p[2]}
  <1>1. IsWellFoundedOn(R, Nat)
    BY NatLessThanWellFounded, Zenon DEF OpToRel
  <1>2. PICK m \in S : \A k \in S : <<k, m>> \notin R
    BY <1>1, WFMin, Zenon
  <1>3. ASSUME NEW k \in S PROVE m <= k
    <2>1. m \in Nat /\ k \in Nat /\ (<<k, m>> \in R <=> k < m)
      OBVIOUS
    <2>2. QED
      BY <1>2, <2>1
  <1>4. QED
    BY <1>3

\* Last picks the greatest of some positions of a history.
LEMMA LastIsGreatest ==
    ASSUME NEW n \in Nat, NEW S \in SUBSET (1 .. n), S # {}
    PROVE  Last(S) \in S /\ \A x \in S : x <= Last(S)
  <1> DEFINE U == {b \in Nat : \A x \in S : x <= b}
  <1>1. n \in U /\ U \in SUBSET Nat
    OBVIOUS
  <1>2. PICK m \in U : \A k \in U : m <= k
    BY <1>1, LeastExists
  <1>3. m \in S
    <2>1. SUFFICES ASSUME m \notin S PROVE FALSE
      OBVIOUS
    <2>2. PICK x \in S : x <= m /\ x \in 1 .. n
      OBVIOUS
    <2>3. m \in Nat /\ m # 0
      BY <2>2
    <2>4. m - 1 \in U
      BY <2>1, <2>3
    <2>5. QED
      BY <1>2, <2>3, <2>4
  <1>4. QED
    BY <1>3 DEF Last

LEMMA AppendFacts ==
    ASSUME NEW S, NEW h \in Seq(S), NEW e \in S
    PROVE  /\ Append(h, e) \in Seq(S)
           /\ Len(h) \in Nat
           /\ Len(Append(h, e)) = Len(h) + 1
           /\ \A p \in 1 .. Len(h) : Append(h, e)[p] = h[p]
           /\ Append(h, e)[Len(h) + 1] = e
  OBVIOUS

\* A finite set in which only one element comes or goes.
LEMMA CountOne ==
    ASSUME NEW A, NEW B, NEW a, IsFiniteSet(A), IsFiniteSet(B), A \ {a} = B \ {a}
    PROVE  /\ Cardinality(A) \in Nat /\ Cardinality(B) \in Nat
           /\ Cardinality(B) <= Cardinality(A) + 1
           /\ a \notin B => Cardinality(B) <= Cardinality(A)
           /\ a \in A => Cardinality(B) <= Cardinality(A)
           /\ a \in A /\ a \notin B => Cardinality(B) = Cardinality(A) - 1
  <1>1. Cardinality(A) \in Nat /\ Cardinality(B) \in Nat
    BY FS_CardinalityType
  <1>2. /\ Cardinality(A \ {a}) = IF a \in A THEN Cardinality(A) - 1 ELSE Cardinality(A)
        /\ Cardinality(B \ {a}) = IF a \in B THEN Cardinality(B) - 1 ELSE Cardinality(B)
    BY FS_RemoveElement
  <1> HIDE DEF Cardinality
  <1>3. QED
    BY <1>1, <1>2

-----------------------------------------------------------------------------
(* What the projections of a history find.                                 *)

LEMMA StatusFacts ==
    ASSUME NEW t
    PROVE  /\ StatusOf(t) = "Running" <=> t \in {"Started", "Reopened", "Resumed", "Running"}
           /\ StatusOf(t) = "Paused" <=> t = "Paused"
           /\ StatusOf(t) = "ContinuedAsNew" <=> t = "ContinuedAsNew"
  BY DEF StatusOf

\* CurrentRun is the run of the last start, and the greatest that started.
CurrentIsLast ==
    \E s \in 1 .. Len(history) :
        /\ history[s].type = "Started" /\ history[s].run = CurrentRun
        /\ CurrentRun \in Runs
        /\ \A j \in s + 1 .. Len(history) : history[j].type # "Started"
        /\ \A j \in 1 .. Len(history) : history[j].run <= CurrentRun
IsNumbered == history \in Seq(Events) /\ RunsAreNumbered

LEMMA CurrentRunIsLast == IsNumbered => CurrentIsLast
  <1> SUFFICES ASSUME history \in Seq(Events), RunsAreNumbered PROVE CurrentIsLast
    BY DEF IsNumbered
  <1> DEFINE S == {i \in 1 .. Len(history) : history[i].type = "Started"}
             s == Last(S)
  <1>0. Len(history) \in Nat /\ \A i \in 1 .. Len(history) : history[i] \in Events
    OBVIOUS
  <1>1. S # {}
    <2>1. 1 \in 1 .. Len(history)
      BY <1>0 DEF RunsAreNumbered
    <2>2. PICK t \in 1 .. 1 : history[t].type = "Started"
      BY <2>1 DEF RunsAreNumbered
    <2>3. QED
      BY <2>1, <2>2
  <1>2. s \in S /\ \A x \in S : x <= s
    BY <1>0, <1>1, LastIsGreatest
  <1>3. CurrentRun = history[s].run
    BY DEF CurrentRun
  <1> HIDE DEF s
  <1>4. s \in 1 .. Len(history) /\ history[s].type = "Started" /\ history[s] \in Events
    BY <1>0, <1>2
  <1>5. CurrentRun \in Runs
    BY <1>3, <1>4 DEF Events
  <1>6. \A j \in s + 1 .. Len(history) : history[j].type # "Started"
    BY <1>0, <1>2, <1>4
  <1>7. ASSUME NEW j \in 1 .. Len(history) PROVE history[j].run <= CurrentRun
    <2>1. PICK t \in 1 .. j : history[t].type = "Started" /\ history[t].run = history[j].run
      BY DEF RunsAreNumbered
    <2>2. t \in S /\ t <= s /\ t \in 1 .. Len(history)
      BY <1>0, <1>2, <2>1
    <2>3. CASE t = s
      BY <2>1, <2>3, <1>3, <1>5 DEF Runs
    <2>4. CASE t < s
      <3>1. history[t].run < history[s].run
        BY <1>4, <2>1, <2>2, <2>4 DEF RunsAreNumbered
      <3>2. history[t].run \in Int /\ history[s].run \in Int
        BY <1>0, <1>4, <2>2 DEF Events, Runs
      <3>3. QED
        BY <3>1, <3>2, <1>3, <2>1
    <2>5. QED
      BY <1>4, <2>2, <2>3, <2>4
  <1>8. QED
    BY <1>3, <1>4, <1>5, <1>6, <1>7 DEF CurrentIsLast

\* A started run has a segment, and it holds the run's start.
LEMMA SegmentStarts ==
    ASSUME history \in Seq(Events), RunsAreNumbered, NEW q \in StartedRuns
    PROVE  /\ Len(history) \in Nat /\ run_segment(q) \in SUBSET (1 .. Len(history))
           /\ \E s \in run_segment(q) :
                 /\ history[s].type = "Started" /\ history[s].run = q
  <1>1. Len(history) \in Nat
    OBVIOUS
  <1>2. PICK i \in 1 .. Len(history) : history[i].run = q
    BY DEF StartedRuns
  <1>3. PICK s \in 1 .. i : history[s].type = "Started" /\ history[s].run = q
    BY <1>2 DEF RunsAreNumbered
  <1>4. s \in StartOf(q) /\ s \in 1 .. Len(history)
    BY <1>1, <1>3 DEF StartOf
  <1>5. s \in run_segment(q)
    BY <1>1, <1>4 DEF run_segment
  <1>6. QED
    BY <1>1, <1>3, <1>5 DEF run_segment

\* The last event of a segment, and the event that decides about its lease.
LEMMA SegmentLast ==
    ASSUME history \in Seq(Events), RunsAreNumbered, NEW q \in StartedRuns
    PROVE  \E m, d \in run_segment(q) :
               /\ SegmentStatus(q) = StatusOf(history[m].type)
               /\ \A i \in run_segment(q) : i <= m
               /\ history[d].type \in Terminals \cup Resets
               /\ current_lease_terminal(q) =
                      IF history[d].type \in Terminals THEN history[d].type ELSE "None"
               /\ \A i \in run_segment(q) : history[i].type \in Terminals \cup Resets => i <= d
  <1> DEFINE D == {i \in run_segment(q) : history[i].type \in Terminals \cup Resets}
             m == Last(run_segment(q))
             d == Last(D)
  <1>1. /\ Len(history) \in Nat /\ run_segment(q) \in SUBSET (1 .. Len(history))
        /\ D \in SUBSET (1 .. Len(history)) /\ D # {} /\ run_segment(q) # {}
    <2>1. PICK s \in run_segment(q) : history[s].type = "Started"
      BY SegmentStarts
    <2>2. s \in D
      BY <2>1 DEF Resets
    <2>3. QED
      BY <2>2, SegmentStarts
  <1>2. m \in run_segment(q) /\ \A i \in run_segment(q) : i <= m
    BY <1>1, LastIsGreatest
  <1>3. d \in D /\ \A i \in D : i <= d
    BY <1>1, LastIsGreatest
  <1>4. /\ SegmentStatus(q) = StatusOf(history[m].type)
        /\ current_lease_terminal(q) =
               IF history[d].type \in Terminals THEN history[d].type ELSE "None"
    BY DEF SegmentStatus, current_lease_terminal
  <1> HIDE DEF m, d
  <1>5. QED
    BY <1>2, <1>3, <1>4

\* In a chain that has not forked a segment holds the events of its run.
LEMMA SegmentIsOwn ==
    ASSUME history \in Seq(Events), RunsAreNumbered, ChainIsLinear, NEW q,
           NEW i \in run_segment(q)
    PROVE  history[i].run = q
  <1>1. i \in 1 .. Len(history) /\ Len(history) \in Nat
    BY DEF run_segment
  <1>2. PICK s \in StartOf(q) : s <= i /\ \A j \in s + 1 .. i : history[j].type # "Started"
    BY DEF run_segment
  <1>3. PICK t \in 1 .. i : /\ history[t].type = "Started" /\ history[t].run = history[i].run
                            /\ \A j \in t + 1 .. i : history[j].type # "Started"
    BY <1>1 DEF ChainIsLinear
  <1>4. s \in 1 .. Len(history) /\ history[s].type = "Started" /\ history[s].run = q
    BY DEF StartOf
  <1>5. s = t
    BY <1>1, <1>2, <1>3, <1>4
  <1>6. QED
    BY <1>3, <1>4, <1>5

\* The segment of a run ends the history, or it ends with the run's ContinuedAsNew.
LEMMA SegmentEnds ==
    ASSUME history \in Seq(Events), RunsAreNumbered, ChainIsLinear, NEW q,
           NEW m \in run_segment(q), \A i \in run_segment(q) : i <= m
    PROVE  /\ history[m].run = q
           /\ m = Len(history) \/ (m < Len(history) /\ history[m].type = "ContinuedAsNew")
  <1>1. m \in 1 .. Len(history) /\ Len(history) \in Nat
    BY DEF run_segment
  <1>2. CASE m < Len(history)
    <2>1. m + 1 \in 2 .. Len(history) /\ m + 1 \notin run_segment(q) /\ (m + 1) - 1 = m
      BY <1>1, <1>2
    <2>2. PICK s \in StartOf(q) : s <= m /\ \A j \in s + 1 .. m : history[j].type # "Started"
      BY DEF run_segment
    <2>3. s \in 1 .. Len(history)
      BY DEF StartOf
    <2>4. ~ \A j \in s + 1 .. m + 1 : history[j].type # "Started"
      BY <1>1, <2>1, <2>2, <2>3 DEF run_segment
    <2>5. history[m + 1].type = "Started"
      BY <1>1, <2>2, <2>3, <2>4
    <2>6. QED
      BY <2>1, <2>5, <1>2, SegmentIsOwn DEF ChainIsLinear, Follows
  <1>3. QED
    BY <1>1, <1>2, SegmentIsOwn

\* What a writer that checks its run's segment knows of the last event of the history.
LEMMA SegmentTells ==
    ASSUME history \in Seq(Events), RunsAreNumbered, ChainIsLinear, NEW q \in StartedRuns
    PROVE  LET e == history[Len(history)]
           IN  /\ current_lease_terminal(q) = "None" => e.run = q /\ e.type \notin Terminals
               /\ current_lease_terminal(q) \in {"Failed", "Cancelled"}
                      => e.run = q /\ e.type \in {"Failed", "Cancelled"}
               /\ SegmentStatus(q) \in {"Running", "Paused"}
                      => e.run = q /\ StatusOf(e.type) = SegmentStatus(q)
  <1> DEFINE e == history[Len(history)]
             clt == current_lease_terminal(q)
  <1>1. PICK m, d \in run_segment(q) :
               /\ SegmentStatus(q) = StatusOf(history[m].type)
               /\ \A i \in run_segment(q) : i <= m
               /\ history[d].type \in Terminals \cup Resets
               /\ clt = IF history[d].type \in Terminals THEN history[d].type ELSE "None"
               /\ \A i \in run_segment(q) : history[i].type \in Terminals \cup Resets => i <= d
    BY SegmentLast
  <1>2. /\ Len(history) \in Nat /\ m \in 1 .. Len(history) /\ d \in 1 .. Len(history)
        /\ d <= m
    BY <1>1, SegmentStarts
  <1>3. /\ history[m].run = q
        /\ m = Len(history) \/ (m < Len(history) /\ history[m].type = "ContinuedAsNew")
    BY <1>1, SegmentEnds
  <1> HIDE DEF clt
  <1>4. CASE m < Len(history)
    <2>1. history[m].type = "ContinuedAsNew" /\ m \in run_segment(q)
      BY <1>2, <1>3, <1>4
    <2>2. m <= d /\ d = m
      BY <1>1, <1>2, <2>1 DEF Terminals
    <2>3. clt = "ContinuedAsNew" /\ SegmentStatus(q) = "ContinuedAsNew"
      BY <1>1, <2>1, <2>2 DEF Terminals, StatusOf
    <2>4. QED
      BY <2>3 DEF clt
  <1>5. CASE m = Len(history)
    <2>1. e.run = q /\ StatusOf(e.type) = SegmentStatus(q)
      BY <1>1, <1>3, <1>5
    <2>2. ASSUME clt = "None" PROVE e.type \notin Terminals
      <3>1. SUFFICES ASSUME e.type \in Terminals PROVE FALSE
        OBVIOUS
      <3>2. d = m
        BY <1>1, <1>2, <1>5, <3>1
      <3>3. QED
        BY <1>1, <1>5, <2>2, <3>1, <3>2 DEF Terminals
    <2>3. ASSUME clt \in {"Failed", "Cancelled"} PROVE e.type \in {"Failed", "Cancelled"}
      <3>1. history[d].type \in {"Failed", "Cancelled"}
        BY <1>1, <2>3
      <3>2. CASE d = m
        BY <1>5, <3>1, <3>2
      <3>3. CASE d < m
        <4>1. PICK s \in StartOf(q) :
                  s <= m /\ \A j \in s + 1 .. m : history[j].type # "Started"
          BY DEF run_segment
        <4>2. PICK t \in StartOf(q) :
                  t <= d /\ \A j \in t + 1 .. d : history[j].type # "Started"
          BY DEF run_segment
        <4>3. /\ s \in 1 .. Len(history) /\ history[s].type = "Started"
              /\ t \in 1 .. Len(history) /\ history[t].type = "Started"
              /\ history[s].run = q /\ history[t].run = q
          BY DEF StartOf
        <4>4. s <= d
          <5>1. s = t
            <6>1. \A i, j \in 1 .. Len(history) :
                     (i < j /\ history[i].type = "Started" /\ history[j].type = "Started")
                        => history[i].run < history[j].run
              BY DEF RunsAreNumbered
            <6>2. history[s] \in Events
              BY <4>3
            <6>3. q \in Int
              BY <4>3, <6>2 DEF Events, Runs
            <6>4. ~(s < t) /\ ~(t < s)
              BY <4>3, <6>1, <6>3
            <6>5. QED
              BY <4>3, <6>4
          <5>2. QED
            BY <4>2, <5>1
        <4>5. d + 1 \in 2 .. Len(history) /\ (d + 1) - 1 = d /\ d + 1 \in s + 1 .. m
          BY <1>2, <3>3, <4>3, <4>4
        <4>6. d + 1 \in run_segment(q)
          BY <1>2, <4>1, <4>3, <4>4, <4>5 DEF run_segment
        <4>7. history[d + 1].type \notin Terminals \cup Resets
          BY <1>1, <1>2, <4>6
        <4>8. history[d + 1] \in Events
          BY <4>5
        <4>9. history[d + 1].type \in {"Paused", "Resumed"}
          BY <4>7, <4>8 DEF Events
        <4>10. Follows(history[d], history[d + 1])
          BY <4>5 DEF ChainIsLinear
        <4>11. QED
          BY <3>1, <4>9, <4>10 DEF Follows, StatusOf
      <3>4. QED
        BY <1>2, <3>2, <3>3
    <2>4. QED
      BY <2>1, <2>2, <2>3 DEF clt
  <1>6. QED
    BY <1>3, <1>4, <1>5

\* The terminal that the lookup under the recorder lock finds is recorded.
LEMMA LeaseTerminalIsRecorded ==
    ASSUME history \in Seq(Events), RunsAreNumbered, UnforkedIsLinear, NEW q \in StartedRuns
    PROVE  /\ current_lease_terminal(q) \in Terminals \cup {"None"}
           /\ current_lease_terminal(q) # "None" => Recorded(current_lease_terminal(q), q)
  <1>1. PICK d \in run_segment(q) :
            current_lease_terminal(q) =
                IF history[d].type \in Terminals THEN history[d].type ELSE "None"
    BY SegmentLast
  <1>2. d \in 1 .. Len(history)
    BY SegmentStarts
  <1>3. OneSuccessor => history[d].run = q
    BY SegmentIsOwn DEF UnforkedIsLinear
  <1>4. QED
    BY <1>1, <1>2, <1>3 DEF Recorded

-----------------------------------------------------------------------------
(* What a step does to the history, the handles and the agents.            *)

\* The history, and the runs of the handles, only grow.
HistoryKeeps ==
    /\ Len(history) \in Nat /\ Len(history') \in Nat /\ Len(history) <= Len(history')
    /\ \A i \in 1 .. Len(history) : history'[i] = history[i]
HandlesKeep ==
    /\ Len(handles) \in Nat /\ Len(handles') \in Nat /\ Len(handles) <= Len(handles')
    /\ \A h \in 1 .. Len(handles) : handles'[h].run = handles[h].run

\* What is recorded after a step.
NowRecorded(type, run) ==
    \E i \in 1 .. Len(history') :
        history'[i].type = type /\ (OneSuccessor' => history'[i].run = run)

LEMMA RecordedKeeps ==
    ASSUME HistoryKeeps
    PROVE  /\ OneSuccessor' => OneSuccessor
           /\ \A t, r : Recorded(t, r) => NowRecorded(t, r)
           /\ \A r \in StartedRuns : r \in StartedRuns'
  <1>1. \A i \in 1 .. Len(history) : i \in 1 .. Len(history') /\ history'[i] = history[i]
    BY DEF HistoryKeeps
  <1>2. OneSuccessor' => OneSuccessor
    BY <1>1 DEF OneSuccessor
  <1>3. ASSUME NEW t, NEW r, Recorded(t, r) PROVE NowRecorded(t, r)
    <2>1. PICK i \in 1 .. Len(history) :
              history[i].type = t /\ (OneSuccessor => history[i].run = r)
      BY <1>3 DEF Recorded
    <2>2. QED
      BY <1>1, <1>2, <2>1 DEF NowRecorded
  <1>4. ASSUME NEW r \in StartedRuns PROVE r \in StartedRuns'
    BY <1>1 DEF StartedRuns
  <1>5. QED
    BY <1>2, <1>3, <1>4

\* A step that leaves the history alone.
LEMMA HistorySame ==
    ASSUME IInv, history' = history
    PROVE  /\ history' \in Seq(Events) /\ HistoryKeeps /\ Len(history') = Len(history)
           /\ RunsAreNumbered' /\ UnforkedIsLinear' /\ CurrentRun' = CurrentRun
  <1>1. history \in Seq(Events) /\ Len(history) \in Nat
    BY DEF IInv, TypeOK
  <1>2. RunsAreNumbered'
    BY DEF IInv, RunsAreNumbered
  <1>3. UnforkedIsLinear'
    <2>1. OneSuccessor' => OneSuccessor
      BY DEF OneSuccessor
    <2>2. ChainIsLinear => ChainIsLinear'
      BY DEF ChainIsLinear
    <2>3. QED
      BY <2>1, <2>2 DEF IInv, UnforkedIsLinear
  <1>4. CurrentRun' = CurrentRun
    BY DEF CurrentRun
  <1>5. QED
    BY <1>1, <1>2, <1>3, <1>4 DEF HistoryKeeps

\* What appending an event does.
Grows(e) ==
    /\ history' \in Seq(Events) /\ Len(history') = Len(history) + 1
    /\ \A i \in 1 .. Len(history) : history'[i] = history[i]
    /\ history'[Len(history) + 1] = e

LEMMA AppendGrows ==
    ASSUME history \in Seq(Events), NEW e \in Events, history' = Append(history, e)
    PROVE  Grows(e)
  BY AppendFacts DEF Grows

\* A step that appends an event: a start has the next number, and in a chain that has not
\* forked the event follows the last one.
LEMMA HistoryGrows ==
    ASSUME IInv, NEW e \in Events, Grows(e),
           \/ e.type = "Started" /\ e.run = NextRun
           \/ e.type # "Started" /\ e.run \in StartedRuns,
           OneSuccessor' => Follows(history[Len(history)], e)
    PROVE  /\ history' \in Seq(Events) /\ HistoryKeeps /\ Len(history') = Len(history) + 1
           /\ history'[Len(history) + 1] = e
           /\ RunsAreNumbered' /\ UnforkedIsLinear'
           /\ CurrentRun' = IF e.type = "Started" THEN NextRun ELSE CurrentRun
           /\ NowRecorded(e.type, e.run) /\ e.run \in StartedRuns'
  <1> DEFINE n == Len(history)
  <1>1. history \in Seq(Events) /\ n \in Nat /\ n > 0
    BY DEF IInv, TypeOK, RunsAreNumbered
  <1>2. /\ history' \in Seq(Events) /\ Len(history') = n + 1
        /\ \A i \in 1 .. n : history'[i] = history[i]
        /\ history'[n + 1] = e
    BY DEF Grows
  <1>3. HistoryKeeps
    BY <1>1, <1>2 DEF HistoryKeeps
  <1>4. PICK s \in 1 .. n :
            /\ history[s].type = "Started" /\ history[s].run = CurrentRun
            /\ CurrentRun \in Runs
            /\ \A j \in s + 1 .. n : history[j].type # "Started"
            /\ \A j \in 1 .. n : history[j].run <= CurrentRun
    BY <1>1, CurrentRunIsLast DEF IInv, IsNumbered, CurrentIsLast, n
  <1>5. \A i \in 1 .. n : history[i] \in Events
    BY <1>1
  <1>6. CurrentRun \in Int /\ NextRun = CurrentRun + 1
    BY <1>4 DEF Runs, NextRun
  <1> HIDE DEF n
  <1>7. RunsAreNumbered'
    <2>1. \A i \in 1 .. n : history[i].run \in Int /\ history[i].run <= CurrentRun
      BY <1>4, <1>5 DEF Events, Runs
    <2>2. ASSUME NEW i \in 1 .. n + 1, NEW j \in 1 .. n + 1, i < j,
                 history'[i].type = "Started", history'[j].type = "Started"
          PROVE  history'[i].run < history'[j].run
      <3>1. CASE j \in 1 .. n
        BY <1>1, <1>2, <2>2, <3>1 DEF IInv, RunsAreNumbered, n
      <3>2. CASE j = n + 1
        BY <1>1, <1>2, <1>6, <2>1, <2>2, <3>2
      <3>3. QED
        BY <1>1, <3>1, <3>2
    <2>3. ASSUME NEW i \in 1 .. n
          PROVE  \E t \in 1 .. i : history'[t].type = "Started" /\ history'[t].run = history'[i].run
      <3>1. PICK t \in 1 .. i : history[t].type = "Started" /\ history[t].run = history[i].run
        BY DEF IInv, RunsAreNumbered, n
      <3>2. t \in 1 .. n
        BY <1>1
      <3>3. QED
        BY <1>2, <3>1, <3>2
    <2>4. \E t \in 1 .. n + 1 : history'[t].type = "Started" /\ history'[t].run = e.run
      <3>1. CASE e.type = "Started"
        BY <1>1, <1>2, <3>1
      <3>2. CASE e.run \in StartedRuns
        <4>1. PICK i \in 1 .. n : history[i].run = e.run
          BY <3>2 DEF StartedRuns, n
        <4>2. PICK t \in 1 .. i : history[t].type = "Started" /\ history[t].run = history[i].run
          BY DEF IInv, RunsAreNumbered, n
        <4>3. t \in 1 .. n /\ t \in 1 .. n + 1
          BY <1>1
        <4>4. QED
          BY <1>2, <4>1, <4>2, <4>3
      <3>3. QED
        BY <3>1, <3>2
    <2>5. ASSUME NEW i \in 1 .. n + 1
          PROVE  \E t \in 1 .. i : history'[t].type = "Started" /\ history'[t].run = history'[i].run
      <3>1. CASE i \in 1 .. n
        BY <2>3, <3>1
      <3>2. CASE i = n + 1
        BY <1>2, <2>4, <3>2
      <3>3. QED
        BY <1>1, <3>1, <3>2
    <2>6. QED
      BY <1>1, <1>2, <2>2, <2>5 DEF RunsAreNumbered
  <1>8. UnforkedIsLinear'
    <2>1. SUFFICES ASSUME OneSuccessor' PROVE ChainIsLinear'
      BY DEF UnforkedIsLinear
    <2>2. ChainIsLinear /\ Follows(history[n], e)
      BY <2>1, <1>3, RecordedKeeps DEF IInv, UnforkedIsLinear, n
    <2>3. ASSUME NEW i \in 2 .. n + 1 PROVE Follows(history'[i - 1], history'[i])
      <3>1. CASE i = n + 1
        BY <1>1, <1>2, <2>2, <3>1
      <3>2. CASE i \in 2 .. n
        <4>1. Follows(history[i - 1], history[i]) /\ i - 1 \in 1 .. n /\ i \in 1 .. n
          BY <1>1, <2>2, <3>2 DEF ChainIsLinear, n
        <4>2. QED
          BY <1>2, <4>1
      <3>3. QED
        BY <1>1, <3>1, <3>2
    <2>4. ASSUME NEW i \in 1 .. n + 1
          PROVE  \E t \in 1 .. i :
                    /\ history'[t].type = "Started" /\ history'[t].run = history'[i].run
                    /\ \A j \in t + 1 .. i : history'[j].type # "Started"
      <3>1. CASE i \in 1 .. n
        <4>1. PICK t \in 1 .. i :
                    /\ history[t].type = "Started" /\ history[t].run = history[i].run
                    /\ \A j \in t + 1 .. i : history[j].type # "Started"
          BY <3>1, <2>2 DEF ChainIsLinear, n
        <4>2. t \in 1 .. n /\ \A j \in t + 1 .. i : j \in 1 .. n
          BY <1>1, <3>1
        <4>3. QED
          BY <1>1, <1>2, <3>1, <4>1, <4>2
      <3>2. CASE i = n + 1 /\ e.type = "Started"
        BY <1>1, <1>2, <3>2
      <3>3. CASE i = n + 1 /\ e.type # "Started"
        <4>1. n \in 1 .. n /\ e.run = history[n].run
          BY <1>1, <2>2, <3>3 DEF Follows
        <4>2. PICK t \in 1 .. n :
                    /\ history[t].type = "Started" /\ history[t].run = history[n].run
                    /\ \A j \in t + 1 .. n : history[j].type # "Started"
          BY <4>1, <2>2 DEF ChainIsLinear, n
        <4>3. ASSUME NEW j \in t + 1 .. n + 1 PROVE history'[j].type # "Started"
          <5>1. CASE j = n + 1
            BY <1>2, <3>3, <5>1
          <5>2. CASE j \in t + 1 .. n
            <6>1. j \in 1 .. n
              BY <1>1, <5>2
            <6>2. QED
              BY <1>2, <4>2, <5>2, <6>1
          <5>3. QED
            BY <1>1, <5>1, <5>2
        <4>4. QED
          BY <1>1, <1>2, <3>3, <4>1, <4>2, <4>3
      <3>4. QED
        BY <1>1, <3>1, <3>2, <3>3
    <2>5. QED
      BY <1>2, <2>3, <2>4 DEF ChainIsLinear, n
  <1>9. CurrentRun' = IF e.type = "Started" THEN NextRun ELSE CurrentRun
    <2>1. IsNumbered' => CurrentIsLast'
      BY CurrentRunIsLast, PTL
    <2>2. PICK t \in 1 .. n + 1 :
                /\ history'[t].type = "Started" /\ history'[t].run = CurrentRun'
                /\ \A j \in t + 1 .. n + 1 : history'[j].type # "Started"
      BY <1>2, <1>7, <2>1 DEF IsNumbered, CurrentIsLast, n
    <2>3. CASE e.type = "Started"
      BY <1>1, <1>2, <2>2, <2>3
    <2>4. CASE e.type # "Started"
      <3>1. t \in 1 .. n /\ s \in 1 .. n
        BY <1>1, <1>2, <2>2, <2>4
      <3>2. ~(t < s)
        BY <1>1, <1>2, <1>4, <2>2, <3>1
      <3>3. ~(s < t)
        BY <1>1, <1>2, <1>4, <2>2, <3>1
      <3>4. s = t
        BY <3>1, <3>2, <3>3
      <3>5. QED
        BY <1>2, <1>4, <2>2, <2>4, <3>1, <3>4
    <2>5. QED
      BY <2>3, <2>4
  <1>10. NowRecorded(e.type, e.run) /\ e.run \in StartedRuns'
    BY <1>1, <1>2 DEF NowRecorded, StartedRuns, n
  <1>11. QED
    BY <1>2, <1>3, <1>7, <1>8, <1>9, <1>10 DEF n

\* What a step makes of the handles, apart from their number.
HandlesFine ==
    /\ handles' \in Seq(HandleType) /\ HandlesKeep
    /\ HandlesAreStarted' /\ ToldIsRecorded'

LEMMA ToldKeeps ==
    ASSUME IInv, HistoryKeeps, NEW h \in 1 .. Len(handles), handles[h].told # "None"
    PROVE  NowRecorded(handles[h].told, handles[h].run)
  <1>1. DOMAIN handles = 1 .. Len(handles)
    BY DEF IInv, TypeOK
  <1>2. Recorded(handles[h].told, handles[h].run)
    BY <1>1 DEF IInv, ToldIsRecorded, Recorded
  <1>3. QED
    BY <1>2, RecordedKeeps

LEMMA HandlesAreFine ==
    ASSUME handles' \in Seq(HandleType), HandlesKeep, HandlesAreStarted',
           \A h \in 1 .. Len(handles') :
               handles'[h].told # "None" => NowRecorded(handles'[h].told, handles'[h].run)
    PROVE  HandlesFine
  <1>1. DOMAIN handles' = 1 .. Len(handles')
    OBVIOUS
  <1>2. ToldIsRecorded'
    BY <1>1 DEF ToldIsRecorded, NowRecorded
  <1>3. QED
    BY <1>2 DEF HandlesFine

LEMMA HandlesSame ==
    ASSUME IInv, HistoryKeeps, handles' = handles
    PROVE  HandlesFine
  <1>1. handles \in Seq(HandleType) /\ Len(handles) \in Nat
    BY DEF IInv, TypeOK
  <1>2. HandlesAreStarted'
    BY RecordedKeeps DEF IInv, HandlesAreStarted
  <1>3. HandlesKeep
    BY <1>1 DEF HandlesKeep
  <1>4. QED
    BY <1>1, <1>2, <1>3, ToldKeeps, HandlesAreFine

\* A handle changes: its run stays, and what it tells is recorded.
LEMMA HandleChanges ==
    ASSUME IInv, HistoryKeeps, NEW h \in 1 .. Len(handles), NEW K \in HandleType,
           handles' = [handles EXCEPT ![h] = K], K.run = handles[h].run,
           K.told = handles[h].told \/ NowRecorded(K.told, K.run)
    PROVE  HandlesFine /\ Len(handles') = Len(handles)
  <1>1. handles \in Seq(HandleType) /\ Len(handles) \in Nat
    BY DEF IInv, TypeOK
  <1>2. /\ handles' \in Seq(HandleType) /\ Len(handles') = Len(handles) /\ handles'[h] = K
        /\ \A x \in 1 .. Len(handles) : x # h => handles'[x] = handles[x]
    BY <1>1
  <1>3. HandlesKeep
    BY <1>1, <1>2 DEF HandlesKeep
  <1>4. HandlesAreStarted'
    BY <1>2, <1>3, RecordedKeeps DEF IInv, HandlesAreStarted, HandlesKeep
  <1>5. ASSUME NEW x \in 1 .. Len(handles'), handles'[x].told # "None"
        PROVE  NowRecorded(handles'[x].told, handles'[x].run)
    BY <1>2, <1>5, ToldKeeps
  <1>6. QED
    BY <1>2, <1>3, <1>4, <1>5, HandlesAreFine

\* A new handle of a started run, which has told nothing.
LEMMA HandleAdds ==
    ASSUME IInv, HistoryKeeps, NEW r \in Runs, r \in StartedRuns', NEW hd \in Nat,
           handles' = Append(handles, NewHandle(r, hd))
    PROVE  /\ HandlesFine /\ Len(handles') = Len(handles) + 1
           /\ handles'[Len(handles) + 1].run = r
  <1> DEFINE K == NewHandle(r, hd)
  <1>1. handles \in Seq(HandleType) /\ Len(handles) \in Nat
    BY DEF IInv, TypeOK
  <1>2. K \in HandleType /\ K.run = r /\ K.told = "None"
    BY DEF NewHandle, Handle, HandleType
  <1> HIDE DEF K
  <1>3. /\ handles' \in Seq(HandleType) /\ Len(handles') = Len(handles) + 1
        /\ \A x \in 1 .. Len(handles) : handles'[x] = handles[x]
        /\ handles'[Len(handles) + 1] = K
    <2>1. handles' = Append(handles, K)
      BY DEF K
    <2>2. QED
      BY <1>1, <1>2, <2>1, AppendFacts
  <1>4. \A x \in 1 .. Len(handles') : x \in 1 .. Len(handles) \/ x = Len(handles) + 1
    BY <1>1, <1>3
  <1>5. HandlesKeep
    BY <1>1, <1>3 DEF HandlesKeep
  <1>6. HandlesAreStarted'
    BY <1>2, <1>3, <1>4, RecordedKeeps DEF IInv, HandlesAreStarted
  <1>7. ASSUME NEW x \in 1 .. Len(handles'), handles'[x].told # "None"
        PROVE  NowRecorded(handles'[x].told, handles'[x].run)
    BY <1>2, <1>3, <1>4, <1>7, ToldKeeps
  <1>8. QED
    BY <1>2, <1>3, <1>5, <1>6, <1>7, HandlesAreFine

\* An agent that does not move knows what it knew.
LEMMA AgentKeeps ==
    ASSUME IInv, HistoryKeeps, HandlesKeep, NEW a \in Agents, agent'[a] = agent[a]
    PROVE  AgentIsTrue(agent[a])'
  <1> DEFINE g == agent[a]
  <1>1. AgentIsTrue(g) /\ g \in AgentType
    BY DEF IInv, AgentsAreTrue, TypeOK
  <1>2. g.head \in Nat
    BY <1>1 DEF AgentType
  <1>3. ASSUME g.head = Len(history') PROVE Len(history') = Len(history)
    BY <1>1, <1>2, <1>3 DEF AgentIsTrue, HistoryKeeps
  <1>4. ASSUME g.head = Len(history'), StillValid(g.op, g.run)
        PROVE  StillValid(agent[a].op, agent[a].run)'
    <2>1. g.head = 0 \/ history'[Len(history')] = history[Len(history)]
      BY <1>2, <1>3, <1>4 DEF HistoryKeeps
    <2>2. history[Len(history)] = history[Len(history)] /\ Len(history) > 0
      BY DEF IInv, RunsAreNumbered
    <2>3. history'[Len(history')] = history[Len(history)]
      BY <1>2, <1>3, <1>4, <2>1, <2>2
    <2>4. QED
      BY <1>4, <2>3, RecordedKeeps DEF StillValid
  <1>5. \A t, r : Recorded(t, r) => NowRecorded(t, r)
    BY RecordedKeeps
  <1>6. \A r \in StartedRuns : r \in StartedRuns'
    BY RecordedKeeps
  <1>7. /\ Recorded(g.seen, g.run) => NowRecorded(g.seen, g.run)
        /\ Recorded("Cancelled", g.run) => NowRecorded("Cancelled", g.run)
        /\ Recorded("ContinuedAsNew", g.run) => NowRecorded("ContinuedAsNew", g.run)
    BY <1>5
  <1>8. /\ NowRecorded(g.seen, g.run) => Recorded(agent[a].seen, agent[a].run)'
        /\ NowRecorded("Cancelled", g.run) => Recorded("Cancelled", agent[a].run)'
        /\ NowRecorded("ContinuedAsNew", g.run) => Recorded("ContinuedAsNew", agent[a].run)'
    BY DEF NowRecorded, Recorded
  <1>9. QED
    BY <1>1, <1>2, <1>3, <1>4, <1>6, <1>7, <1>8 DEF AgentIsTrue, HistoryKeeps, HandlesKeep

\* Only agent a moves.
Moves(a, g) ==
    /\ agent' \in [Agents -> AgentType] /\ agent'[a] = g
    /\ \A b \in Agents \ {a} : agent'[b] = agent[b]

LEMMA AgentMoves ==
    ASSUME TypeOK, NEW a \in Agents, NEW g \in AgentType, agent' = [agent EXCEPT ![a] = g]
    PROVE  Moves(a, g)
  BY DEF TypeOK, Moves

LEMMA AgentFields ==
    ASSUME TypeOK, NEW a \in Agents
    PROVE  /\ agent[a] \in AgentType
           /\ agent[a] = Agent(agent[a].at, agent[a].op, agent[a].run, agent[a].handle,
                               agent[a].head, agent[a].seen)
           /\ agent[a].op \in Ops \cup {"none", "monitor", "sweep"}
           /\ agent[a].run \in 0 .. MaxRuns /\ agent[a].handle \in {0} \cup Handles
           /\ agent[a].head \in Nat /\ agent[a].seen \in Terminals \cup {"None"}
  BY DEF TypeOK, AgentType, Agent

Steps == {"idle", "read", "reconcile", "check", "head", "start", "publish", "done", "record",
          "kill", "deregister", "hold", "release", "evict", "append", "respawn", "query"}

LEMMA AgentIsTyped ==
    ASSUME NEW at \in Steps, NEW op \in Ops \cup {"none", "monitor", "sweep"},
           NEW run \in 0 .. MaxRuns, NEW handle \in {0} \cup Handles, NEW head \in Nat,
           NEW seen \in Terminals \cup {"None"}
    PROVE  Agent(at, op, run, handle, head, seen) \in AgentType
  BY DEF Agent, AgentType, Steps

LEMMA IdleIsTyped == Idle \in AgentType /\ Done \in AgentType
  <1>1. 0 \in 0 .. MaxRuns
    BY BoundsAssumption
  <1>2. QED
    BY <1>1 DEF Idle, Done, Agent, AgentType

LEMMA GotoAtMoves ==
    ASSUME TypeOK, NEW a \in Agents, NEW at \in Steps, NEW head \in Nat, GotoAt(a, at, head)
    PROVE  Moves(a, Agent(at, agent[a].op, agent[a].run, agent[a].handle, head, agent[a].seen))
  <1> DEFINE g == Agent(at, agent[a].op, agent[a].run, agent[a].handle, head, agent[a].seen)
  <1>1. g \in AgentType
    BY AgentFields, AgentIsTyped
  <1>2. agent' = [agent EXCEPT ![a] = g]
    BY DEF GotoAt, TypeOK
  <1> HIDE DEF g
  <1>3. Moves(a, g)
    BY <1>1, <1>2, AgentMoves
  <1>4. QED
    BY <1>3 DEF g

LEMMA AtChanges ==
    ASSUME NEW g \in AgentType, NEW at
    PROVE  [g EXCEPT !.at = at] = Agent(at, g.op, g.run, g.handle, g.head, g.seen)
  BY DEF Agent, AgentType

LEMMA GotoMoves ==
    ASSUME TypeOK, NEW a \in Agents, NEW at \in Steps, Goto(a, at)
    PROVE  Moves(a, Agent(at, agent[a].op, agent[a].run, agent[a].handle, agent[a].head,
                          agent[a].seen))
  <1> DEFINE g == Agent(at, agent[a].op, agent[a].run, agent[a].handle, agent[a].head,
                        agent[a].seen)
  <1>1. g \in AgentType
    BY AgentFields, AgentIsTyped
  <1>2. [agent[a] EXCEPT !.at = at] = g
    BY AgentFields, AtChanges
  <1>3. agent' = [agent EXCEPT ![a] = [agent[a] EXCEPT !.at = at]]
    BY DEF Goto, TypeOK
  <1> HIDE DEF g
  <1>4. Moves(a, g)
    BY <1>1, <1>2, <1>3, AgentMoves
  <1>5. QED
    BY <1>4 DEF g

LEMMA FinishMoves ==
    ASSUME TypeOK, NEW a \in Agents, Finish(a)
    PROVE  Moves(a, Idle)
  BY IdleIsTyped, AgentMoves DEF Finish

LEMMA AgentsKeep ==
    ASSUME IInv, HistoryKeeps, HandlesKeep, NEW a \in Agents, NEW g, Moves(a, g),
           AgentIsTrue(agent[a])'
    PROVE  AgentsAreTrue'
  <1>1. ASSUME NEW b \in Agents PROVE AgentIsTrue(agent[b])'
    <2>1. CASE b = a
      BY <2>1
    <2>2. CASE b # a
      BY <2>2, AgentKeeps DEF Moves
    <2>3. QED
      BY <2>1, <2>2
  <1>2. QED
    BY <1>1 DEF AgentsAreTrue

\* What a step makes of the registry.
RegistryFine ==
    /\ registry' \in [Runs -> EntryType] /\ index' \in {0} \cup Handles
    /\ RegistryIsTrue'

LEMMA RegistrySame ==
    ASSUME IInv, HandlesKeep, registry' = registry, index' = index
    PROVE  RegistryFine
  BY DEF IInv, TypeOK, RegistryFine, RegistryIsTrue, HandlesKeep

\* Registry::insert of a handle of the run.
LEMMA RegistryInserts ==
    ASSUME IInv, HandlesKeep, NEW run \in Runs, NEW h \in Handles, h \in 1 .. Len(handles'),
           handles'[h].run = run, NEW status \in Terminals \cup {"Running", "Paused"},
           Insert(run, h, status)
    PROVE  RegistryFine
  <1>1. /\ registry \in [Runs -> EntryType]
        /\ \A r \in Runs : registry[r].handle # 0 =>
               registry[r].handle \in 1 .. Len(handles') /\ handles'[registry[r].handle].run = r
    BY DEF IInv, TypeOK, RegistryIsTrue, HandlesKeep
  <1>2. Entry(h, status, "Resident") \in EntryType /\ Entry(h, status, "Resident").handle = h
    BY DEF Entry, EntryType
  <1>3. registry' \in [Runs -> EntryType] /\ index' = h
    BY <1>1, <1>2 DEF Insert
  <1>4. ASSUME NEW r \in Runs, registry'[r].handle # 0
        PROVE  registry'[r].handle \in 1 .. Len(handles') /\ handles'[registry'[r].handle].run = r
    <2>1. registry'[r] = IF r = run THEN Entry(h, status, "Resident") ELSE registry[r]
      BY <1>1 DEF Insert
    <2>2. QED
      BY <1>1, <1>2, <1>4, <2>1
  <1>5. index' \in 0 .. Len(handles')
    BY <1>3 DEF HandlesKeep
  <1>6. QED
    BY <1>3, <1>4, <1>5 DEF RegistryFine, RegistryIsTrue

\* Registry::remove.
LEMMA RegistryRemoves ==
    ASSUME IInv, HandlesKeep, NEW run, Remove(run)
    PROVE  RegistryFine
  <1>1. /\ registry \in [Runs -> EntryType] /\ index \in {0} \cup Handles
        /\ \A r \in Runs : registry[r].handle # 0 =>
               registry[r].handle \in 1 .. Len(handles') /\ handles'[registry[r].handle].run = r
        /\ index \in 0 .. Len(handles')
    BY DEF IInv, TypeOK, RegistryIsTrue, HandlesKeep
  <1>2. NoEntry \in EntryType /\ NoEntry.handle = 0
    BY DEF NoEntry, Entry, EntryType
  <1>3. registry' \in [Runs -> EntryType]
    BY <1>1, <1>2 DEF Remove
  <1>4. index' = 0 \/ index' = index
    BY DEF Remove
  <1>5. \A r \in Runs : registry'[r] = registry[r] \/ registry'[r] = NoEntry
    BY <1>1 DEF Remove
  <1>6. 0 \in 0 .. Len(handles')
    BY DEF HandlesKeep
  <1>7. QED
    BY <1>1, <1>2, <1>3, <1>4, <1>5, <1>6 DEF RegistryFine, RegistryIsTrue

-----------------------------------------------------------------------------
(* Handles are enough.                                                     *)

LEMMA AgentsAreFinite ==
    /\ IsFiniteSet(Agents) /\ IsFiniteSet(Callers)
    /\ IsFiniteSet(Publishing) /\ IsFiniteSet(Respawning)
    /\ IsFiniteSet(Publishing') /\ IsFiniteSet(Respawning')
  <1>1. IsFiniteSet(Callers) /\ IsFiniteSet({Sweeper})
    BY AgentsAssumption, FS_Singleton
  <1>2. IsFiniteSet(Handles)
    BY BoundsAssumption, FS_Interval DEF Handles
  <1>3. IsFiniteSet(Callers \cup {Sweeper})
    BY <1>1, FS_Union
  <1>4. IsFiniteSet(Agents)
    BY <1>2, <1>3, FS_Union DEF Agents
  <1>5. /\ Publishing \in SUBSET Agents /\ Publishing' \in SUBSET Agents
        /\ Respawning \in SUBSET Callers /\ Respawning' \in SUBSET Callers
    BY DEF Publishing, Respawning
  <1>6. QED
    BY <1>1, <1>4, <1>5, FS_Subset

CallsRespawn == {"resume", "reopen"}

\* How a step of one agent changes the numbers.
LEMMA Counting ==
    ASSUME NEW a \in Agents, NEW g, Moves(a, g)
    PROVE  /\ Cardinality(Publishing) \in Nat /\ Cardinality(Publishing') \in Nat
           /\ Cardinality(Respawning) \in Nat /\ Cardinality(Respawning') \in Nat
           /\ Cardinality(Publishing') <= Cardinality(Publishing) + 1
           /\ (g.at # "publish" \/ agent[a].at = "publish")
                  => Cardinality(Publishing') <= Cardinality(Publishing)
           /\ g.at # "publish" /\ agent[a].at = "publish"
                  => Cardinality(Publishing') = Cardinality(Publishing) - 1
           /\ Cardinality(Respawning') <= Cardinality(Respawning) + 1
           /\ (g.op \notin CallsRespawn \/ agent[a].op \in CallsRespawn \/ a \notin Callers)
                  => Cardinality(Respawning') <= Cardinality(Respawning)
           /\ a \in Callers /\ g.op \notin CallsRespawn /\ agent[a].op \in CallsRespawn
                  => Cardinality(Respawning') = Cardinality(Respawning) - 1
  <1> USE DEF CallsRespawn
  <1>1. /\ Publishing \ {a} = Publishing' \ {a}
        /\ a \in Publishing <=> agent[a].at = "publish"
        /\ a \in Publishing' <=> g.at = "publish"
    BY DEF Moves, Publishing
  <1>2. Callers \subseteq Agents
    BY DEF Agents
  <1>3. /\ Respawning \ {a} = Respawning' \ {a}
        /\ a \in Respawning <=> a \in Callers /\ agent[a].op \in CallsRespawn
        /\ a \in Respawning' <=> a \in Callers /\ g.op \in CallsRespawn
    BY <1>2 DEF Moves, Respawning
  <1> HIDE DEF CallsRespawn
  <1>4. /\ Cardinality(Publishing) \in Nat /\ Cardinality(Publishing') \in Nat
        /\ Cardinality(Publishing') <= Cardinality(Publishing) + 1
        /\ a \notin Publishing' => Cardinality(Publishing') <= Cardinality(Publishing)
        /\ a \in Publishing => Cardinality(Publishing') <= Cardinality(Publishing)
        /\ a \in Publishing /\ a \notin Publishing'
               => Cardinality(Publishing') = Cardinality(Publishing) - 1
    BY <1>1, AgentsAreFinite, CountOne
  <1>5. /\ Cardinality(Respawning) \in Nat /\ Cardinality(Respawning') \in Nat
        /\ Cardinality(Respawning') <= Cardinality(Respawning) + 1
        /\ a \notin Respawning' => Cardinality(Respawning') <= Cardinality(Respawning)
        /\ a \in Respawning => Cardinality(Respawning') <= Cardinality(Respawning)
        /\ a \in Respawning /\ a \notin Respawning'
               => Cardinality(Respawning') = Cardinality(Respawning) - 1
    BY <1>3, AgentsAreFinite, CountOne
  <1>6. QED
    BY <1>1, <1>3, <1>4, <1>5

LEMMA Numbers ==
    ASSUME IInv
    PROVE  /\ Len(handles) \in Nat /\ Len(history) \in Nat /\ Len(history) > 0
           /\ CurrentRun \in 1 .. MaxRuns /\ CurrentRun \in StartedRuns
           /\ ops \in 0 .. MaxOps /\ crashes \in 0 .. MaxCrashes
           /\ MaxRuns \in Nat /\ MaxOps \in Nat /\ MaxCrashes \in Nat
           /\ StartedRuns \subseteq Runs
  <1>1. history \in Seq(Events) /\ \A i \in 1 .. Len(history) : history[i] \in Events
    BY DEF IInv, TypeOK
  <1>2. StartedRuns \subseteq Runs
    BY <1>1 DEF StartedRuns, Events
  <1>3. PICK s \in 1 .. Len(history) : history[s].run = CurrentRun /\ CurrentRun \in Runs
    BY <1>1, CurrentRunIsLast DEF IInv, IsNumbered, CurrentIsLast
  <1>4. CurrentRun \in StartedRuns /\ CurrentRun \in 1 .. MaxRuns
    BY <1>3 DEF StartedRuns, Runs
  <1>5. QED
    BY <1>2, <1>4, BoundsAssumption DEF IInv, TypeOK, RunsAreNumbered

\* There is a handle left for who is about to make one.
LEMMA RoomForOne ==
    ASSUME IInv, up, Cardinality(Publishing) \in Nat, Cardinality(Respawning) \in Nat,
           Cardinality(Publishing) > 0 \/ Cardinality(Respawning) > 0
    PROVE  Len(handles) + 1 \in Handles
  BY Numbers DEF IInv, HandlesAreEnough, Handles

\* A step that makes no handle and promises none.
LEMMA EnoughKeeps ==
    ASSUME IInv, up, up', NEW a \in Agents, NEW g, Moves(a, g), Len(handles') = Len(handles),
           CurrentRun' = CurrentRun, ops' = ops, crashes' = crashes,
           g.at # "publish" \/ agent[a].at = "publish",
           g.op \notin CallsRespawn \/ agent[a].op \in CallsRespawn \/ a \notin Callers
    PROVE  HandlesAreEnough'
  <1>1. /\ Cardinality(Publishing) \in Nat /\ Cardinality(Publishing') \in Nat
        /\ Cardinality(Respawning) \in Nat /\ Cardinality(Respawning') \in Nat
        /\ Cardinality(Publishing') <= Cardinality(Publishing)
        /\ Cardinality(Respawning') <= Cardinality(Respawning)
    BY Counting
  <1>2. Len(handles) + Cardinality(Publishing) + Cardinality(Respawning)
            <= crashes + ops + CurrentRun
    BY DEF IInv, HandlesAreEnough
  <1>3. Len(handles') + Cardinality(Publishing') + Cardinality(Respawning')
            <= crashes' + ops' + CurrentRun'
    BY <1>1, <1>2, Numbers
  <1>4. QED
    BY <1>3 DEF HandlesAreEnough

HistoryFine ==
    /\ history' \in Seq(Events) /\ HistoryKeeps
    /\ RunsAreNumbered' /\ UnforkedIsLinear'

\* The parts of a step of one agent put together.
LEMMA Assemble ==
    ASSUME IInv, up', NEW a \in Agents, NEW g, Moves(a, g), AgentIsTrue(agent[a])',
           HistoryFine, HandlesFine, RegistryFine, HandlesAreEnough',
           up' \in BOOLEAN, held' \in BOOLEAN, ops' \in 0 .. MaxOps, crashes' \in 0 .. MaxCrashes
    PROVE  IInv'
  <1>1. TypeOK'
    BY DEF TypeOK, Moves, HistoryFine, HandlesFine, RegistryFine
  <1>2. AgentsAreTrue'
    BY AgentsKeep DEF HistoryFine, HandlesFine
  <1>3. DownIsEmpty'
    BY DEF DownIsEmpty
  <1>4. QED
    BY <1>1, <1>2, <1>3 DEF IInv, HistoryFine, HandlesFine, RegistryFine

\* A step of one agent that starts no run, makes no handle and promises none.
LEMMA PlainStep ==
    ASSUME IInv, up, NEW a \in Agents, NEW g, Moves(a, g), AgentIsTrue(agent[a])',
           HistoryFine, CurrentRun' = CurrentRun, HandlesFine, Len(handles') = Len(handles),
           RegistryFine, g.at # "publish" \/ agent[a].at = "publish",
           g.op \notin CallsRespawn \/ agent[a].op \in CallsRespawn \/ a \notin Callers,
           UNCHANGED <<up, ops, crashes>>, held' \in BOOLEAN
    PROVE  IInv'
  <1>1. up' /\ up' \in BOOLEAN /\ ops' \in 0 .. MaxOps /\ crashes' \in 0 .. MaxCrashes
    BY Zenon DEF IInv, TypeOK
  <1>2. HandlesAreEnough'
    BY <1>1, EnoughKeeps
  <1>3. QED
    BY <1>1, <1>2, Assemble

\* The same of a step that writes nothing but the agent's own state, and perhaps the hold.
LEMMA OwnStep ==
    ASSUME IInv, up, NEW a \in Agents, NEW g, Moves(a, g), AgentIsTrue(agent[a])',
           g.at # "publish" \/ agent[a].at = "publish",
           g.op \notin CallsRespawn \/ agent[a].op \in CallsRespawn \/ a \notin Callers,
           UNCHANGED <<history, up, handles, registry, index, ops, crashes>>,
           held' \in BOOLEAN
    PROVE  IInv'
  <1>1. HistoryFine /\ CurrentRun' = CurrentRun
    BY HistorySame DEF HistoryFine
  <1>2. HandlesFine /\ Len(handles') = Len(handles)
    BY <1>1, HandlesSame DEF HistoryFine
  <1>3. RegistryFine
    BY <1>2, RegistrySame DEF HandlesFine
  <1>4. QED
    BY <1>1, <1>2, <1>3, PlainStep

-----------------------------------------------------------------------------
(* The processes.                                                          *)

LEMMA HandleFields ==
    ASSUME TypeOK, NEW h \in 1 .. Len(handles)
    PROVE  /\ handles[h] \in HandleType
           /\ handles[h].run \in Runs /\ handles[h].head \in Nat
           /\ handles[h].proc \in {"alive", "Completed", "Failed", "killed"}
           /\ handles[h].told \in Terminals \cup {"None"}
           /\ DOMAIN handles = 1 .. Len(handles)
  <1>1. handles \in Seq(HandleType)
    BY DEF TypeOK
  <1>2. handles[h] \in HandleType /\ DOMAIN handles = 1 .. Len(handles)
    BY <1>1
  <1>3. QED
    BY <1>2 DEF HandleType

LEMMA HandleIsTyped ==
    ASSUME NEW run \in Runs, NEW head \in Nat,
           NEW proc \in {"alive", "Completed", "Failed", "killed"},
           NEW told \in Terminals \cup {"None"}
    PROVE  /\ Handle(run, head, proc, told) \in HandleType
           /\ Handle(run, head, proc, told).run = run
           /\ Handle(run, head, proc, told).told = told
  BY DEF Handle, HandleType

LEMMA FieldChanges ==
    ASSUME NEW k \in HandleType, NEW v
    PROVE  /\ [k EXCEPT !.proc = v] = Handle(k.run, k.head, v, k.told)
           /\ [k EXCEPT !.head = v] = Handle(k.run, v, k.proc, k.told)
           /\ [k EXCEPT !.told = v] = Handle(k.run, k.head, k.proc, v)
  BY DEF Handle, HandleType

LEMMA AgentStays ==
    ASSUME TypeOK, NEW a \in Agents, agent' = agent
    PROVE  Moves(a, agent[a])
  BY DEF TypeOK, Moves

LEMMA ExitsStep ==
    ASSUME IInv, NEW h \in Handles, NEW why \in {"Completed", "Failed"}, ProcessExits(h, why)
    PROVE  IInv'
  <1> DEFINE k == handles[h]
             K == Handle(k.run, k.head, why, k.told)
  <1>0. TypeOK /\ h \in Agents /\ up
    BY DEF IInv, Agents, ProcessExits, Alive
  <1>1. h \in 1 .. Len(handles)
    <2>1. handles \in Seq(HandleType) /\ h \in DOMAIN handles
      BY <1>0 DEF TypeOK, ProcessExits, Alive
    <2>2. QED
      BY <2>1
  <1>2. HistoryFine /\ CurrentRun' = CurrentRun
    BY HistorySame DEF HistoryFine, ProcessExits
  <1>3. k \in HandleType /\ K \in HandleType /\ K.run = k.run /\ K.told = k.told
    BY <1>0, <1>1, HandleFields, HandleIsTyped
  <1>4. handles' = [handles EXCEPT ![h] = K]
    <2>1. handles' = [handles EXCEPT ![h] = [k EXCEPT !.proc = why]]
      BY DEF ProcessExits
    <2>2. [k EXCEPT !.proc = why] = K
      BY <1>3, FieldChanges
    <2>3. QED
      BY <2>1, <2>2
  <1> HIDE DEF K
  <1>5. HandlesFine /\ Len(handles') = Len(handles)
    BY <1>1, <1>2, <1>3, <1>4, HandleChanges DEF HistoryFine
  <1>6. RegistryFine
    BY <1>5, RegistrySame DEF ProcessExits, HandlesFine
  <1>7. Moves(h, agent[h]) /\ agent'[h] = agent[h]
    BY <1>0, AgentStays DEF ProcessExits
  <1>8. AgentIsTrue(agent[h])'
    BY <1>0, <1>2, <1>5, <1>7, AgentKeeps DEF HistoryFine, HandlesFine
  <1>9. UNCHANGED <<up, ops, crashes>> /\ held' \in BOOLEAN
    BY <1>0, Zenon DEF TypeOK, ProcessExits
  <1>10. QED
    BY <1>0, <1>2, <1>5, <1>6, <1>7, <1>8, <1>9, PlainStep

\* A writer that finds no terminal in its run's segment may record one.
LEMMA TerminalFollows ==
    ASSUME IInv, NEW q \in StartedRuns, current_lease_terminal(q) = "None",
           NEW t \in Terminals
    PROVE  /\ Event(t, q, 0) \in Events /\ Event(t, q, 0).run = q
           /\ Event(t, q, 0).type = t /\ t # "Started"
           /\ OneSuccessor => Follows(history[Len(history)], Event(t, q, 0))
  <1>1. q \in Runs /\ 0 \in 0 .. MaxRuns
    BY Numbers
  <1>2. /\ Event(t, q, 0) \in Events /\ Event(t, q, 0).run = q
        /\ Event(t, q, 0).type = t /\ t \notin {"Started", "Reopened", "Paused", "Resumed"}
    BY <1>1 DEF Event, Events, Terminals
  <1>3. OneSuccessor => /\ history[Len(history)].run = q
                        /\ history[Len(history)].type \notin Terminals
    BY SegmentTells DEF IInv, TypeOK, UnforkedIsLinear
  <1>4. QED
    BY <1>2, <1>3 DEF Follows

\* What recording such an event does to the history.
LEMMA HistoryRecords ==
    ASSUME IInv, NEW t, NEW q \in StartedRuns, Event(t, q, 0) \in Events, t # "Started",
           Event(t, q, 0).run = q, Event(t, q, 0).type = t,
           OneSuccessor => Follows(history[Len(history)], Event(t, q, 0)),
           history' = Append(history, Event(t, q, 0))
    PROVE  /\ HistoryFine /\ CurrentRun' = CurrentRun /\ Len(history') = Len(history) + 1
           /\ NowRecorded(t, q)
  <1> DEFINE e == Event(t, q, 0)
  <1>1. history \in Seq(Events) /\ e \in Events
    BY DEF IInv, TypeOK
  <1>2. Grows(e)
    BY <1>1, AppendGrows
  <1>3. HistoryKeeps
    BY <1>1, <1>2 DEF Grows, HistoryKeeps
  <1>4. OneSuccessor' => Follows(history[Len(history)], e)
    BY <1>3, RecordedKeeps
  <1> HIDE DEF e
  <1>5. e.type = t /\ e.run = q
    BY DEF e
  <1>6. QED
    BY <1>1, <1>2, <1>4, <1>5, HistoryGrows DEF HistoryFine

\* The continue_as_new NIF.
LEMMA NifStep ==
    ASSUME IInv, NEW h \in Handles, NifContinueAsNew(h)
    PROVE  IInv'
  <1> DEFINE k == handles[h]
             K == Handle(k.run, Len(history) + 1, "killed", k.told)
  <1>0. TypeOK /\ h \in Agents /\ up
    BY DEF IInv, Agents, NifContinueAsNew, Alive
  <1>1. h \in 1 .. Len(handles)
    <2>1. handles \in Seq(HandleType) /\ h \in DOMAIN handles
      BY <1>0 DEF TypeOK, NifContinueAsNew, Alive
    <2>2. QED
      BY <2>1
  <1>2. k.run \in StartedRuns /\ Len(history) + 1 \in Nat
    BY <1>1, Numbers DEF IInv, HandlesAreStarted
  <1>3. HistoryFine /\ CurrentRun' = CurrentRun
    <2>1. "ContinuedAsNew" \in Terminals
      BY DEF Terminals
    <2>2. /\ current_lease_terminal(k.run) = "None"
          /\ history' = Append(history, Event("ContinuedAsNew", k.run, 0))
      BY DEF NifContinueAsNew
    <2>3. QED
      BY <1>2, <2>1, <2>2, TerminalFollows, HistoryRecords
  <1>4. K \in HandleType /\ K.run = k.run /\ K.told = k.told
    BY <1>0, <1>1, <1>2, HandleFields, HandleIsTyped
  <1>5. handles' = [handles EXCEPT ![h] = K]
    BY DEF NifContinueAsNew
  <1> HIDE DEF K
  <1>6. HandlesFine /\ Len(handles') = Len(handles)
    BY <1>1, <1>3, <1>4, <1>5, HandleChanges DEF HistoryFine
  <1>7. RegistryFine
    BY <1>6, RegistrySame DEF NifContinueAsNew, HandlesFine
  <1>8. Moves(h, agent[h]) /\ agent'[h] = agent[h]
    BY <1>0, AgentStays DEF NifContinueAsNew
  <1>9. AgentIsTrue(agent[h])'
    BY <1>0, <1>3, <1>6, <1>8, AgentKeeps DEF HistoryFine, HandlesFine
  <1>10. UNCHANGED <<up, ops, crashes>> /\ held' \in BOOLEAN
    BY <1>0, Zenon DEF TypeOK, NifContinueAsNew
  <1>11. QED
    BY <1>0, <1>3, <1>6, <1>7, <1>8, <1>9, <1>10, PlainStep

-----------------------------------------------------------------------------
(* The exit monitors.                                                      *)

LEMMA IdleIsTrue ==
    ASSUME HistoryKeeps, NEW a \in Agents, agent'[a] = Idle \/ agent'[a] = Done
    PROVE  AgentIsTrue(agent[a])'
  <1>1. agent'[a] = Agent("idle", "none", 0, 0, 0, "None")
            \/ agent'[a] = Agent("done", "none", 0, 0, 0, "None")
    BY DEF Idle, Done
  <1>2. QED
    BY <1>1 DEF AgentIsTrue, OpsAt, Agent, HistoryKeeps, AllOps

LEMMA NowIsRecorded ==
    ASSUME NEW a \in Agents
    PROVE  /\ NowRecorded(agent'[a].seen, agent'[a].run) => Recorded(agent[a].seen, agent[a].run)'
           /\ NowRecorded("Cancelled", agent'[a].run) => Recorded("Cancelled", agent[a].run)'
           /\ NowRecorded("ContinuedAsNew", agent'[a].run)
                  => Recorded("ContinuedAsNew", agent[a].run)'
  BY DEF NowRecorded, Recorded

\* Where the monitor is after it has recorded, or found, the terminal.
LEMMA MonitorReadsOn ==
    ASSUME IInv, HistoryFine, CurrentRun' = CurrentRun, NEW h \in Handles,
           h \in 1 .. Len(handles), up, NEW seen \in Terminals, NEW K \in HandleType,
           handles' = [handles EXCEPT ![h] = K], K.run = handles[h].run, K.told = seen,
           NowRecorded(seen, handles[h].run),
           agent' = [agent EXCEPT ![h] = Agent("read", "monitor", handles[h].run, h, 0, seen)],
           UNCHANGED <<up, registry, index, held, ops, crashes>>
    PROVE  IInv'
  <1> DEFINE run == handles[h].run
             g == Agent("read", "monitor", run, h, 0, seen)
  <1>0. TypeOK /\ h \in Agents /\ seen # "None"
    BY DEF IInv, Agents, Terminals
  <1>1. HandlesFine /\ Len(handles') = Len(handles) /\ handles'[h].run = run
    BY HandleChanges DEF HistoryFine, HandlesFine, HandlesKeep
  <1>2. RegistryFine
    BY <1>1, RegistrySame DEF HandlesFine
  <1>3. g \in AgentType
    <2>1. run \in Runs /\ Runs \subseteq 0 .. MaxRuns /\ "read" \in Steps
      BY <1>0, HandleFields DEF Runs, Steps
    <2>2. QED
      BY <2>1, AgentIsTyped
  <1>4. Moves(h, g) /\ agent'[h] = g
    BY <1>0, <1>3, AgentMoves DEF Moves
  <1>5. /\ g.at = "read" /\ g.op = "monitor" /\ g.run = run /\ g.handle = h /\ g.head = 0
        /\ g.seen = seen
    BY DEF Agent
  <1>6. AgentIsTrue(agent[h])'
    <2>1. Recorded(agent[h].seen, agent[h].run)'
      BY <1>0, <1>4, <1>5, NowIsRecorded
    <2>2. QED
      BY <1>0, <1>1, <1>4, <1>5, <2>1
         DEF AgentIsTrue, OpsAt, HistoryFine, HistoryKeeps, AllOps
  <1>7. g.op \notin CallsRespawn /\ held' \in BOOLEAN
    BY <1>0, <1>5 DEF CallsRespawn, TypeOK
  <1> HIDE DEF g
  <1>8. QED
    BY <1>0, <1>1, <1>2, <1>4, <1>5, <1>6, <1>7, PlainStep

LEMMA MonitorRecordsStep ==
    ASSUME IInv, NEW h \in Handles, MonitorRecords(h)
    PROVE  IInv'
  <1> DEFINE k == handles[h]
             existing == current_lease_terminal(k.run)
             end == ExitRecord(h)
  <1>0. TypeOK /\ h \in Agents /\ up
    BY DEF IInv, Agents, MonitorRecords
  <1>1. h \in 1 .. Len(handles)
    <2>1. handles \in Seq(HandleType) /\ h \in DOMAIN handles
      BY <1>0 DEF TypeOK, MonitorRecords
    <2>2. QED
      BY <2>1
  <1>2. k.run \in StartedRuns /\ k \in HandleType /\ Len(history) + 1 \in Nat
    BY <1>0, <1>1, Numbers, HandleFields DEF IInv, HandlesAreStarted
  <1>3. UNCHANGED <<up, registry, index, held, ops, crashes>>
    BY DEF MonitorRecords
  <1>4. MonitorTerminal(h) = existing
    BY DEF MonitorTerminal
  <1>5. /\ existing \in Terminals \cup {"None"}
        /\ existing # "None" => Recorded(existing, k.run)
    BY <1>2, LeaseTerminalIsRecorded DEF IInv, TypeOK
  <1> HIDE DEF existing
  <1>6. CASE existing # "None"
    <2> DEFINE K == Handle(k.run, k.head, k.proc, existing)
    <2>1. /\ history' = history
          /\ handles' = [handles EXCEPT ![h] = [k EXCEPT !.told = Published(h, existing)]]
          /\ agent' = [agent EXCEPT ![h] = Agent("read", "monitor", k.run, h, 0, existing)]
      BY <1>4, <1>6 DEF MonitorRecords
    <2>2. Published(h, existing) = existing
      BY <1>6 DEF Published
    <2>3. handles' = [handles EXCEPT ![h] = K]
      <3>1. [k EXCEPT !.told = existing] = K
        BY <1>2, FieldChanges
      <3> HIDE DEF K
      <3>2. QED
        BY <2>1, <2>2, <3>1
    <2>4. HistoryFine /\ CurrentRun' = CurrentRun
      BY <2>1, HistorySame DEF HistoryFine
    <2>5. NowRecorded(existing, k.run) /\ existing \in Terminals
      BY <1>5, <1>6, <2>4, RecordedKeeps DEF HistoryFine
    <2>6. K \in HandleType /\ K.run = k.run /\ K.told = existing
      BY <1>0, <1>1, <2>5, HandleFields, HandleIsTyped
    <2> HIDE DEF K
    <2>7. QED
      BY <1>0, <1>1, <1>3, <2>1, <2>3, <2>4, <2>5, <2>6, MonitorReadsOn
  <1>7. CASE existing = "None" /\ HeadIsCurrent(k.head)
    <2> DEFINE K == Handle(k.run, Len(history) + 1, k.proc, end)
    <2>1. /\ history' = Append(history, Event(end, k.run, 0))
          /\ handles' = [handles EXCEPT ![h] =
                             Handle(k.run, Len(history) + 1, k.proc, Published(h, existing))]
          /\ agent' = [agent EXCEPT ![h] = Agent("read", "monitor", k.run, h, 0, end)]
      BY <1>4, <1>7 DEF MonitorRecords
    <2>2. Published(h, existing) = end /\ end \in Terminals
      BY <1>7 DEF Published, ExitRecord, Terminals
    <2> HIDE DEF end
    <2>3. handles' = [handles EXCEPT ![h] = K]
      BY <2>1, <2>2
    <2>4. HistoryFine /\ CurrentRun' = CurrentRun /\ NowRecorded(end, k.run)
      BY <1>2, <1>7, <2>1, <2>2, TerminalFollows, HistoryRecords DEF existing
    <2>5. K \in HandleType /\ K.run = k.run /\ K.told = end
      BY <1>0, <1>1, <1>2, <2>2, HandleFields, HandleIsTyped
    <2> HIDE DEF K
    <2>6. QED
      BY <1>0, <1>1, <1>3, <2>1, <2>2, <2>3, <2>4, <2>5, MonitorReadsOn
  <1>8. CASE existing = "None" /\ ~HeadIsCurrent(k.head)
    <2>1. history' = history /\ handles' = handles /\ agent' = [agent EXCEPT ![h] = Done]
      BY <1>4, <1>8 DEF MonitorRecords
    <2>2. Moves(h, Done) /\ agent'[h] = Done
      BY <1>0, <2>1, IdleIsTyped, AgentMoves DEF Moves
    <2>3. HistoryKeeps
      BY <2>1, HistorySame
    <2>4. AgentIsTrue(agent[h])'
      BY <1>0, <2>2, <2>3, IdleIsTrue
    <2>5. Done.at # "publish" /\ Done.op \notin CallsRespawn
      BY DEF Done, Agent, CallsRespawn
    <2>6. held' \in BOOLEAN
      BY <1>0, <1>3 DEF TypeOK
    <2>7. QED
      BY <1>0, <1>3, <2>1, <2>2, <2>4, <2>5, <2>6, OwnStep
  <1>9. QED
    BY <1>6, <1>7, <1>8

\* A monitor, or a start, that moves on at its own head.
LEMMA MonitorReadsStep ==
    ASSUME IInv, NEW h \in Handles, MonitorReads(h)
    PROVE  IInv'
  <1> DEFINE o == agent[h]
             g == Agent("reconcile", o.op, o.run, o.handle, Len(history), o.seen)
  <1>0. /\ TypeOK /\ h \in Agents /\ up /\ o.at = "read" /\ AgentIsTrue(o) /\ o \in AgentType
        /\ Len(history) \in Nat /\ Len(history) > 0 /\ "reconcile" \in Steps
    BY AgentFields, Numbers DEF IInv, Agents, MonitorReads, AgentsAreTrue, Steps
  <1>1. UNCHANGED <<history, up, handles, registry, index, ops, crashes>> /\ held' \in BOOLEAN
    BY <1>0 DEF MonitorReads, TypeOK
  <1>2. Moves(h, g) /\ agent'[h] = g
    BY <1>0, GotoAtMoves DEF MonitorReads, Moves
  <1>3. /\ g.at = "reconcile" /\ g.op = o.op /\ g.run = o.run /\ g.handle = o.handle
        /\ g.head = Len(history) /\ g.seen = o.seen
    BY DEF Agent
  <1> HIDE DEF g
  <1>4. AgentIsTrue(agent[h])'
    <2>1. Recorded(agent[h].seen, agent[h].run)'
      <3>1. Recorded(o.seen, o.run) /\ HistoryKeeps
        BY <1>0, <1>1, HistorySame DEF AgentIsTrue
      <3>2. QED
        BY <1>0, <1>2, <1>3, <3>1, RecordedKeeps, NowIsRecorded
    <2>2. QED
      BY <1>0, <1>1, <1>2, <1>3, <2>1 DEF AgentIsTrue, OpsAt, AllOps
  <1>5. g.op \notin CallsRespawn
    BY <1>0, <1>3 DEF AgentIsTrue, OpsAt, CallsRespawn
  <1>6. QED
    BY <1>0, <1>1, <1>2, <1>3, <1>4, <1>5, OwnStep

LEMMA MonitorChecksStep ==
    ASSUME IInv, NEW h \in Handles, MonitorChecks(h)
    PROVE  IInv'
  <1> DEFINE o == agent[h]
             g == Agent("head", o.op, o.run, o.handle, o.head, o.seen)
  <1>0. /\ TypeOK /\ h \in Agents /\ up /\ o.at = "check" /\ AgentIsTrue(o) /\ o \in AgentType
        /\ "head" \in Steps
    BY AgentFields DEF IInv, Agents, MonitorChecks, AgentsAreTrue, Steps
  <1>1. UNCHANGED <<history, up, handles, registry, index, ops, crashes>> /\ held' \in BOOLEAN
    BY <1>0 DEF MonitorChecks, TypeOK
  <1>2. HistoryKeeps
    BY <1>1, HistorySame
  <1>3. CASE already_started(o.run)
    <2>1. Moves(h, Done) /\ agent'[h] = Done
      BY <1>0, <1>3, IdleIsTyped, AgentMoves DEF MonitorChecks, Moves
    <2>2. Done.at # "publish" /\ Done.op \notin CallsRespawn
      BY DEF Done, Agent, CallsRespawn
    <2>3. QED
      BY <1>0, <1>1, <1>2, <2>1, <2>2, IdleIsTrue, OwnStep
  <1>4. CASE ~already_started(o.run)
    <2>1. Moves(h, g) /\ agent'[h] = g
      BY <1>0, <1>4, GotoMoves DEF MonitorChecks, Moves
    <2>2. /\ g.at = "head" /\ g.op = o.op /\ g.run = o.run /\ g.handle = o.handle
          /\ g.head = o.head /\ g.seen = o.seen
      BY DEF Agent
    <2> HIDE DEF g
    <2>3. AgentIsTrue(agent[h])'
      <3>1. Recorded("ContinuedAsNew", agent[h].run)'
        <4>1. Recorded("ContinuedAsNew", o.run)
          BY <1>0 DEF AgentIsTrue
        <4>2. QED
          BY <1>0, <1>2, <2>1, <2>2, <4>1, RecordedKeeps, NowIsRecorded
      <3>2. QED
        BY <1>0, <1>1, <2>1, <2>2, <3>1 DEF AgentIsTrue, OpsAt, AllOps
    <2>4. g.op \notin CallsRespawn
      BY <1>0, <2>2 DEF AgentIsTrue, OpsAt, CallsRespawn
    <2>5. QED
      BY <1>0, <1>1, <2>1, <2>2, <2>3, <2>4, OwnStep
  <1>5. QED
    BY <1>3, <1>4

LEMMA StatusIsTyped ==
    ASSUME IInv, NEW i \in 1 .. Len(history)
    PROVE  StatusOf(history[i].type) \in Terminals \cup {"Running", "Paused"}
  <1>1. history[i] \in Events
    BY DEF IInv, TypeOK
  <1>2. QED
    BY <1>1 DEF Events, StatusOf, Resets

LEMMA MonitorReconcilesStep ==
    ASSUME IInv, NEW h \in Handles, MonitorReconciles(h)
    PROVE  IInv'
  <1> DEFINE o == agent[h]
             g == Agent("check", o.op, o.run, o.handle, o.head, o.seen)
             st == StatusOf(history[o.head].type)
  <1>0. /\ TypeOK /\ h \in Agents /\ up /\ o.at = "reconcile" /\ AgentIsTrue(o)
        /\ o \in AgentType /\ "check" \in Steps
    BY AgentFields DEF IInv, Agents, MonitorReconciles, AgentsAreTrue, Steps
  <1>1. UNCHANGED <<history, up, handles, index, ops, crashes>> /\ held' \in BOOLEAN
    BY <1>0 DEF MonitorReconciles, TypeOK
  <1>2. HistoryFine /\ CurrentRun' = CurrentRun
    BY <1>1, HistorySame DEF HistoryFine
  <1>3. HandlesFine /\ Len(handles') = Len(handles)
    BY <1>1, <1>2, HandlesSame DEF HistoryFine
  <1>4. st \in Terminals \cup {"Running", "Paused"}
    <2>1. o.head \in 1 .. Len(history)
      BY <1>0, Numbers, AgentFields DEF AgentIsTrue
    <2>2. QED
      BY <2>1, StatusIsTyped
  <1>5. RegistryFine
    <2>1. registry \in [Runs -> EntryType] /\ index \in {0} \cup Handles /\ RegistryIsTrue
      BY <1>0 DEF TypeOK, IInv
    <2>2. registry' = [registry EXCEPT ![o.run] =
              IF registry[o.run].handle = 0 THEN registry[o.run]
              ELSE Entry(registry[o.run].handle, st, "Suspended")]
      BY DEF MonitorReconciles
    <2> HIDE DEF st
    <2>3. ASSUME NEW r \in Runs
          PROVE  registry'[r] \in EntryType /\ registry'[r].handle = registry[r].handle
      <3>1. CASE r = o.run /\ registry[r].handle # 0
        <4>1. registry'[r] = Entry(registry[r].handle, st, "Suspended")
          BY <2>1, <2>2, <3>1
        <4>2. registry[r].handle \in {0} \cup Handles
          BY <2>1 DEF EntryType
        <4>3. QED
          BY <1>4, <4>1, <4>2 DEF Entry, EntryType
      <3>2. CASE ~(r = o.run /\ registry[r].handle # 0)
        <4>1. registry'[r] = registry[r]
          BY <2>1, <2>2, <3>2
        <4>2. QED
          BY <2>1, <4>1
      <3>3. QED
        BY <3>1, <3>2
    <2>4. registry' \in [Runs -> EntryType]
      <3>1. DOMAIN registry' = Runs /\ registry' = [r \in Runs |-> registry'[r]]
        BY <2>1, <2>2
      <3>2. QED
        BY <2>3, <3>1
    <2>5. RegistryIsTrue'
      BY <1>1, <2>1, <2>3 DEF RegistryIsTrue
    <2>6. QED
      BY <1>1, <2>1, <2>4, <2>5 DEF RegistryFine
  <1>6. CASE o.seen # "ContinuedAsNew"
    <2>1. Moves(h, Done) /\ agent'[h] = Done
      BY <1>0, <1>6, IdleIsTyped, AgentMoves DEF MonitorReconciles, Moves
    <2>2. Done.at # "publish" /\ Done.op \notin CallsRespawn
      BY DEF Done, Agent, CallsRespawn
    <2>3. AgentIsTrue(agent[h])'
      BY <1>0, <1>2, <2>1, IdleIsTrue DEF HistoryFine
    <2>4. QED
      BY <1>0, <1>1, <1>2, <1>3, <1>5, <2>1, <2>2, <2>3, PlainStep
  <1>7. CASE o.seen = "ContinuedAsNew"
    <2>1. Moves(h, g) /\ agent'[h] = g
      BY <1>0, <1>7, GotoMoves DEF MonitorReconciles, Moves
    <2>2. /\ g.at = "check" /\ g.op = o.op /\ g.run = o.run /\ g.handle = o.handle
          /\ g.head = o.head /\ g.seen = o.seen
      BY DEF Agent
    <2> HIDE DEF g
    <2>3. AgentIsTrue(agent[h])'
      <3>1. Recorded(agent[h].seen, agent[h].run)'
        <4>1. Recorded(o.seen, o.run)
          BY <1>0 DEF AgentIsTrue
        <4>2. QED
          BY <1>0, <1>2, <2>1, <2>2, <4>1, RecordedKeeps, NowIsRecorded DEF HistoryFine
      <3>2. QED
        BY <1>0, <1>1, <1>7, <2>1, <2>2, <3>1 DEF AgentIsTrue, OpsAt, AllOps
    <2>4. g.op \notin CallsRespawn
      BY <1>0, <2>2 DEF AgentIsTrue, OpsAt, CallsRespawn
    <2>5. QED
      BY <1>0, <1>1, <1>2, <1>3, <1>5, <2>1, <2>2, <2>3, <2>4, PlainStep
  <1>8. QED
    BY <1>6, <1>7

-----------------------------------------------------------------------------
(* Starting a successor.                                                   *)

LEMMA StartReadsStep ==
    ASSUME IInv, NEW a \in Agents, StartReadsHead(a)
    PROVE  IInv'
  <1> DEFINE o == agent[a]
             g == Agent("start", o.op, o.run, o.handle, Len(history), o.seen)
  <1>0. /\ TypeOK /\ up /\ o.at = "head" /\ AgentIsTrue(o) /\ o \in AgentType
        /\ Len(history) \in Nat /\ "start" \in Steps
    BY AgentFields, Numbers DEF IInv, StartReadsHead, AgentsAreTrue, Steps
  <1>1. UNCHANGED <<history, up, handles, registry, index, ops, crashes>> /\ held' \in BOOLEAN
    BY <1>0 DEF StartReadsHead, TypeOK
  <1>2. Moves(a, g) /\ agent'[a] = g
    BY <1>0, GotoAtMoves DEF StartReadsHead, Moves
  <1>3. /\ g.at = "start" /\ g.op = o.op /\ g.run = o.run /\ g.handle = o.handle
        /\ g.head = Len(history) /\ g.seen = o.seen
    BY DEF Agent
  <1> HIDE DEF g
  <1>4. HistoryKeeps /\ \A r \in StartedRuns : r \in StartedRuns'
    BY <1>1, HistorySame, RecordedKeeps
  <1>5. AgentIsTrue(agent[a])'
    <2>1. Recorded("ContinuedAsNew", agent[a].run)'
      <3>1. Recorded("ContinuedAsNew", o.run)
        BY <1>0 DEF AgentIsTrue
      <3>2. QED
        BY <1>0, <1>2, <1>3, <1>4, <3>1, RecordedKeeps, NowIsRecorded
    <2>2. QED
      BY <1>0, <1>1, <1>2, <1>3, <1>4, <2>1 DEF AgentIsTrue, OpsAt
  <1>6. g.op \notin CallsRespawn
    BY <1>0, <1>3 DEF AgentIsTrue, OpsAt, CallsRespawn
  <1>7. QED
    BY <1>0, <1>1, <1>2, <1>3, <1>5, <1>6, OwnStep

\* A start for a run that has continued follows the ContinuedAsNew at the end of the history,
\* or the run has a successor already.
LEMMA SuccessorFollows ==
    ASSUME IInv, NEW p, Recorded("ContinuedAsNew", p), NEW e \in Events,
           e.type = "Started", e.parent = p, Grows(e), OneSuccessor'
    PROVE  Follows(history[Len(history)], e)
  <1> DEFINE n == Len(history)
  <1>1. history \in Seq(Events) /\ n \in Nat
    BY DEF IInv, TypeOK
  <1>2. HistoryKeeps
    BY <1>1 DEF Grows, HistoryKeeps
  <1>3. OneSuccessor /\ ChainIsLinear
    BY <1>2, RecordedKeeps DEF IInv, UnforkedIsLinear
  <1>4. PICK i \in 1 .. n : history[i].type = "ContinuedAsNew" /\ history[i].run = p
    BY <1>3 DEF Recorded
  <1>5. CASE i = n
    BY <1>4, <1>5 DEF Follows, Terminals
  <1>6. CASE i < n
    <2>1. i + 1 \in 2 .. n /\ (i + 1) - 1 = i /\ i + 1 \in 1 .. n /\ history[i + 1] \in Events
      BY <1>1, <1>6
    <2>2. Follows(history[i], history[i + 1])
      BY <1>3, <2>1 DEF ChainIsLinear
    <2>3. history[i + 1].type = "Started" /\ history[i + 1].parent = p
      BY <1>4, <2>1, <2>2 DEF Follows, Events, Terminals, Resets, StatusOf
    <2>4. /\ history'[i + 1] = history[i + 1] /\ history'[n + 1] = e
          /\ Len(history') = n + 1 /\ i + 1 \in 1 .. n + 1 /\ n + 1 \in 1 .. n + 1
      BY <1>1, <2>1 DEF Grows
    <2>5. i + 1 = n + 1
      BY <2>3, <2>4 DEF OneSuccessor
    <2>6. QED
      BY <1>1, <1>6, <2>5
  <1>7. QED
    BY <1>1, <1>5, <1>6

\* An agent that is done, or that has only the end of its continue left to do.
LEMMA EndMoves ==
    ASSUME IInv, HistoryKeeps, NEW a \in Agents, NEW d \in {Idle, Done},
           agent' = [agent EXCEPT ![a] = d]
    PROVE  /\ Moves(a, d) /\ AgentIsTrue(agent[a])'
           /\ d.at # "publish" /\ d.op \notin CallsRespawn
  <1>1. Moves(a, d) /\ agent'[a] = d
    BY IdleIsTyped, AgentMoves DEF Moves, IInv
  <1>2. d.at # "publish" /\ d.op \notin CallsRespawn
    BY DEF Idle, Done, Agent, CallsRespawn
  <1>3. QED
    BY <1>1, <1>2, IdleIsTrue

LEMMA DeregisterMoves ==
    ASSUME IInv, HistoryKeeps, HandlesKeep, NEW a \in Agents, agent[a].at = "publish",
           agent[a].op = "continue",
           agent' = [agent EXCEPT ![a] = [agent[a] EXCEPT !.at = "deregister"]]
    PROVE  \E g : /\ Moves(a, g) /\ AgentIsTrue(agent[a])'
                  /\ g.at # "publish" /\ g.op \notin CallsRespawn
  <1> DEFINE o == agent[a]
             g == Agent("deregister", o.op, o.run, o.handle, o.head, o.seen)
  <1>0. TypeOK /\ AgentIsTrue(o) /\ o \in AgentType /\ "deregister" \in Steps
    BY AgentFields DEF IInv, AgentsAreTrue, Steps
  <1>1. [o EXCEPT !.at = "deregister"] = g
    BY <1>0, AtChanges
  <1>2. g \in AgentType
    BY <1>0, AgentFields, AgentIsTyped
  <1>3. /\ g.at = "deregister" /\ g.op = o.op /\ g.run = o.run /\ g.handle = o.handle
        /\ g.head = o.head /\ g.seen = o.seen
    BY DEF Agent
  <1> HIDE DEF g
  <1>4. Moves(a, g) /\ agent'[a] = g
    BY <1>0, <1>1, <1>2, AgentMoves DEF Moves
  <1>5. Recorded("ContinuedAsNew", agent[a].run)'
    <2>1. Recorded("ContinuedAsNew", o.run)
      BY <1>0 DEF AgentIsTrue
    <2>2. QED
      BY <1>0, <1>3, <1>4, <2>1, RecordedKeeps, NowIsRecorded
  <1>6. o.head <= Len(history')
    BY <1>0, AgentFields DEF AgentIsTrue, HistoryKeeps
  <1>7. /\ o.handle # 0 /\ o.handle \in 1 .. Len(handles')
        /\ handles'[o.handle].run = o.run /\ o.run \in StartedRuns'
    BY <1>0, RecordedKeeps DEF AgentIsTrue, HandlesKeep, AllOps
  <1>8. AgentIsTrue(agent[a])'
    BY <1>3, <1>4, <1>5, <1>6, <1>7 DEF AgentIsTrue, OpsAt
  <1>9. g.op \notin CallsRespawn
    BY <1>3 DEF CallsRespawn
  <1>10. QED
    BY <1>3, <1>4, <1>8, <1>9

LEMMA StartAppendsStep ==
    ASSUME IInv, NEW a \in Agents, StartAppends(a)
    PROVE  IInv'
  <1> DEFINE o == agent[a]
             e == Event("Started", NextRun, o.run)
             g == Agent("publish", o.op, o.run, o.handle, Len(history) + 1, o.seen)
  <1>0. /\ TypeOK /\ up /\ o.at = "start" /\ AgentIsTrue(o) /\ o \in AgentType
        /\ Len(history) \in Nat /\ "publish" \in Steps
    BY AgentFields, Numbers DEF IInv, StartAppends, AgentsAreTrue, Steps
  <1>1. UNCHANGED <<up, handles, registry, index, ops, crashes>> /\ held' \in BOOLEAN
    BY <1>0 DEF StartAppends, TypeOK
  <1>2. CASE ~HeadIsCurrent(o.head)
    <2>1. /\ UNCHANGED <<history, up, handles, registry, index, ops, crashes>>
          /\ agent' = [agent EXCEPT ![a] = AfterStart(a, FALSE)]
      BY <1>1, <1>2 DEF StartAppends
    <2>2. PICK d \in {Idle, Done} : agent' = [agent EXCEPT ![a] = d]
      BY <2>1 DEF AfterStart
    <2>3. HistoryKeeps
      BY <2>1, HistorySame
    <2>4. QED
      BY <1>0, <1>1, <2>1, <2>2, <2>3, EndMoves, OwnStep
  <1>3. CASE HeadIsCurrent(o.head)
    <2>1. /\ NextRun <= MaxRuns /\ history' = Append(history, e)
          /\ GotoAt(a, "publish", Len(history) + 1)
      BY <1>3 DEF StartAppends
    <2>2. CurrentRun \in 1 .. MaxRuns /\ NextRun = CurrentRun + 1 /\ NextRun \in Runs
      BY <2>1, Numbers DEF NextRun, Runs
    <2>3. e \in Events /\ e.type = "Started" /\ e.run = NextRun /\ e.parent = o.run
      BY <1>0, <2>2, AgentFields DEF Event, Events, Resets
    <2>4. Grows(e)
      BY <1>0, <2>1, <2>3, AppendGrows DEF TypeOK
    <2>5. Recorded("ContinuedAsNew", o.run)
      BY <1>0 DEF AgentIsTrue
    <2> HIDE DEF e
    <2>6. OneSuccessor' => Follows(history[Len(history)], e)
      BY <2>3, <2>4, <2>5, SuccessorFollows
    <2>7. HistoryFine /\ CurrentRun' = CurrentRun + 1 /\ Len(history') = Len(history) + 1
      BY <2>2, <2>3, <2>4, <2>6, HistoryGrows DEF HistoryFine
    <2>8. HandlesFine /\ Len(handles') = Len(handles)
      BY <1>1, <2>7, HandlesSame DEF HistoryFine
    <2>9. RegistryFine
      BY <1>1, <2>8, RegistrySame DEF HandlesFine
    <2>10. Moves(a, g) /\ agent'[a] = g
      BY <1>0, <2>1, GotoAtMoves DEF Moves
    <2>11. /\ g.at = "publish" /\ g.op = o.op /\ g.run = o.run /\ g.handle = o.handle
           /\ g.head = Len(history) + 1 /\ g.seen = o.seen
      BY DEF Agent
    <2> HIDE DEF g
    <2>12. AgentIsTrue(agent[a])'
      <3>1. Recorded("ContinuedAsNew", agent[a].run)'
        BY <1>0, <2>5, <2>7, <2>10, <2>11, RecordedKeeps, NowIsRecorded DEF HistoryFine
      <3>2. \A r \in StartedRuns : r \in StartedRuns'
        BY <2>7, RecordedKeeps DEF HistoryFine
      <3>3. QED
        BY <1>0, <1>1, <2>7, <2>10, <2>11, <3>1, <3>2 DEF AgentIsTrue, OpsAt
    <2>13. up' /\ up' \in BOOLEAN /\ ops' \in 0 .. MaxOps /\ crashes' \in 0 .. MaxCrashes
      BY <1>0, <1>1, Zenon DEF TypeOK
    <2>14. HandlesAreEnough'
      <3>1. g.op \notin CallsRespawn
        BY <1>0, <2>11 DEF AgentIsTrue, OpsAt, CallsRespawn
      <3>2. /\ Cardinality(Publishing) \in Nat /\ Cardinality(Publishing') \in Nat
            /\ Cardinality(Respawning) \in Nat /\ Cardinality(Respawning') \in Nat
            /\ Cardinality(Publishing') <= Cardinality(Publishing) + 1
            /\ Cardinality(Respawning') <= Cardinality(Respawning)
        BY <2>10, <3>1, Counting
      <3>3. Len(handles) + Cardinality(Publishing) + Cardinality(Respawning)
                <= crashes + ops + CurrentRun
        BY <1>0 DEF IInv, HandlesAreEnough
      <3>4. /\ Len(handles') = Len(handles) /\ CurrentRun' = CurrentRun + 1
            /\ ops' = ops /\ crashes' = crashes
        BY <1>1, <2>7, <2>8
      <3>a. Len(handles) \in Nat /\ CurrentRun \in Nat /\ ops \in Nat /\ crashes \in Nat
        BY Numbers
      <3>5. Len(handles') + Cardinality(Publishing') + Cardinality(Respawning')
                <= crashes' + ops' + CurrentRun'
        BY <3>2, <3>3, <3>4, <3>a
      <3>6. QED
        BY <2>13, <3>5 DEF HandlesAreEnough
    <2>15. QED
      BY <1>1, <2>7, <2>8, <2>9, <2>10, <2>12, <2>13, <2>14, Assemble
  <1>4. QED
    BY <1>2, <1>3

LEMMA StartPublishesStep ==
    ASSUME IInv, NEW a \in Agents, StartPublishes(a)
    PROVE  IInv'
  <1> DEFINE o == agent[a]
             r == history[o.head].run
             k == Len(handles) + 1
  <1>0. TypeOK /\ up /\ o.at = "publish" /\ AgentIsTrue(o) /\ o \in AgentType /\ o.head \in Nat
    BY AgentFields DEF IInv, StartPublishes, AgentsAreTrue
  <1>1. /\ UNCHANGED <<history, up, ops, crashes>> /\ held' \in BOOLEAN
        /\ handles' = Append(handles, NewHandle(r, o.head)) /\ Insert(r, k, "Running")
        /\ agent' = [agent EXCEPT ![a] = AfterStart(a, TRUE)]
    BY <1>0 DEF StartPublishes, TypeOK
  <1>2. HistoryFine /\ CurrentRun' = CurrentRun
    BY <1>1, HistorySame DEF HistoryFine
  <1>3. r \in Runs /\ r \in StartedRuns'
    <2>1. o.head \in 1 .. Len(history)
      BY <1>0, Numbers DEF AgentIsTrue
    <2>2. r \in StartedRuns
      BY <2>1 DEF StartedRuns
    <2>3. QED
      BY <1>2, <2>2, Numbers, RecordedKeeps DEF HistoryFine
  <1>4. HandlesFine /\ Len(handles') = k /\ handles'[k].run = r
    BY <1>0, <1>1, <1>2, <1>3, HandleAdds DEF HistoryFine
  <1>5. PICK g : /\ Moves(a, g) /\ AgentIsTrue(agent[a])'
                 /\ g.at # "publish" /\ g.op \notin CallsRespawn
    <2>1. CASE a \in Handles \/ o.op # "continue"
      <3>1. PICK d \in {Idle, Done} : agent' = [agent EXCEPT ![a] = d]
        BY <1>1, <2>1 DEF AfterStart
      <3>2. QED
        BY <1>2, <3>1, EndMoves DEF HistoryFine
    <2>2. CASE ~(a \in Handles) /\ o.op = "continue"
      <3>1. agent' = [agent EXCEPT ![a] = [agent[a] EXCEPT !.at = "deregister"]]
        BY <1>1, <2>2 DEF AfterStart
      <3>2. QED
        BY <1>0, <1>2, <1>4, <2>2, <3>1, DeregisterMoves DEF HistoryFine, HandlesFine
    <2>3. QED
      BY <2>1, <2>2
  <1>6. /\ Cardinality(Publishing) \in Nat /\ Cardinality(Publishing') \in Nat
        /\ Cardinality(Respawning) \in Nat /\ Cardinality(Respawning') \in Nat
        /\ Cardinality(Publishing') = Cardinality(Publishing) - 1
        /\ Cardinality(Respawning') <= Cardinality(Respawning)
    BY <1>0, <1>5, Counting
  <1>7. k \in Handles /\ k \in 1 .. Len(handles')
    <2>1. Cardinality(Publishing) > 0
      BY <1>6
    <2>2. k \in Handles
      BY <1>0, <1>6, <2>1, RoomForOne
    <2>3. QED
      BY <1>4, <2>2, Numbers
  <1>8. RegistryFine
    BY <1>1, <1>3, <1>4, <1>7, RegistryInserts DEF HandlesFine
  <1>9. up' /\ up' \in BOOLEAN /\ ops' \in 0 .. MaxOps /\ crashes' \in 0 .. MaxCrashes
    BY <1>0, <1>1, Zenon DEF TypeOK
  <1>10. HandlesAreEnough'
    <2>1. Len(handles) + Cardinality(Publishing) + Cardinality(Respawning)
              <= crashes + ops + CurrentRun
      BY <1>0 DEF IInv, HandlesAreEnough
    <2>2. /\ Len(handles') = Len(handles) + 1 /\ CurrentRun' = CurrentRun
          /\ ops' = ops /\ crashes' = crashes
      BY <1>1, <1>2, <1>4
    <2>a. Len(handles) \in Nat /\ CurrentRun \in Nat /\ ops \in Nat /\ crashes \in Nat
      BY Numbers
    <2>3. Len(handles') + Cardinality(Publishing') + Cardinality(Respawning')
              <= crashes' + ops' + CurrentRun'
      BY <1>6, <2>1, <2>2, <2>a
    <2>4. QED
      BY <1>9, <2>3 DEF HandlesAreEnough
  <1>11. QED
    BY <1>1, <1>2, <1>4, <1>5, <1>8, <1>9, <1>10, Assemble

-----------------------------------------------------------------------------
(* The engine's API.                                                       *)

\* A pause or a resume that finds its status in the run's segment may be recorded.
LEMMA StatusFollows ==
    ASSUME IInv, NEW q \in StartedRuns, NEW t,
           \/ t = "Paused" /\ SegmentStatus(q) = "Running"
           \/ t = "Resumed" /\ SegmentStatus(q) = "Paused"
    PROVE  /\ Event(t, q, 0) \in Events /\ Event(t, q, 0).run = q
           /\ Event(t, q, 0).type = t /\ t # "Started"
           /\ OneSuccessor => Follows(history[Len(history)], Event(t, q, 0))
  <1>1. q \in Runs /\ 0 \in 0 .. MaxRuns
    BY Numbers
  <1>2. /\ Event(t, q, 0) \in Events /\ Event(t, q, 0).run = q
        /\ Event(t, q, 0).type = t /\ t \notin Terminals \cup Resets
    BY <1>1 DEF Event, Events, Terminals, Resets
  <1>3. OneSuccessor => /\ history[Len(history)].run = q
                        /\ StatusOf(history[Len(history)].type) = SegmentStatus(q)
    BY SegmentTells DEF IInv, TypeOK, UnforkedIsLinear
  <1>4. StatusOf(history[Len(history)].type) = "Paused" <=> history[Len(history)].type = "Paused"
    BY StatusFacts
  <1>5. QED
    BY <1>2, <1>3, <1>4 DEF Follows, Resets

\* A call that moves on at its run and its handle.
LEMMA CallMovesOn ==
    ASSUME IInv, HistoryKeeps, HandlesKeep, NEW c \in Agents,
           NEW at \in {"kill", "hold", "release", "head", "deregister", "respawn"},
           NEW head \in Nat, head <= Len(history'),
           Moves(c, Agent(at, agent[c].op, agent[c].run, agent[c].handle, head, agent[c].seen)),
           agent[c].op \in AllOps, agent[c].op \in OpsAt(at),
           at \in {"kill", "deregister"} /\ agent[c].op = "cancel"
               => NowRecorded("Cancelled", agent[c].run),
           agent[c].op = "continue" => NowRecorded("ContinuedAsNew", agent[c].run)
    PROVE  AgentIsTrue(agent[c])'
  <1> DEFINE o == agent[c]
             g == Agent(at, o.op, o.run, o.handle, head, o.seen)
  <1>1. AgentIsTrue(o)
    BY DEF IInv, AgentsAreTrue
  <1>2. agent'[c] = g
    BY DEF Moves
  <1>3. /\ g.at = at /\ g.op = o.op /\ g.run = o.run /\ g.handle = o.handle
        /\ g.head = head /\ g.seen = o.seen
    BY DEF Agent
  <1> HIDE DEF g
  <1>4. /\ NowRecorded("Cancelled", o.run) => Recorded("Cancelled", agent[c].run)'
        /\ NowRecorded("ContinuedAsNew", o.run) => Recorded("ContinuedAsNew", agent[c].run)'
    BY <1>2, <1>3, NowIsRecorded
  <1>5. o.run \in StartedRuns'
    BY <1>1, RecordedKeeps DEF AgentIsTrue
  <1>6. o.handle # 0 => o.handle \in 1 .. Len(handles') /\ handles'[o.handle].run = o.run
    BY <1>1 DEF AgentIsTrue, HandlesKeep
  <1>7. at = "head" => o.op = "continue"
    BY DEF OpsAt, AllOps
  <1>8. o.op \in {"cancel", "continue", "pause"} => o.handle # 0
    BY <1>1 DEF AgentIsTrue
  <1>9. QED
    BY <1>2, <1>3, <1>4, <1>5, <1>6, <1>7, <1>8 DEF AgentIsTrue

LEMMA BeginStep ==
    ASSUME IInv, NEW c \in Callers, NEW op \in Ops, NEW run \in StartedRuns, Begin(c, op, run)
    PROVE  IInv'
  <1> DEFINE h == registry[run].handle
             at == FirstStep(op, run)
             g == Agent(at, op, run, h, Len(history), "None")
  <1>0. /\ TypeOK /\ up /\ c \in Agents /\ op \in AllOps /\ run \in Runs
        /\ Len(history) \in Nat
    BY OpsAssumption, Numbers DEF IInv, Begin, Agents
  <1>1. /\ UNCHANGED <<history, up, handles, registry, index, crashes>> /\ held' \in BOOLEAN
        /\ ops' = ops + 1 /\ ops < MaxOps /\ Admits(op, run)
        /\ agent' = [agent EXCEPT ![c] = g] /\ agent[c] = Idle
    BY <1>0 DEF Begin, TypeOK
  <1>2. HistoryFine /\ CurrentRun' = CurrentRun
    BY <1>1, HistorySame DEF HistoryFine
  <1>3. HandlesFine /\ Len(handles') = Len(handles)
    BY <1>1, <1>2, HandlesSame DEF HistoryFine
  <1>4. RegistryFine
    BY <1>1, <1>3, RegistrySame DEF HandlesFine
  <1>5. /\ h \in {0} \cup Handles
        /\ h # 0 => h \in 1 .. Len(handles) /\ handles[h].run = run
    BY <1>0 DEF TypeOK, EntryType, IInv, RegistryIsTrue
  <1>6. \/ at = "evict" /\ op = "reopen"
        \/ at = "append" /\ op = "resume"
        \/ at = "record" /\ op \in {"cancel", "pause", "resume", "continue"} /\ h # 0
    BY <1>0, <1>1 DEF FirstStep, Admits, AllOps
  <1>7. op \in {"cancel", "pause", "continue"} => h # 0
    BY <1>1 DEF Admits
  <1>8. StillValid(op, run) \/ op \notin {"reopen", "resume"}
    <2>1. ASSUME OneSuccessor, op = "reopen"
          PROVE  /\ history[Len(history)].run = run
                 /\ history[Len(history)].type \in {"Failed", "Cancelled"}
      <3>1. current_lease_terminal(run) \in {"Failed", "Cancelled"}
        BY <1>1, <2>1 DEF Admits, Reopenable
      <3>2. QED
        BY <2>1, <3>1, SegmentTells DEF IInv, TypeOK, UnforkedIsLinear
    <2>2. ASSUME OneSuccessor, op = "resume"
          PROVE  history[Len(history)].run = run /\ history[Len(history)].type = "Paused"
      <3>1. SegmentStatus(run) = "Paused"
        BY <1>1, <2>2 DEF Admits
      <3>2. /\ history[Len(history)].run = run
            /\ StatusOf(history[Len(history)].type) = "Paused"
        BY <2>2, <3>1, SegmentTells DEF IInv, TypeOK, UnforkedIsLinear
      <3>3. QED
        BY <3>2, StatusFacts
    <2>3. QED
      BY <2>1, <2>2 DEF StillValid
  <1> HIDE DEF at, h
  <1>9. g \in AgentType
    <2>1. at \in Steps /\ run \in 0 .. MaxRuns
      BY <1>0, <1>6 DEF Steps, Runs
    <2>2. QED
      BY <1>0, <1>5, <2>1, AgentIsTyped
  <1>10. /\ g.at = at /\ g.op = op /\ g.run = run /\ g.handle = h
         /\ g.head = Len(history) /\ g.seen = "None"
    BY DEF Agent
  <1> HIDE DEF g
  <1>11. Moves(c, g) /\ agent'[c] = g
    BY <1>0, <1>1, <1>9, AgentMoves DEF Moves
  <1>12. AgentIsTrue(agent[c])'
    <2>1. StillValid(op, run) => StillValid(agent[c].op, agent[c].run)'
      <3>1. OneSuccessor' => OneSuccessor
        BY <1>2, RecordedKeeps DEF HistoryFine
      <3>2. history'[Len(history')] = history[Len(history)]
        BY <1>1
      <3>3. QED
        BY <1>10, <1>11, <3>1, <3>2 DEF StillValid
    <2>2. run \in StartedRuns'
      BY <1>2, RecordedKeeps DEF HistoryFine
    <2>3. h # 0 => h \in 1 .. Len(handles') /\ handles'[h].run = run
      BY <1>1, <1>5
    <2>4. Len(history) <= Len(history')
      BY <1>0, <1>1
    <2>5. op \in OpsAt(at)
      BY <1>6 DEF OpsAt
    <2>6. QED
      BY <1>6, <1>7, <1>8, <1>10, <1>11, <2>1, <2>2, <2>3, <2>4, <2>5 DEF AgentIsTrue
  <1>13. up' /\ up' \in BOOLEAN /\ crashes' \in 0 .. MaxCrashes
    BY <1>0, <1>1, Zenon DEF TypeOK
  <1>14. ops' \in 0 .. MaxOps
    BY <1>1, Numbers
  <1>15. HandlesAreEnough'
    <2>1. /\ Cardinality(Publishing) \in Nat /\ Cardinality(Publishing') \in Nat
          /\ Cardinality(Respawning) \in Nat /\ Cardinality(Respawning') \in Nat
          /\ Cardinality(Publishing') <= Cardinality(Publishing)
          /\ Cardinality(Respawning') <= Cardinality(Respawning) + 1
      BY <1>0, <1>6, <1>10, <1>11, Counting
    <2>2. Len(handles) + Cardinality(Publishing) + Cardinality(Respawning)
              <= crashes + ops + CurrentRun
      BY <1>0 DEF IInv, HandlesAreEnough
    <2>3. /\ Len(handles') = Len(handles) /\ CurrentRun' = CurrentRun
          /\ ops' = ops + 1 /\ crashes' = crashes
      BY <1>1, <1>2, <1>3
    <2>4. Len(handles) \in Nat /\ CurrentRun \in Nat /\ ops \in Nat /\ crashes \in Nat
      BY Numbers
    <2>5. Len(handles') + Cardinality(Publishing') + Cardinality(Respawning')
              <= crashes' + ops' + CurrentRun'
      BY <2>1, <2>2, <2>3, <2>4
    <2>6. QED
      BY <1>13, <2>5 DEF HandlesAreEnough
  <1>16. QED
    BY <1>0, <1>1, <1>2, <1>3, <1>4, <1>11, <1>12, <1>13, <1>14, <1>15, Assemble

\* A call that ends without another write.
LEMMA FinishStep ==
    ASSUME IInv, up, NEW c \in Agents, Finish(c), held' \in BOOLEAN,
           UNCHANGED <<history, up, handles, registry, index, ops, crashes>>
    PROVE  IInv'
  <1>1. HistoryKeeps
    BY HistorySame
  <1>2. agent' = [agent EXCEPT ![c] = Idle]
    BY DEF Finish
  <1>3. QED
    BY <1>1, <1>2, EndMoves, OwnStep

\* The locked section of cancel, pause, resume and continue.
LEMMA CallRecordsStep ==
    ASSUME IInv, NEW c \in Callers, CallRecords(c)
    PROVE  IInv'
  <1> DEFINE o == agent[c]
             h == o.handle
             k == handles[h]
             t == Records(o.op)
             at == AfterRecord(o.op)
             g == Agent(at, o.op, o.run, h, o.head, o.seen)
             K == Handle(k.run, Len(history) + 1, k.proc, k.told)
  <1>0. /\ TypeOK /\ up /\ c \in Agents /\ o.at = "record" /\ AgentIsTrue(o)
        /\ o.head \in Nat /\ Len(history) + 1 \in Nat
    BY AgentFields, Numbers DEF IInv, CallRecords, AgentsAreTrue, Agents
  <1>1. UNCHANGED <<up, registry, index, held, ops, crashes>> /\ held' \in BOOLEAN
    BY <1>0 DEF CallRecords, TypeOK
  <1>2. CASE ~(Revalidates(o.op, o.run) /\ HeadIsCurrent(k.head))
    <2>1. Finish(c) /\ UNCHANGED <<history, handles>>
      BY <1>2 DEF CallRecords
    <2>2. QED
      BY <1>0, <1>1, <2>1, FinishStep
  <1>3. CASE Revalidates(o.op, o.run) /\ HeadIsCurrent(k.head)
    <2>1. AppendThrough(h, t) /\ Goto(c, at)
      BY <1>3 DEF CallRecords
    <2>2. /\ o.op \in {"cancel", "pause", "resume", "continue"} /\ h # 0
          /\ h \in 1 .. Len(handles) /\ k.run = o.run /\ o.run \in StartedRuns /\ o.op \in AllOps
      BY <1>0 DEF AgentIsTrue, OpsAt, AllOps
    <2>3. \/ o.op = "cancel" /\ t = "Cancelled" /\ at = "kill"
          \/ o.op = "pause" /\ t = "Paused" /\ at = "hold"
          \/ o.op = "resume" /\ t = "Resumed" /\ at = "release"
          \/ o.op = "continue" /\ t = "ContinuedAsNew" /\ at = "head"
      BY <2>2 DEF Records, AfterRecord
    <2>4. /\ history' = Append(history, Event(t, o.run, 0))
          /\ handles' = [handles EXCEPT ![h] = [k EXCEPT !.head = Len(history) + 1]]
      BY <2>1, <2>2 DEF AppendThrough
    <2>5. o.op \in OpsAt(at)
      BY <2>3 DEF OpsAt
    <2> HIDE DEF t, at
    <2>6. /\ Event(t, o.run, 0) \in Events /\ Event(t, o.run, 0).run = o.run
          /\ Event(t, o.run, 0).type = t /\ t # "Started"
          /\ OneSuccessor => Follows(history[Len(history)], Event(t, o.run, 0))
      <3>1. CASE t \in {"Cancelled", "ContinuedAsNew"}
        <4>1. current_lease_terminal(o.run) = "None" /\ t \in Terminals
          BY <1>3, <2>3, <3>1 DEF Revalidates, Terminals
        <4>2. QED
          BY <2>2, <4>1, TerminalFollows
      <3>2. CASE t \in {"Paused", "Resumed"}
        <4>1. \/ t = "Paused" /\ SegmentStatus(o.run) = "Running"
              \/ t = "Resumed" /\ SegmentStatus(o.run) = "Paused"
          BY <1>3, <2>3, <3>2 DEF Revalidates
        <4>2. QED
          BY <2>2, <4>1, StatusFollows
      <3>3. QED
        BY <2>3, <3>1, <3>2
    <2>7. /\ HistoryFine /\ CurrentRun' = CurrentRun /\ Len(history') = Len(history) + 1
          /\ NowRecorded(t, o.run)
      BY <2>2, <2>4, <2>6, HistoryRecords
    <2>8. k \in HandleType /\ K \in HandleType /\ K.run = k.run /\ K.told = k.told
      BY <1>0, <2>2, HandleFields, HandleIsTyped
    <2>9. handles' = [handles EXCEPT ![h] = K]
      <3>1. [k EXCEPT !.head = Len(history) + 1] = K
        BY <2>8, FieldChanges
      <3> HIDE DEF K
      <3>2. QED
        BY <2>4, <3>1
    <2> HIDE DEF K
    <2>10. HandlesFine /\ Len(handles') = Len(handles)
      BY <2>2, <2>7, <2>8, <2>9, HandleChanges DEF HistoryFine
    <2>11. RegistryFine
      BY <1>1, <2>10, RegistrySame DEF HandlesFine
    <2>12. Moves(c, g)
      <3>1. at \in Steps
        BY <2>3 DEF Steps
      <3>2. QED
        BY <1>0, <2>1, <3>1, GotoMoves
    <2>13. AgentIsTrue(agent[c])'
      <3>1. at \in {"kill", "hold", "release", "head", "deregister", "respawn"}
        BY <2>3
      <3>2. o.head <= Len(history')
        BY <1>0, <2>7 DEF AgentIsTrue
      <3>3. /\ at \in {"kill", "deregister"} /\ o.op = "cancel" => NowRecorded("Cancelled", o.run)
            /\ o.op = "continue" => NowRecorded("ContinuedAsNew", o.run)
        BY <2>3, <2>7
      <3>4. HistoryKeeps /\ HandlesKeep
        BY <2>7, <2>10 DEF HistoryFine, HandlesFine
      <3> HIDE DEF o
      <3>5. QED
        BY <1>0, <2>2, <2>5, <2>12, <3>1, <3>2, <3>3, <3>4, CallMovesOn DEF o
    <2>14. /\ g.at # "publish"
           /\ g.op \notin CallsRespawn \/ agent[c].op \in CallsRespawn
      BY <2>3 DEF Agent
    <2> HIDE DEF g
    <2>15. QED
      BY <1>0, <1>1, <2>7, <2>10, <2>11, <2>12, <2>13, <2>14, PlainStep
  <1>4. QED
    BY <1>2, <1>3

LEMMA CancelKillsStep ==
    ASSUME IInv, NEW c \in Callers, CancelKills(c)
    PROVE  IInv'
  <1> DEFINE o == agent[c]
             h == o.handle
             k == handles[h]
             proc == IF k.proc = "alive" THEN "killed" ELSE k.proc
             g == Agent("deregister", o.op, o.run, h, o.head, o.seen)
             K == Handle(k.run, k.head, proc, k.told)
  <1>0. /\ TypeOK /\ up /\ c \in Agents /\ o.at = "kill" /\ AgentIsTrue(o) /\ o.head \in Nat
        /\ "deregister" \in Steps
    BY AgentFields DEF IInv, CancelKills, AgentsAreTrue, Agents, Steps
  <1>1. UNCHANGED <<history, up, registry, index, held, ops, crashes>> /\ held' \in BOOLEAN
    BY <1>0 DEF CancelKills, TypeOK
  <1>2. /\ o.op = "cancel" /\ o.op \in AllOps /\ h # 0 /\ h \in 1 .. Len(handles)
        /\ k.run = o.run /\ Recorded("Cancelled", o.run) /\ o.op \in OpsAt("deregister")
    BY <1>0 DEF AgentIsTrue, OpsAt, AllOps
  <1>3. HistoryFine /\ CurrentRun' = CurrentRun /\ Len(history') = Len(history)
    BY <1>1, HistorySame DEF HistoryFine
  <1>4. k \in HandleType /\ K \in HandleType /\ K.run = k.run /\ K.told = k.told
    BY <1>0, <1>2, HandleFields, HandleIsTyped
  <1>5. handles' = [handles EXCEPT ![h] = K]
    <2>1. handles' = [handles EXCEPT ![h] = [k EXCEPT !.proc = proc]]
      BY <1>2 DEF CancelKills
    <2> HIDE DEF proc
    <2>2. [k EXCEPT !.proc = proc] = K
      BY <1>4, FieldChanges
    <2> HIDE DEF K
    <2>3. QED
      BY <2>1, <2>2
  <1> HIDE DEF K
  <1>6. HandlesFine /\ Len(handles') = Len(handles)
    BY <1>2, <1>3, <1>4, <1>5, HandleChanges DEF HistoryFine
  <1>7. RegistryFine
    BY <1>1, <1>6, RegistrySame DEF HandlesFine
  <1>8. Moves(c, g)
    BY <1>0, GotoMoves DEF CancelKills
  <1>9. AgentIsTrue(agent[c])'
    <2>1. o.head <= Len(history')
      BY <1>0, <1>3 DEF AgentIsTrue
    <2>2. HistoryKeeps /\ HandlesKeep
      BY <1>3, <1>6 DEF HistoryFine, HandlesFine
    <2>3. NowRecorded("Cancelled", o.run)
      BY <1>2, <2>2, RecordedKeeps
    <2>4. QED
      BY <1>0, <1>2, <1>8, <2>1, <2>2, <2>3, CallMovesOn
  <1>10. g.at # "publish" /\ g.op \notin CallsRespawn
    BY <1>2 DEF Agent, CallsRespawn
  <1> HIDE DEF g
  <1>11. QED
    BY <1>0, <1>1, <1>3, <1>6, <1>7, <1>8, <1>9, <1>10, PlainStep

\* The end of cancel and continue: what is told is what was recorded.
LEMMA CallDeregistersStep ==
    ASSUME IInv, NEW c \in Callers, CallDeregisters(c)
    PROVE  IInv'
  <1> DEFINE o == agent[c]
             h == o.handle
             k == handles[h]
             t == Records(o.op)
             g == Agent("release", o.op, o.run, h, o.head, o.seen)
             K == Handle(k.run, k.head, k.proc, t)
  <1>0. /\ TypeOK /\ up /\ c \in Agents /\ o.at = "deregister" /\ AgentIsTrue(o)
        /\ o.head \in Nat /\ "release" \in Steps
    BY AgentFields DEF IInv, CallDeregisters, AgentsAreTrue, Agents, Steps
  <1>1. UNCHANGED <<history, up, held, ops, crashes>> /\ held' \in BOOLEAN
    BY <1>0 DEF CallDeregisters, TypeOK
  <1>2. /\ h # 0 /\ h \in 1 .. Len(handles) /\ k.run = o.run
        /\ \/ o.op = "cancel" /\ t = "Cancelled" /\ Recorded("Cancelled", o.run)
           \/ o.op = "continue" /\ t = "ContinuedAsNew" /\ Recorded("ContinuedAsNew", o.run)
    BY <1>0 DEF AgentIsTrue, OpsAt, Records
  <1>3. HistoryFine /\ CurrentRun' = CurrentRun /\ Len(history') = Len(history)
    BY <1>1, HistorySame DEF HistoryFine
  <1>4. NowRecorded(t, o.run) /\ t \in Terminals
    <2>1. Recorded(t, o.run)
      BY <1>2
    <2>2. t \in Terminals
      BY <1>2 DEF Terminals
    <2> HIDE DEF t
    <2>3. QED
      BY <1>3, <2>1, <2>2, RecordedKeeps DEF HistoryFine
  <1>5. handles' = [handles EXCEPT ![h] = [k EXCEPT !.told = t]] /\ Remove(o.run)
    BY <1>2 DEF CallDeregisters
  <1>a. \/ o.op = "cancel" /\ Goto(c, "release")
        \/ Finish(c)
    BY <1>2 DEF CallDeregisters
  <1>b. o.op = "cancel" => o.op \in AllOps /\ o.op \in OpsAt("release")
    BY DEF AllOps, OpsAt
  <1> HIDE DEF t
  <1>6. k \in HandleType /\ K \in HandleType /\ K.run = k.run /\ K.told = t
    <2>1. /\ k \in HandleType /\ k.run \in Runs /\ k.head \in Nat
          /\ k.proc \in {"alive", "Completed", "Failed", "killed"}
      BY <1>0, <1>2, HandleFields
    <2>2. t \in Terminals \cup {"None"}
      BY <1>4
    <2>3. QED
      BY <2>1, <2>2, HandleIsTyped
  <1>7. handles' = [handles EXCEPT ![h] = K]
    <2>1. [k EXCEPT !.told = t] = K
      BY <1>6, FieldChanges
    <2> HIDE DEF K
    <2>2. QED
      BY <1>5, <2>1
  <1> HIDE DEF K
  <1>8. HandlesFine /\ Len(handles') = Len(handles)
    BY <1>2, <1>3, <1>4, <1>6, <1>7, HandleChanges DEF HistoryFine
  <1>9. RegistryFine
    BY <1>5, <1>8, RegistryRemoves DEF HandlesFine
  <1>10. CASE Finish(c)
    <2>1. /\ Moves(c, Idle) /\ AgentIsTrue(agent[c])'
          /\ Idle.at # "publish" /\ Idle.op \notin CallsRespawn
      BY <1>0, <1>3, <1>10, EndMoves DEF HistoryFine, Finish
    <2>2. QED
      BY <1>0, <1>1, <1>3, <1>8, <1>9, <2>1, PlainStep
  <1>11. CASE o.op = "cancel" /\ Goto(c, "release")
    <2>1. Moves(c, g)
      BY <1>0, <1>11, GotoMoves
    <2>2. AgentIsTrue(agent[c])'
      <3>1. o.head <= Len(history')
        BY <1>0, <1>3 DEF AgentIsTrue
      <3>2. HistoryKeeps /\ HandlesKeep
        BY <1>3, <1>8 DEF HistoryFine, HandlesFine
      <3>3. QED
        BY <1>0, <1>b, <1>11, <2>1, <3>1, <3>2, CallMovesOn
    <2>3. g.at # "publish" /\ g.op \notin CallsRespawn
      BY <1>11 DEF Agent, CallsRespawn
    <2> HIDE DEF g
    <2>4. QED
      BY <1>0, <1>1, <1>3, <1>8, <1>9, <2>1, <2>2, <2>3, PlainStep
  <1>12. QED
    BY <1>a, <1>10, <1>11

LEMMA PauseHoldsStep ==
    ASSUME IInv, NEW c \in Callers, PauseHolds(c)
    PROVE  IInv'
  <1>1. UNCHANGED <<history, up, handles, registry, index, ops, crashes>> /\ Finish(c) /\ up
    BY DEF PauseHolds
  <1>2. held' \in BOOLEAN /\ c \in Agents
    BY DEF PauseHolds, Agents
  <1>3. QED
    BY <1>1, <1>2, FinishStep

LEMMA CallReleasesStep ==
    ASSUME IInv, NEW c \in Callers, CallReleases(c)
    PROVE  IInv'
  <1> DEFINE o == agent[c]
             g == Agent("respawn", o.op, o.run, o.handle, o.head, o.seen)
  <1>0. /\ TypeOK /\ up /\ c \in Agents /\ o.at = "release" /\ AgentIsTrue(o)
        /\ o.head \in Nat /\ "respawn" \in Steps
    BY AgentFields DEF IInv, CallReleases, AgentsAreTrue, Agents, Steps
  <1>1. UNCHANGED <<history, up, handles, registry, index, ops, crashes>>
    BY DEF CallReleases
  <1>2. held' \in BOOLEAN
    BY DEF CallReleases
  <1>3. CASE ~NeedsRespawn(c)
    BY <1>0, <1>1, <1>2, <1>3, FinishStep DEF CallReleases
  <1>4. CASE NeedsRespawn(c)
    <2>1. /\ Goto(c, "respawn") /\ o.op = "resume" /\ o.op \in AllOps
          /\ o.op \in OpsAt("respawn")
      BY <1>4 DEF CallReleases, NeedsRespawn, AllOps, OpsAt
    <2>2. Moves(c, g)
      BY <1>0, <2>1, GotoMoves
    <2>3. HistoryFine /\ HandlesFine
      BY <1>1, HistorySame, HandlesSame DEF HistoryFine
    <2>4. AgentIsTrue(agent[c])'
      <3>1. o.head <= Len(history')
        BY <1>0, <1>1 DEF AgentIsTrue
      <3>2. HistoryKeeps /\ HandlesKeep
        BY <2>3 DEF HistoryFine, HandlesFine
      <3>3. QED
        BY <1>0, <2>1, <2>2, <3>1, <3>2, CallMovesOn
    <2>5. g.at # "publish" /\ (g.op \notin CallsRespawn \/ agent[c].op \in CallsRespawn)
      BY DEF Agent
    <2> HIDE DEF g
    <2>6. QED
      BY <1>0, <1>1, <1>2, <2>2, <2>4, <2>5, OwnStep
  <1>5. QED
    BY <1>3, <1>4

LEMMA ReopenEvictsStep ==
    ASSUME IInv, NEW c \in Callers, ReopenEvicts(c)
    PROVE  IInv'
  <1> DEFINE o == agent[c]
             g == Agent("append", o.op, o.run, o.handle, o.head, o.seen)
  <1>0. /\ TypeOK /\ up /\ c \in Agents /\ o.at = "evict" /\ AgentIsTrue(o)
        /\ "append" \in Steps
    BY AgentFields DEF IInv, ReopenEvicts, AgentsAreTrue, Agents, Steps
  <1>1. UNCHANGED <<history, up, handles, held, ops, crashes>> /\ held' \in BOOLEAN
    BY <1>0 DEF ReopenEvicts, TypeOK
  <1>2. HistoryFine /\ CurrentRun' = CurrentRun /\ Len(history') = Len(history)
    BY <1>1, HistorySame DEF HistoryFine
  <1>3. HandlesFine /\ Len(handles') = Len(handles)
    BY <1>1, <1>2, HandlesSame DEF HistoryFine
  <1>4. CASE Finish(c) /\ UNCHANGED <<registry, index>>
    BY <1>0, <1>1, <1>4, FinishStep
  <1>5. CASE /\ Goto(c, "append")
             /\ UNCHANGED <<registry, index>> \/ Remove(o.run)
    <2>1. RegistryFine
      BY <1>3, <1>5, RegistrySame, RegistryRemoves DEF HandlesFine
    <2>2. Moves(c, g) /\ agent'[c] = g
      BY <1>0, <1>5, GotoMoves DEF Moves
    <2>3. /\ g.at = "append" /\ g.op = o.op /\ g.run = o.run /\ g.handle = o.handle
          /\ g.head = o.head /\ g.seen = o.seen
      BY DEF Agent
    <2> HIDE DEF g
    <2>4. o.op = "reopen"
      BY <1>0 DEF AgentIsTrue, OpsAt
    <2>5. AgentIsTrue(agent[c])'
      <3>1. StillValid(o.op, o.run) => StillValid(agent[c].op, agent[c].run)'
        <4>1. OneSuccessor' => OneSuccessor
          BY <1>2, RecordedKeeps DEF HistoryFine
        <4>2. history'[Len(history')] = history[Len(history)]
          BY <1>1
        <4>3. QED
          BY <2>2, <2>3, <4>1, <4>2 DEF StillValid
      <3>2. o.run \in StartedRuns'
        BY <1>0, <1>2, <2>4, RecordedKeeps DEF HistoryFine, AgentIsTrue, AllOps
      <3>3. o.handle # 0 => o.handle \in 1 .. Len(handles') /\ handles'[o.handle].run = o.run
        BY <1>0, <1>1 DEF AgentIsTrue
      <3>4. o.head <= Len(history') /\ (o.head = Len(history') => StillValid(o.op, o.run))
        BY <1>0, <1>2 DEF AgentIsTrue
      <3>5. o.op \in OpsAt("append")
        BY <2>4 DEF OpsAt
      <3>6. QED
        BY <2>2, <2>3, <2>4, <3>1, <3>2, <3>3, <3>4, <3>5 DEF AgentIsTrue
    <2>6. g.at # "publish" /\ (g.op \notin CallsRespawn \/ agent[c].op \in CallsRespawn)
      BY <2>3
    <2>7. QED
      BY <1>0, <1>1, <1>2, <1>3, <2>1, <2>2, <2>5, <2>6, PlainStep
  <1>6. QED
    BY <1>4, <1>5 DEF ReopenEvicts

\* The append of reopen, and of a resume of a run that is not resident, at the head that was
\* validated.
LEMMA CallAppendsStep ==
    ASSUME IInv, NEW c \in Callers, CallAppends(c)
    PROVE  IInv'
  <1> DEFINE o == agent[c]
             t == IF o.op = "reopen" THEN "Reopened" ELSE "Resumed"
             at == IF o.op = "reopen" THEN "respawn" ELSE "release"
             g == Agent(at, o.op, o.run, o.handle, Len(history) + 1, o.seen)
  <1>0. /\ TypeOK /\ up /\ c \in Agents /\ o.at = "append" /\ AgentIsTrue(o)
        /\ Len(history) + 1 \in Nat
    BY Numbers DEF IInv, CallAppends, AgentsAreTrue, Agents
  <1>1. UNCHANGED <<up, handles, registry, index, held, ops, crashes>> /\ held' \in BOOLEAN
    BY <1>0 DEF CallAppends, TypeOK
  <1>2. CASE ~HeadIsCurrent(ValidatedHead(c))
    BY <1>0, <1>1, <1>2, FinishStep DEF CallAppends
  <1>3. CASE HeadIsCurrent(ValidatedHead(c))
    <2>1. /\ history' = Append(history, Event(t, o.run, 0))
          /\ GotoAt(c, at, Len(history) + 1) /\ o.head = Len(history)
      BY <1>3 DEF CallAppends, HeadIsCurrent, ValidatedHead
    <2>2. /\ o.op \in AllOps /\ o.run \in StartedRuns /\ StillValid(o.op, o.run)
          /\ \/ o.op = "reopen" /\ t = "Reopened" /\ at = "respawn"
             \/ o.op = "resume" /\ t = "Resumed" /\ at = "release"
      BY <1>0, <2>1 DEF AgentIsTrue, OpsAt, AllOps
    <2> HIDE DEF t, at
    <2>3. o.op \in OpsAt(at) /\ at \in Steps
      BY <2>2 DEF OpsAt, Steps
    <2>4. /\ Event(t, o.run, 0) \in Events /\ Event(t, o.run, 0).run = o.run
          /\ Event(t, o.run, 0).type = t /\ t \notin {"Started", "Paused"} /\ t \notin Terminals
      <3>1. o.run \in Runs /\ 0 \in 0 .. MaxRuns
        BY <2>2, Numbers
      <3>2. t \in {"Reopened", "Resumed"}
        BY <2>2
      <3>3. QED
        BY <3>1, <3>2 DEF Event, Events, Terminals, Resets
    <2>5. OneSuccessor => Follows(history[Len(history)], Event(t, o.run, 0))
      BY <2>2, <2>4 DEF Follows, StillValid
    <2>6. HistoryFine /\ CurrentRun' = CurrentRun /\ Len(history') = Len(history) + 1
      BY <2>1, <2>2, <2>4, <2>5, HistoryRecords
    <2>7. HandlesFine /\ Len(handles') = Len(handles)
      BY <1>1, <2>6, HandlesSame DEF HistoryFine
    <2>8. RegistryFine
      BY <1>1, <2>7, RegistrySame DEF HandlesFine
    <2>9. Moves(c, g)
      BY <1>0, <2>1, <2>3, GotoAtMoves
    <2>10. AgentIsTrue(agent[c])'
      <3>1. Len(history) + 1 <= Len(history')
        BY <1>0, <2>6
      <3>2. HistoryKeeps /\ HandlesKeep
        BY <2>6, <2>7 DEF HistoryFine, HandlesFine
      <3>3. at \in {"kill", "hold", "release", "head", "deregister", "respawn"}
        BY <2>2
      <3>4. o.op # "cancel" /\ o.op # "continue"
        BY <2>2
      <3>5. QED
        BY <1>0, <2>2, <2>3, <2>9, <3>1, <3>2, <3>3, <3>4, CallMovesOn
    <2>11. g.at # "publish" /\ (g.op \notin CallsRespawn \/ agent[c].op \in CallsRespawn)
      BY <2>2 DEF Agent
    <2> HIDE DEF g
    <2>12. QED
      BY <1>0, <1>1, <2>6, <2>7, <2>8, <2>9, <2>10, <2>11, PlainStep
  <1>4. QED
    BY <1>2, <1>3

\* respawn_and_register.
LEMMA CallRespawnsStep ==
    ASSUME IInv, NEW c \in Callers, CallRespawns(c)
    PROVE  IInv'
  <1> DEFINE o == agent[c]
             k == Len(handles) + 1
  <1>0. TypeOK /\ up /\ c \in Agents /\ o.at = "respawn" /\ AgentIsTrue(o) /\ o.head \in Nat
    BY AgentFields DEF IInv, CallRespawns, AgentsAreTrue, Agents
  <1>1. /\ UNCHANGED <<history, up, ops, crashes>> /\ held' \in BOOLEAN
        /\ handles' = Append(handles, NewHandle(o.run, o.head)) /\ Insert(o.run, k, Status)
        /\ Finish(c)
    BY <1>0 DEF CallRespawns, TypeOK
  <1>2. HistoryFine /\ CurrentRun' = CurrentRun
    BY <1>1, HistorySame DEF HistoryFine
  <1>3. o.op \in CallsRespawn /\ o.run \in Runs /\ o.run \in StartedRuns'
    <2>1. o.op \in CallsRespawn /\ o.run \in StartedRuns
      BY <1>0 DEF AgentIsTrue, OpsAt, AllOps, CallsRespawn
    <2>2. QED
      BY <1>2, <2>1, Numbers, RecordedKeeps DEF HistoryFine
  <1>4. HandlesFine /\ Len(handles') = k /\ handles'[k].run = o.run
    BY <1>0, <1>1, <1>2, <1>3, HandleAdds DEF HistoryFine
  <1>5. /\ Moves(c, Idle) /\ AgentIsTrue(agent[c])'
        /\ Idle.at # "publish" /\ Idle.op \notin CallsRespawn
    BY <1>0, <1>1, <1>2, EndMoves DEF HistoryFine, Finish
  <1>6. /\ Cardinality(Publishing) \in Nat /\ Cardinality(Publishing') \in Nat
        /\ Cardinality(Respawning) \in Nat /\ Cardinality(Respawning') \in Nat
        /\ Cardinality(Publishing') <= Cardinality(Publishing)
        /\ Cardinality(Respawning') = Cardinality(Respawning) - 1
    BY <1>0, <1>3, <1>5, Counting
  <1>7. k \in Handles /\ k \in 1 .. Len(handles')
    <2>1. Cardinality(Respawning) > 0
      BY <1>6
    <2>2. k \in Handles
      BY <1>0, <1>6, <2>1, RoomForOne
    <2>3. QED
      BY <1>4, <2>2, Numbers
  <1>8. RegistryFine
    <2>1. Len(history) \in 1 .. Len(history)
      BY Numbers
    <2>2. Status \in Terminals \cup {"Running", "Paused"}
      BY <2>1, StatusIsTyped DEF Status
    <2>3. QED
      BY <1>1, <1>3, <1>4, <1>7, <2>2, RegistryInserts DEF HandlesFine
  <1>9. up' /\ up' \in BOOLEAN /\ ops' \in 0 .. MaxOps /\ crashes' \in 0 .. MaxCrashes
    BY <1>0, <1>1, Zenon DEF TypeOK
  <1>10. HandlesAreEnough'
    <2>1. Len(handles) + Cardinality(Publishing) + Cardinality(Respawning)
              <= crashes + ops + CurrentRun
      BY <1>0 DEF IInv, HandlesAreEnough
    <2>2. /\ Len(handles') = Len(handles) + 1 /\ CurrentRun' = CurrentRun
          /\ ops' = ops /\ crashes' = crashes
      BY <1>1, <1>2, <1>4
    <2>3. Len(handles) \in Nat /\ CurrentRun \in Nat /\ ops \in Nat /\ crashes \in Nat
      BY Numbers
    <2>4. Len(handles') + Cardinality(Publishing') + Cardinality(Respawning')
              <= crashes' + ops' + CurrentRun'
      BY <1>6, <2>1, <2>2, <2>3
    <2>5. QED
      BY <1>9, <2>4 DEF HandlesAreEnough
  <1>11. QED
    BY <1>0, <1>1, <1>2, <1>4, <1>5, <1>8, <1>9, <1>10, Assemble

-----------------------------------------------------------------------------
(* Crash, startup and its sweep.                                           *)

LEMMA CrashStep ==
    ASSUME IInv, Crash
    PROVE  IInv'
  <1>0. /\ TypeOK /\ up /\ history' = history /\ ops' = ops /\ handles' = <<>>
        /\ index' = 0 /\ crashes' = crashes + 1 /\ crashes < MaxCrashes
        /\ registry' = [r \in Runs |-> NoEntry] /\ agent' = [a \in Agents |-> Idle]
    BY DEF IInv, Crash
  <1>1. ~up' /\ up' \in BOOLEAN /\ held' \in BOOLEAN
    BY DEF Crash
  <1>2. HistoryFine /\ CurrentRun' = CurrentRun
    BY <1>0, HistorySame DEF HistoryFine
  <1>3. NoEntry \in EntryType /\ NoEntry.handle = 0
    BY DEF NoEntry, Entry, EntryType
  <1>4. Len(handles') = 0 /\ handles' \in Seq(HandleType) /\ DOMAIN handles' = {}
    BY <1>0
  <1>5. TypeOK'
    <2>1. ops' \in 0 .. MaxOps /\ crashes' \in 0 .. MaxCrashes
      BY <1>0, Numbers
    <2>2. registry' \in [Runs -> EntryType] /\ agent' \in [Agents -> AgentType]
      BY <1>0, <1>3, IdleIsTyped
    <2>3. QED
      BY <1>0, <1>1, <1>2, <1>4, <2>1, <2>2 DEF TypeOK, HistoryFine
  <1>6. AgentsAreTrue'
    <2>1. ASSUME NEW a \in Agents PROVE AgentIsTrue(agent[a])'
      BY <1>0, <1>2, IdleIsTrue DEF HistoryFine
    <2>2. QED
      BY <2>1 DEF AgentsAreTrue
  <1>7. HandlesAreStarted' /\ ToldIsRecorded'
    BY <1>4 DEF HandlesAreStarted, ToldIsRecorded
  <1>8. RegistryIsTrue'
    BY <1>0, <1>3, <1>4 DEF RegistryIsTrue
  <1>9. DownIsEmpty'
    BY <1>0, <1>3 DEF DownIsEmpty
  <1>10. HandlesAreEnough'
    <2>1. Publishing' = {} /\ Respawning' = {}
      BY <1>0 DEF Publishing, Respawning, Idle, Agent, Agents
    <2>2. Cardinality(Publishing') = 0 /\ Cardinality(Respawning') = 0
      BY <2>1, FS_EmptySet
    <2>3. Len(handles') + Cardinality(Publishing') + Cardinality(Respawning')
              <= (crashes' - 1) + ops' + CurrentRun'
      BY <1>0, <1>2, <1>4, <2>2, Numbers
    <2>4. QED
      BY <1>1, <2>3 DEF HandlesAreEnough
  <1>11. QED
    BY <1>2, <1>5, <1>6, <1>7, <1>8, <1>9, <1>10 DEF IInv, HistoryFine

LEMMA StartupStep ==
    ASSUME IInv, Startup
    PROVE  IInv'
  <1> DEFINE s == Sweeper
  <1>0. /\ TypeOK /\ ~up /\ s \in Agents /\ history' = history /\ ops' = ops
        /\ crashes' = crashes /\ agent' = [agent EXCEPT ![s] = SweepStart]
        /\ handles = <<>> /\ Len(handles) = 0
    BY DEF IInv, Startup, DownIsEmpty, Agents
  <1>1. up' /\ up' \in BOOLEAN /\ held' \in BOOLEAN
    BY DEF Startup
  <1>2. HistoryFine /\ CurrentRun' = CurrentRun
    BY <1>0, HistorySame DEF HistoryFine
  <1>3. HandlesFine /\ RegistryFine /\ Len(handles') <= Len(handles) + 1 /\ Len(handles') \in Nat
    <2>1. CASE Status # "Running"
      <3>1. handles' = handles /\ registry' = registry /\ index' = index
        BY <2>1 DEF Startup
      <3>2. HandlesFine
        BY <1>2, <3>1, HandlesSame DEF HistoryFine
      <3>3. RegistryFine
        BY <3>1, <3>2, RegistrySame DEF HandlesFine
      <3>4. QED
        BY <1>0, <3>1, <3>2, <3>3
    <2>2. CASE Status = "Running"
      <3>1. /\ handles' = <<NewHandle(CurrentRun, Len(history))>>
            /\ Insert(CurrentRun, 1, "Running")
        BY <2>2 DEF Startup
      <3>2. handles' = Append(handles, NewHandle(CurrentRun, Len(history)))
        BY <1>0, <3>1
      <3>3. CurrentRun \in Runs /\ CurrentRun \in StartedRuns' /\ Len(history) \in Nat
        BY <1>2, Numbers, RecordedKeeps DEF HistoryFine, Runs
      <3>4. HandlesFine /\ Len(handles') = Len(handles) + 1
             /\ handles'[Len(handles) + 1].run = CurrentRun
        BY <1>2, <3>2, <3>3, HandleAdds DEF HistoryFine
      <3>5. 1 \in Handles
        BY BoundsAssumption DEF Handles
      <3>6. 1 \in 1 .. Len(handles') /\ handles'[1].run = CurrentRun
        BY <1>0, <3>4
      <3>7. RegistryFine
        BY <3>1, <3>3, <3>4, <3>5, <3>6, RegistryInserts DEF HandlesFine
      <3>8. QED
        BY <1>0, <3>4, <3>7
    <2>3. QED
      BY <2>1, <2>2
  <1>4. SweepStart \in AgentType
    <2>1. 0 \in 0 .. MaxRuns
      BY BoundsAssumption
    <2>2. QED
      BY <2>1 DEF SweepStart, Agent, AgentType
  <1>5. Moves(s, SweepStart) /\ agent'[s] = SweepStart
    BY <1>0, <1>4, AgentMoves DEF Moves
  <1>6. AgentIsTrue(agent[s])'
    BY <1>2, <1>5 DEF AgentIsTrue, SweepStart, Agent, OpsAt, AllOps, HistoryFine, HistoryKeeps
  <1>7. HandlesAreEnough'
    <2>1. SweepStart.at # "publish" /\ SweepStart.op \notin CallsRespawn
      BY DEF SweepStart, Agent, CallsRespawn
    <2>2. /\ Cardinality(Publishing) \in Nat /\ Cardinality(Publishing') \in Nat
          /\ Cardinality(Respawning) \in Nat /\ Cardinality(Respawning') \in Nat
          /\ Cardinality(Publishing') <= Cardinality(Publishing)
          /\ Cardinality(Respawning') <= Cardinality(Respawning)
      BY <1>0, <1>5, <2>1, Counting
    <2>3. Len(handles) + Cardinality(Publishing) + Cardinality(Respawning)
              <= (crashes - 1) + ops + CurrentRun
      BY <1>0 DEF IInv, HandlesAreEnough
    <2>4. Len(handles) \in Nat /\ CurrentRun \in Nat /\ ops \in Nat /\ crashes \in Nat
      BY Numbers
    <2>5. ops' = ops /\ crashes' = crashes /\ CurrentRun' = CurrentRun
          /\ Len(handles') <= Len(handles) + 1 /\ Len(handles') \in Nat
      BY <1>0, <1>2, <1>3
    <2>6. Len(handles') + Cardinality(Publishing') + Cardinality(Respawning')
              <= crashes' + ops' + CurrentRun'
      BY <2>2, <2>3, <2>4, <2>5
    <2>7. QED
      BY <1>1, <2>6 DEF HandlesAreEnough
  <1>8. ops' \in 0 .. MaxOps /\ crashes' \in 0 .. MaxCrashes
    BY <1>0 DEF TypeOK
  <1>9. QED
    BY <1>0, <1>1, <1>2, <1>3, <1>5, <1>6, <1>7, <1>8, Assemble

\* The sweep finds the newest run, which in a chain that has not forked is the one that
\* continued.
LEMMA SweepQueriesStep ==
    ASSUME IInv, SweepQueries
    PROVE  IInv'
  <1> DEFINE s == Sweeper
             n == Len(history)
             g == Agent("head", "sweep", CurrentRun, 0, 0, "None")
  <1>0. TypeOK /\ up /\ s \in Agents
    BY DEF IInv, SweepQueries, Agents
  <1>1. UNCHANGED <<history, up, handles, registry, index, held, ops, crashes>> /\ held' \in BOOLEAN
    BY <1>0 DEF SweepQueries, TypeOK
  <1>2. HistoryKeeps
    BY <1>1, HistorySame
  <1>3. CASE Status # "ContinuedAsNew"
    BY <1>0, <1>1, <1>3, FinishStep DEF SweepQueries, Finish
  <1>4. CASE Status = "ContinuedAsNew"
    <2>1. agent' = [agent EXCEPT ![s] = g]
      BY <1>4 DEF SweepQueries
    <2>2. g \in AgentType
      <3>1. CurrentRun \in 0 .. MaxRuns /\ "head" \in Steps
        BY Numbers DEF Steps
      <3>2. QED
        BY <3>1, AgentIsTyped
    <2>3. /\ g.at = "head" /\ g.op = "sweep" /\ g.run = CurrentRun /\ g.handle = 0
          /\ g.head = 0 /\ g.seen = "None"
      BY DEF Agent
    <2> HIDE DEF g
    <2>4. Moves(s, g) /\ agent'[s] = g
      BY <1>0, <2>1, <2>2, AgentMoves DEF Moves
    <2>5. Recorded("ContinuedAsNew", CurrentRun)
      <3>1. history \in Seq(Events) /\ n \in Nat /\ n \in 1 .. n
        BY <1>0, Numbers DEF TypeOK
      <3>2. history[n].type = "ContinuedAsNew"
        BY <1>4, StatusFacts DEF Status
      <3>3. ASSUME OneSuccessor PROVE history[n].run = CurrentRun
        <4>1. PICK t \in 1 .. n :
                  /\ history[t].type = "Started" /\ history[t].run = history[n].run
                  /\ \A j \in t + 1 .. n : history[j].type # "Started"
          BY <3>1, <3>3 DEF IInv, UnforkedIsLinear, ChainIsLinear
        <4>2. PICK u \in 1 .. n :
                  /\ history[u].type = "Started" /\ history[u].run = CurrentRun
                  /\ \A j \in u + 1 .. n : history[j].type # "Started"
          BY <3>1, CurrentRunIsLast DEF IInv, IsNumbered, CurrentIsLast
        <4>3. t = u
          BY <3>1, <4>1, <4>2
        <4>4. QED
          BY <4>1, <4>2, <4>3
      <3>4. QED
        BY <3>1, <3>2, <3>3 DEF Recorded
    <2>6. AgentIsTrue(agent[s])'
      <3>1. Recorded("ContinuedAsNew", agent[s].run)'
        BY <1>0, <1>2, <2>3, <2>4, <2>5, RecordedKeeps, NowIsRecorded
      <3>2. QED
        BY <1>2, <2>3, <2>4, <3>1 DEF AgentIsTrue, OpsAt, AllOps, HistoryKeeps
    <2>7. g.op \notin CallsRespawn
      BY <2>3 DEF CallsRespawn
    <2>8. QED
      BY <1>0, <1>1, <2>3, <2>4, <2>6, <2>7, OwnStep
  <1>5. QED
    BY <1>3, <1>4

-----------------------------------------------------------------------------
(* The theorems.                                                           *)

LEMMA IInvInit == Init => IInv
  <1> SUFFICES ASSUME Init PROVE IInv
    OBVIOUS
  <1> DEFINE e == Event("Started", 1, 0)
  <1>0. 1 \in Runs /\ 1 \in Handles /\ 0 \in 0 .. MaxRuns /\ 0 \in 0 .. MaxOps
        /\ 0 \in 0 .. MaxCrashes
    BY BoundsAssumption DEF Runs, Handles
  <1>1. e \in Events /\ e.type = "Started" /\ e.run = 1
    BY <1>0 DEF Event, Events, Resets
  <1>2. /\ history = <<e>> /\ handles = <<NewHandle(1, 1)>> /\ index = 1 /\ ops = 0 /\ crashes = 0
        /\ registry = [r \in Runs |-> IF r = 1 THEN Entry(1, "Running", "Resident") ELSE NoEntry]
        /\ agent = [a \in Agents |-> Idle]
    BY DEF Init
  <1>3. up /\ up \in BOOLEAN /\ held \in BOOLEAN
    BY DEF Init
  <1> HIDE DEF e
  <1>4. history \in Seq(Events) /\ Len(history) = 1 /\ history[1] = e
    BY <1>1, <1>2
  <1>5. NewHandle(1, 1) \in HandleType /\ NewHandle(1, 1).run = 1 /\ NewHandle(1, 1).told = "None"
    BY <1>0 DEF NewHandle, Handle, HandleType
  <1>6. handles \in Seq(HandleType) /\ Len(handles) = 1 /\ handles[1] = NewHandle(1, 1)
    BY <1>2, <1>5
  <1>7. /\ Entry(1, "Running", "Resident") \in EntryType /\ NoEntry \in EntryType
        /\ NoEntry.handle = 0 /\ Entry(1, "Running", "Resident").handle = 1
    BY <1>0 DEF Entry, NoEntry, EntryType
  <1>8. TypeOK
    <2>1. registry \in [Runs -> EntryType] /\ agent \in [Agents -> AgentType]
      BY <1>2, <1>7, IdleIsTyped
    <2>2. QED
      BY <1>0, <1>2, <1>3, <1>4, <1>6, <2>1 DEF TypeOK
  <1>9. RunsAreNumbered
    BY <1>1, <1>4 DEF RunsAreNumbered
  <1>10. AgentsAreTrue
    BY <1>2, <1>4 DEF AgentsAreTrue, AgentIsTrue, Idle, Agent, OpsAt, AllOps
  <1>11. HandlesAreStarted
    BY <1>1, <1>4, <1>5, <1>6 DEF HandlesAreStarted, StartedRuns
  <1>12. RegistryIsTrue
    <2>1. ASSUME NEW r \in Runs, registry[r].handle # 0
          PROVE  r = 1 /\ registry[r].handle = 1
      BY <1>2, <1>7, <2>1
    <2>2. QED
      BY <1>2, <1>5, <1>6, <2>1 DEF RegistryIsTrue
  <1>13. DownIsEmpty
    BY <1>3 DEF DownIsEmpty
  <1>14. HandlesAreEnough
    <2>1. Publishing = {} /\ Respawning = {}
      BY <1>2 DEF Publishing, Respawning, Idle, Agent, Agents
    <2>2. Cardinality(Publishing) = 0 /\ Cardinality(Respawning) = 0
      BY <2>1, FS_EmptySet
    <2>3. PICK s \in 1 .. Len(history) : history[s].run = CurrentRun
      BY <1>4, <1>9, CurrentRunIsLast DEF IsNumbered, CurrentIsLast
    <2>4. CurrentRun = 1
      BY <1>1, <1>4, <2>3
    <2>5. QED
      BY <1>2, <1>3, <1>6, <2>2, <2>4 DEF HandlesAreEnough
  <1>15. UnforkedIsLinear
    BY <1>1, <1>4 DEF UnforkedIsLinear, ChainIsLinear
  <1>16. ToldIsRecorded
    BY <1>5, <1>6 DEF ToldIsRecorded
  <1>17. QED
    BY <1>8, <1>9, <1>10, <1>11, <1>12, <1>13, <1>14, <1>15, <1>16 DEF IInv

LEMMA StutterStep ==
    ASSUME IInv, UNCHANGED vars
    PROVE  IInv'
  <1>1. /\ UNCHANGED <<history, handles, registry, index, ops, crashes, agent>>
        /\ up' = up /\ held' = held
    BY DEF vars
  <1>2. HistoryFine /\ CurrentRun' = CurrentRun
    BY <1>1, HistorySame DEF HistoryFine
  <1>3. HandlesFine
    BY <1>1, <1>2, HandlesSame DEF HistoryFine
  <1>4. RegistryFine
    BY <1>1, <1>3, RegistrySame DEF HandlesFine
  <1>5. AgentsAreTrue'
    BY <1>1, <1>2, <1>3, AgentKeeps DEF AgentsAreTrue, HistoryFine, HandlesFine
  <1>6. TypeOK' /\ DownIsEmpty'
    BY <1>1, Zenon DEF IInv, TypeOK, DownIsEmpty
  <1>7. HandlesAreEnough'
    <2>1. Publishing' = Publishing /\ Respawning' = Respawning
      BY <1>1 DEF Publishing, Respawning
    <2>2. QED
      BY <1>1, <1>2, <2>1, Zenon DEF IInv, HandlesAreEnough
  <1>8. QED
    BY <1>2, <1>3, <1>4, <1>5, <1>6, <1>7 DEF IInv, HistoryFine, HandlesFine, RegistryFine

LEMMA IInvStep == IInv /\ [Next]_vars => IInv'
  <1> SUFFICES ASSUME IInv, [Next]_vars PROVE IInv'
    OBVIOUS
  <1>1. ASSUME NEW h \in Handles, NEW why \in {"Completed", "Failed"}, ProcessExits(h, why)
        PROVE  IInv'
    BY <1>1, ExitsStep
  <1>2. ASSUME NEW h \in Handles, NifContinueAsNew(h) PROVE IInv'
    BY <1>2, NifStep
  <1>3. ASSUME NEW h \in Handles, Monitor(h) PROVE IInv'
    BY <1>3, MonitorRecordsStep, MonitorReadsStep, MonitorReconcilesStep, MonitorChecksStep
       DEF Monitor
  <1>4. ASSUME NEW c \in Callers, Call(c) PROVE IInv'
    BY <1>4, CallRecordsStep, CancelKillsStep, CallDeregistersStep, PauseHoldsStep,
       CallReleasesStep, ReopenEvictsStep, CallAppendsStep, CallRespawnsStep DEF Call
  <1>5. ASSUME NEW c \in Callers, NEW op \in Ops, NEW run \in StartedRuns, Begin(c, op, run)
        PROVE  IInv'
    BY <1>5, BeginStep
  <1>6. ASSUME NEW a \in Agents, Start(a) PROVE IInv'
    BY <1>6, StartReadsStep, StartAppendsStep, StartPublishesStep DEF Start
  <1>7. CASE UNCHANGED vars
    BY <1>7, StutterStep
  <1>8. QED
    BY <1>1, <1>2, <1>3, <1>4, <1>5, <1>6, <1>7, CrashStep, StartupStep, SweepQueriesStep DEF Next

LEMMA Invariance == Spec => []IInv
  BY IInvInit, IInvStep, PTL DEF Spec

\* handle_process_exit_async and the callers that notify: every state is well formed, there is
\* a handle for every process that can be spawned, and an outcome on a completion channel is
\* recorded, by its own run in a chain that has not forked.
THEOREM OutcomesAreRecorded == Spec => []Inv
  <1>1. IInv => Inv
    BY DEF IInv, Inv
  <1>2. QED
    BY Invariance, <1>1, PTL

\* status.rs:113-114: two terminals of a chain that has not forked are separated by a start or
\* a reopen.
THEOREM LeasesEndOnce == Spec => []OneTerminalPerLease
  <1>1. IInv => OneTerminalPerLease
    <2>1. SUFFICES ASSUME IInv, OneSuccessor, NEW i \in 1 .. Len(history),
                          NEW j \in 1 .. Len(history), i < j,
                          history[i].type \in Terminals, history[j].type \in Terminals
                   PROVE  \E k \in i + 1 .. j - 1 : history[k].type \in Resets
      BY DEF OneTerminalPerLease
    <2>2. history \in Seq(Events) /\ Len(history) \in Nat /\ ChainIsLinear
      BY <2>1 DEF IInv, TypeOK, UnforkedIsLinear
    <2>3. i + 1 \in 2 .. Len(history) /\ (i + 1) - 1 = i
      BY <2>1, <2>2
    <2>4. Follows(history[i], history[i + 1])
      BY <2>2, <2>3 DEF ChainIsLinear
    <2>5. history[i + 1] \in Events
      BY <2>2, <2>3
    <2>6. history[i + 1].type \in Resets /\ history[i + 1].type \notin Terminals
      BY <2>1, <2>4, <2>5 DEF Follows, Events, Resets, Terminals, StatusOf
    <2>7. i + 1 \in i + 1 .. j - 1
      BY <2>1, <2>2, <2>6
    <2>8. QED
      BY <2>6, <2>7
  <1>2. QED
    BY Invariance, <1>1, PTL

\* pause.rs, reopen.rs: in a chain that has not forked a pause is recorded over a running run,
\* a resume over a paused one and a reopen over a failed or cancelled one, whoever else writes.
THEOREM TransitionsStayLegal == Spec => []TransitionsAreLegal
  <1>1. IInv => TransitionsAreLegal
    BY DEF IInv, UnforkedIsLinear, ChainIsLinear, Follows, TransitionsAreLegal
  <1>2. QED
    BY Invariance, <1>1, PTL

-----------------------------------------------------------------------------
(***************************************************************************)
(* A running workflow is reached.  Here nobody reopens runs: a reopen that *)
(* races a cancel can lose the entry of a live run.                        *)
(***************************************************************************)
Now == history[Len(history)]

NeverReopened == \A i \in 1 .. Len(history) : history[i].type # "Reopened"

\* A monitor acts once its process is gone.
MonitorsAreTrue ==
    \A h \in Handles : (h \in 1 .. Len(handles) => handles[h].proc = "alive") => agent[h] = Idle

\* A resume that appends and respawns found no handle.
RespawnsAreTrue == \A a \in Agents : agent[a].at \in {"append", "respawn"} => agent[a].handle = 0

\* The newest run has no handle.
NoCarrier == \A h \in 1 .. Len(handles) : handles[h].run # Now.run

\* Between the record that makes a run run and the insert of its handle.
InFlight(g) ==
    \/ g.at = "publish"
    \/ g.op = "resume" /\ g.handle = 0 /\ g.at \in {"release", "respawn"}

\* What an agent in flight recorded is the end of the history, and the run is waiting for it.
FlightIsTrue(g) ==
    /\ InFlight(g) => /\ g.head = Len(history) /\ Status = "Running" /\ NoCarrier
                      /\ g.op = "resume" => g.run = Now.run
    /\ g.at = "append" /\ g.head = Len(history) => NoCarrier
FlightsAreTrue ==
    /\ \A a \in Agents : FlightIsTrue(agent[a])
    /\ \A a, b \in Agents : InFlight(agent[a]) /\ InFlight(agent[b]) => a = b

\* The one handle of the newest run is in the registry and in the index, it writes at the
\* end of the history, and its monitor has seen nothing.
Carrier(h) ==
    /\ handles[h].run = Now.run
    /\ \A k \in 1 .. Len(handles) : handles[k].run = Now.run => k = h
    /\ registry[Now.run].handle = h /\ registry[Now.run].residency = "Resident"
    /\ index = h
    /\ handles[h].head = Len(history)
    /\ agent[h] = Idle

\* Startup leaves a paused run without a process.
Asleep == Now.type = "Paused" /\ registry[Now.run].handle = 0 /\ NoCarrier

\* A run that has not ended is carried, asleep, or about to be carried.
Carried ==
    up /\ Now.type \notin Terminals =>
        \/ \E h \in 1 .. Len(handles) : Carrier(h)
        \/ Asleep
        \/ \E a \in Agents : InFlight(agent[a])

RInv ==
    /\ NeverReopened
    /\ MonitorsAreTrue
    /\ RespawnsAreTrue
    /\ OneSuccessor => FlightsAreTrue /\ Carried

LEMMA NowFacts ==
    ASSUME IInv
    PROVE  /\ history \in Seq(Events) /\ Len(history) \in Nat /\ Len(history) > 0
           /\ Now \in Events /\ Now.run \in Runs
           /\ Now.type \in Terminals \cup Resets \cup {"Paused", "Resumed"}
           /\ Status = StatusOf(Now.type)
           /\ OneSuccessor => CurrentRun = Now.run
  <1>1. history \in Seq(Events) /\ Len(history) \in Nat /\ Len(history) > 0
    BY Numbers DEF IInv, TypeOK
  <1>2. Now \in Events
    BY <1>1 DEF Now
  <1>3. ASSUME OneSuccessor PROVE CurrentRun = Now.run
    <2>1. PICK s \in 1 .. Len(history) :
              /\ history[s].type = "Started" /\ history[s].run = CurrentRun
              /\ \A j \in s + 1 .. Len(history) : history[j].type # "Started"
      BY <1>1, CurrentRunIsLast DEF IInv, IsNumbered, CurrentIsLast
    <2>2. Len(history) \in 1 .. Len(history) /\ ChainIsLinear
      BY <1>1, <1>3 DEF IInv, UnforkedIsLinear
    <2>3. PICK t \in 1 .. Len(history) :
              /\ history[t].type = "Started" /\ history[t].run = Now.run
              /\ \A j \in t + 1 .. Len(history) : history[j].type # "Started"
      BY <2>2 DEF ChainIsLinear, Now
    <2>4. s = t
      BY <1>1, <2>1, <2>3
    <2>5. QED
      BY <2>1, <2>3, <2>4
  <1>4. QED
    BY <1>1, <1>2, <1>3 DEF Events, Status, Now

\* Without reopens, a run that has a terminal is over: the history has ended or gone on with
\* another run.
LEMMA EndedIsOver ==
    ASSUME IInv, NeverReopened, OneSuccessor, NEW t \in Terminals, NEW r, Recorded(t, r),
           Now.type \notin Terminals
    PROVE  Now.run # r
  <1>1. /\ history \in Seq(Events) /\ Len(history) \in Nat /\ Len(history) > 0 /\ ChainIsLinear
        /\ RunsAreNumbered
    BY NowFacts DEF IInv, UnforkedIsLinear
  <1>2. PICK i \in 1 .. Len(history) : history[i].type = t /\ history[i].run = r
    BY DEF Recorded
  <1>3. i + 1 \in 2 .. Len(history) /\ (i + 1) - 1 = i /\ i + 1 \in 1 .. Len(history)
    BY <1>1, <1>2 DEF Now
  <1>4. history[i + 1] \in Events /\ Follows(history[i], history[i + 1])
    BY <1>1, <1>3 DEF ChainIsLinear
  <1>5. history[i + 1].type # "Reopened"
    BY <1>3 DEF NeverReopened
  <1>6. history[i + 1].type = "Started"
    BY <1>2, <1>4, <1>5 DEF Follows, Events, Terminals, Resets, StatusOf
  <1>7. PICK s \in 1 .. i : history[s].type = "Started" /\ history[s].run = r
    BY <1>1, <1>2 DEF RunsAreNumbered
  <1>8. Len(history) \in 1 .. Len(history)
    BY <1>1
  <1>9. PICK u \in 1 .. Len(history) :
            /\ history[u].type = "Started" /\ history[u].run = Now.run
            /\ \A j \in u + 1 .. Len(history) : history[j].type # "Started"
    BY <1>1, <1>8 DEF ChainIsLinear, Now
  <1>10. i + 1 <= u
    BY <1>1, <1>3, <1>6, <1>9
  <1>11. s < u /\ s \in 1 .. Len(history)
    BY <1>1, <1>2, <1>7, <1>9, <1>10
  <1>12. history[s].run < history[u].run
    BY <1>1, <1>7, <1>9, <1>11 DEF RunsAreNumbered
  <1>13. history[s].run \in Int /\ history[u].run \in Int
    <2>1. history[s] \in Events /\ history[u] \in Events
      BY <1>1, <1>9, <1>11
    <2>2. QED
      BY <2>1 DEF Events, Runs
  <1>14. QED
    BY <1>7, <1>9, <1>12, <1>13

\* The newest run, while it has not ended, has no terminal in its lease.
LEMMA OpenLease ==
    ASSUME IInv, NeverReopened, OneSuccessor, NEW q \in StartedRuns,
           current_lease_terminal(q) # "None", Now.type \notin Terminals
    PROVE  Now.run # q
  <1>1. /\ current_lease_terminal(q) \in Terminals
        /\ Recorded(current_lease_terminal(q), q)
    BY LeaseTerminalIsRecorded DEF IInv, TypeOK
  <1>2. QED
    BY <1>1, EndedIsOver

\* A carrier is a handle, and nobody else.
LEMMA CarrierFacts ==
    ASSUME IInv, NEW h \in 1 .. Len(handles), Carrier(h)
    PROVE  h \in Handles /\ h \notin Callers /\ h # Sweeper /\ h \in Agents
  <1>1. h \in Nat /\ h # 0
    BY DEF IInv, TypeOK
  <1>2. h \in Handles
    BY <1>1 DEF Carrier, IInv, TypeOK
  <1>3. QED
    BY <1>2, AgentsAssumption DEF Agents

-----------------------------------------------------------------------------
(* The kinds of steps.                                                     *)

\* What a step may do to handles: not revive a process.
Steady ==
    /\ Len(handles') = Len(handles)
    /\ \A h \in 1 .. Len(handles) : /\ handles'[h].run = handles[h].run
                                    /\ handles'[h].proc = "alive" => handles[h].proc = "alive"

\* An agent that is not about to append or respawn, or has no handle to do it for.
Unhandled(g) == g.at \in {"append", "respawn"} => g.handle = 0

LEMMA MonitorsKeep ==
    ASSUME RInv, Steady, NEW a \in Agents, NEW g, Moves(a, g),
           a \in Handles => g = Idle \/ (a \in 1 .. Len(handles) /\ handles'[a].proc # "alive"),
           Unhandled(g)
    PROVE  MonitorsAreTrue' /\ RespawnsAreTrue'
  <1>1. ASSUME NEW h \in Handles, h \in 1 .. Len(handles') => handles'[h].proc = "alive"
        PROVE  agent'[h] = Idle
    <2>1. h \in Agents
      BY DEF Agents
    <2>2. h \in 1 .. Len(handles) => handles[h].proc = "alive"
      BY <1>1 DEF Steady
    <2>3. agent[h] = Idle
      BY <2>2 DEF RInv, MonitorsAreTrue
    <2>4. CASE h = a
      BY <1>1, <2>4 DEF Steady, Moves
    <2>5. CASE h # a
      BY <2>1, <2>3, <2>5 DEF Moves
    <2>6. QED
      BY <2>4, <2>5
  <1>2. MonitorsAreTrue'
    BY <1>1 DEF MonitorsAreTrue
  <1>3. ASSUME NEW b \in Agents, agent'[b].at \in {"append", "respawn"} PROVE agent'[b].handle = 0
    BY <1>3 DEF Moves, RInv, RespawnsAreTrue, Unhandled
  <1>4. QED
    BY <1>2, <1>3 DEF RespawnsAreTrue

\* A flight goes on as it was.
SameFlight(g, f) ==
    /\ InFlight(g) <=> InFlight(f)
    /\ InFlight(g) => f.head = g.head /\ f.op = g.op /\ f.run = g.run

\* A step that records nothing and spawns nothing.
LEMMA QuietStep ==
    ASSUME IInv, IInv', RInv, up, history' = history, Steady,
           \A h \in 1 .. Len(handles) : handles'[h].head = handles[h].head,
           NEW a \in Agents, NEW g, Moves(a, g), SameFlight(agent[a], g), Unhandled(g),
           a \in Handles => g = Idle \/ (a \in 1 .. Len(handles) /\ handles'[a].proc # "alive"),
           OneSuccessor /\ g.at = "append" /\ g.head = Len(history) => NoCarrier,
           OneSuccessor /\ Now.type \notin Terminals =>
               /\ registry'[Now.run] = registry[Now.run]
               /\ \A h \in 1 .. Len(handles) : Carrier(h) => index' = index /\ (h # a \/ g = Idle)
    PROVE  RInv'
  <1>1. MonitorsAreTrue' /\ RespawnsAreTrue'
    BY MonitorsKeep
  <1>2. NeverReopened'
    BY DEF RInv, NeverReopened
  <1>3. Now' = Now /\ Len(history') = Len(history) /\ Status' = Status
    BY DEF Now, Status
  <1>4. NoCarrier => NoCarrier'
    BY <1>3 DEF NoCarrier, Steady
  <1>5. ASSUME OneSuccessor' PROVE FlightsAreTrue' /\ Carried'
    <2>1. OneSuccessor
      BY <1>5 DEF OneSuccessor
    <2>2. FlightsAreTrue /\ Carried
      BY <2>1 DEF RInv
    <2>3. \A b \in Agents : InFlight(agent'[b]) <=> InFlight(agent[b])
      BY DEF Moves, SameFlight
    <2>4. ASSUME NEW b \in Agents PROVE FlightIsTrue(agent[b])'
      <3>1. FlightIsTrue(agent[b]) /\ FlightIsTrue(agent[a])
        BY <2>2 DEF FlightsAreTrue
      <3>2. CASE b = a
        <4>1. InFlight(agent'[b]) => /\ agent'[b].head = Len(history') /\ Status' = "Running"
                                     /\ NoCarrier'
                                     /\ agent'[b].op = "resume" => agent'[b].run = Now'.run
          BY <1>3, <1>4, <3>1, <3>2 DEF FlightIsTrue, Moves, SameFlight
        <4>2. agent'[b].at = "append" /\ agent'[b].head = Len(history') => NoCarrier'
          BY <1>3, <1>4, <2>1, <3>2 DEF Moves
        <4>3. QED
          BY <4>1, <4>2 DEF FlightIsTrue, InFlight
      <3>3. CASE b # a
        <4>1. agent'[b] = agent[b]
          BY <3>3 DEF Moves
        <4>2. QED
          BY <1>3, <1>4, <3>1, <4>1 DEF FlightIsTrue, InFlight
      <3>4. QED
        BY <3>2, <3>3
    <2>5. FlightsAreTrue'
      <3>1. \A b, c \in Agents : InFlight(agent[b])' /\ InFlight(agent[c])' => b = c
        BY <2>2, <2>3 DEF FlightsAreTrue, InFlight
      <3>2. QED
        BY <2>4, <3>1 DEF FlightsAreTrue
    <2>6. ASSUME Now.type \notin Terminals
          PROVE  \/ \E h \in 1 .. Len(handles') : Carrier(h)'
                 \/ Asleep'
                 \/ \E b \in Agents : InFlight(agent[b])'
      <3>1. /\ registry'[Now.run] = registry[Now.run]
            /\ \A h \in 1 .. Len(handles) : Carrier(h) => index' = index /\ (h # a \/ g = Idle)
        BY <2>1, <2>6
      <3>2. ASSUME NEW h \in 1 .. Len(handles), Carrier(h) PROVE Carrier(h)'
        <4>1. agent'[h] = Idle
          <5>1. h \in Agents
            BY <3>2, CarrierFacts
          <5>2. QED
            BY <3>1, <3>2, <5>1 DEF Carrier, Moves
        <4>2. QED
          BY <1>3, <3>1, <3>2, <4>1 DEF Carrier, Steady
      <3>3. Asleep => Asleep'
        BY <1>3, <1>4, <3>1 DEF Asleep
      <3>4. (\E b \in Agents : InFlight(agent[b])) => \E b \in Agents : InFlight(agent[b])'
        BY <2>3 DEF InFlight
      <3>5. Len(handles') = Len(handles)
        BY DEF Steady
      <3>6. QED
        BY <2>2, <2>6, <3>2, <3>3, <3>4, <3>5 DEF Carried
    <2>7. Carried'
      BY <1>3, <2>6 DEF Carried
    <2>8. QED
      BY <2>5, <2>7
  <1>6. QED
    BY <1>1, <1>2, <1>5 DEF RInv

\* An append in a chain that has not forked follows the end of the history.
LEMMA GrownFacts ==
    ASSUME IInv, IInv', NEW e \in Events, history' = Append(history, e)
    PROVE  /\ Len(history') = Len(history) + 1 /\ Now' = e /\ Status' = StatusOf(e.type)
           /\ OneSuccessor' => OneSuccessor /\ Follows(Now, e)
           /\ NeverReopened /\ e.type # "Reopened" => NeverReopened'
  <1>1. history \in Seq(Events) /\ Len(history) \in Nat /\ Len(history) > 0
    BY NowFacts
  <1>2. Grows(e)
    BY <1>1, AppendGrows
  <1>3. /\ Len(history') = Len(history) + 1 /\ history'[Len(history) + 1] = e
        /\ \A i \in 1 .. Len(history) : history'[i] = history[i]
    BY <1>2 DEF Grows
  <1>4. Now' = e /\ Status' = StatusOf(e.type)
    BY <1>3 DEF Now, Status
  <1>5. ASSUME OneSuccessor' PROVE OneSuccessor /\ Follows(Now, e)
    <2>1. OneSuccessor
      <3>1. HistoryKeeps
        BY <1>1, <1>3 DEF HistoryKeeps
      <3>2. QED
        BY <1>5, <3>1, RecordedKeeps
    <2>2. ChainIsLinear'
      BY <1>5 DEF IInv, UnforkedIsLinear
    <2>3. Len(history) + 1 \in 2 .. Len(history') /\ (Len(history) + 1) - 1 = Len(history)
      BY <1>1, <1>3
    <2>4. Follows(history'[Len(history)], history'[Len(history) + 1])
      <3>1. \A i \in 2 .. Len(history') : Follows(history'[i - 1], history'[i])
        BY <2>2 DEF ChainIsLinear
      <3>2. QED
        BY <2>3, <3>1
    <2>5. history'[Len(history)] = Now
      BY <1>1, <1>3 DEF Now
    <2>6. QED
      BY <1>3, <2>1, <2>4, <2>5
  <1>6. ASSUME NeverReopened, e.type # "Reopened" PROVE NeverReopened'
    BY <1>1, <1>3, <1>6 DEF NeverReopened
  <1>7. QED
    BY <1>3, <1>4, <1>5, <1>6

\* A record through a handle.  The run has a handle, so nobody is about to make one.
LEMMA RecordStep ==
    ASSUME IInv, IInv', RInv, up, NEW e \in Events, history' = Append(history, e),
           e.type \notin Resets, Steady, NEW k \in 1 .. Len(handles), handles[k].run = e.run,
           handles'[k].head = Len(history) + 1, UNCHANGED <<registry, index>>,
           NEW a \in Agents, NEW g, Moves(a, g), ~InFlight(g), Unhandled(g), g.at # "append",
           a \in Handles => g = Idle \/ (a \in 1 .. Len(handles) /\ handles'[a].proc # "alive"),
           e.type \in Terminals \/ a \notin Handles
    PROVE  RInv'
  <1>1. MonitorsAreTrue' /\ RespawnsAreTrue'
    BY MonitorsKeep
  <1>2. /\ Len(history') = Len(history) + 1 /\ Now' = e /\ Status' = StatusOf(e.type)
        /\ OneSuccessor' => OneSuccessor /\ Follows(Now, e)
        /\ NeverReopened'
    BY GrownFacts DEF RInv, Resets
  <1>3. ASSUME OneSuccessor' PROVE FlightsAreTrue' /\ Carried'
    <2>1. OneSuccessor /\ FlightsAreTrue /\ Carried /\ Now.run = e.run
      BY <1>2, <1>3 DEF RInv, Follows, Resets
    <2>2. ~NoCarrier
      BY <2>1 DEF NoCarrier
    <2>3. \A b \in Agents : ~InFlight(agent[b])
      BY <2>1, <2>2 DEF FlightsAreTrue, FlightIsTrue
    <2>4. \A b \in Agents : ~InFlight(agent'[b])
      BY <2>3 DEF Moves
    <2>5. ASSUME NEW b \in Agents PROVE ~(agent'[b].at = "append" /\ agent'[b].head = Len(history'))
      <3>1. CASE b = a
        BY <3>1 DEF Moves
      <3>2. CASE b # a
        <4>1. agent'[b] = agent[b] /\ agent[b].head \in Nat /\ Len(history) \in Nat
          BY <3>2, AgentFields, NowFacts DEF Moves, IInv
        <4>2. agent[b].head <= Len(history)
          BY DEF IInv, AgentsAreTrue, AgentIsTrue
        <4>3. QED
          BY <1>2, <4>1, <4>2
      <3>3. QED
        BY <3>1, <3>2
    <2>6. FlightsAreTrue'
      BY <2>4, <2>5 DEF FlightsAreTrue, FlightIsTrue, InFlight
    <2>7. ASSUME e.type \notin Terminals PROVE \E h \in 1 .. Len(handles') : Carrier(h)'
      <3>1. Now.type \notin Terminals
        <4>1. Now \in Events
          BY NowFacts
        <4>2. e.type \in {"Paused", "Resumed"}
          BY <2>7 DEF Events
        <4>3. QED
          BY <1>2, <1>3, <4>2 DEF Follows, Terminals, StatusOf
      <3>2. Carrier(k)
        <4>1. ~Asleep
          BY <2>2 DEF Asleep
        <4>2. PICK h \in 1 .. Len(handles) : Carrier(h)
          BY <2>1, <2>3, <3>1, <4>1 DEF Carried
        <4>3. h = k
          BY <2>1, <4>2 DEF Carrier
        <4>4. QED
          BY <4>2, <4>3
      <3>3. agent'[k] = Idle
        <4>1. k \in Agents /\ k # a
          BY <2>7, <3>2, CarrierFacts
        <4>2. QED
          BY <3>2, <4>1 DEF Moves, Carrier
      <3>4. Carrier(k)'
        BY <1>2, <2>1, <3>2, <3>3 DEF Carrier, Steady
      <3>5. QED
        BY <3>4 DEF Steady
    <2>8. Carried'
      BY <1>2, <2>7 DEF Carried
    <2>9. QED
      BY <2>6, <2>8
  <1>4. QED
    BY <1>1, <1>2, <1>3 DEF RInv

\* A record that sets a run going before it has a process.
LEMMA LaunchStep ==
    ASSUME IInv, IInv', RInv, up, NEW e \in Events, history' = Append(history, e),
           e.type \in {"Started", "Resumed"}, UNCHANGED <<handles, registry, index>>,
           OneSuccessor' => \A h \in 1 .. Len(handles) : handles[h].run # e.run,
           NEW a \in Agents, NEW g, Moves(a, g), InFlight(g), g.at \notin {"append", "respawn"},
           g.head = Len(history) + 1, g.op = "resume" => g.run = e.run,
           a \in Handles => a \in 1 .. Len(handles) /\ handles[a].proc # "alive"
    PROVE  RInv'
  <1>1. MonitorsAreTrue' /\ RespawnsAreTrue'
    <2>1. Steady /\ Unhandled(g)
      BY DEF Steady, Unhandled
    <2>2. QED
      BY <2>1, MonitorsKeep
  <1>2. /\ Len(history') = Len(history) + 1 /\ Now' = e /\ Status' = "Running"
        /\ OneSuccessor' => OneSuccessor /\ Follows(Now, e)
        /\ NeverReopened'
    BY GrownFacts DEF RInv, StatusOf
  <1>3. ASSUME OneSuccessor' PROVE FlightsAreTrue' /\ Carried'
    <2>1. OneSuccessor /\ FlightsAreTrue
      BY <1>2, <1>3 DEF RInv
    <2>2. Status # "Running"
      BY <1>2, <1>3, NowFacts DEF Follows, StatusOf
    <2>3. \A b \in Agents : ~InFlight(agent[b])
      BY <2>1, <2>2 DEF FlightsAreTrue, FlightIsTrue
    <2>4. NoCarrier'
      BY <1>2, <1>3 DEF NoCarrier
    <2>5. ASSUME NEW b \in Agents PROVE FlightIsTrue(agent[b])'
      <3>1. CASE b = a
        BY <1>2, <2>4, <3>1 DEF Moves, FlightIsTrue, InFlight
      <3>2. CASE b # a
        <4>1. agent'[b] = agent[b] /\ ~InFlight(agent[b])
          BY <2>3, <3>2 DEF Moves
        <4>2. QED
          BY <2>4, <4>1 DEF FlightIsTrue, InFlight
      <3>3. QED
        BY <3>1, <3>2
    <2>6. \A b, c \in Agents : InFlight(agent[b])' /\ InFlight(agent[c])' => b = c
      BY <2>3 DEF Moves, InFlight
    <2>7. FlightsAreTrue'
      BY <2>5, <2>6 DEF FlightsAreTrue
    <2>8. InFlight(agent[a])'
      BY DEF Moves, InFlight
    <2>9. QED
      BY <2>7, <2>8 DEF Carried
  <1>4. QED
    BY <1>1, <1>2, <1>3 DEF RInv

\* The process and its handle for what is in flight.
LEMMA LandStep ==
    ASSUME IInv, IInv', RInv, up, history' = history, NEW a \in Agents, InFlight(agent[a]),
           NEW r, NEW status, OneSuccessor => r = Now.run,
           handles' = Append(handles, NewHandle(r, agent[a].head)),
           Insert(r, Len(handles) + 1, status), NEW g, Moves(a, g), ~InFlight(g),
           g.at \notin {"append", "respawn"}, r \in Runs
    PROVE  RInv'
  <1>0. PICK new \in Nat : new = Len(handles) + 1
    BY DEF IInv, TypeOK
  <1>1. /\ handles \in Seq(HandleType) /\ Len(handles) \in Nat /\ Len(handles') = new
        /\ \A h \in 1 .. Len(handles) : handles'[h] = handles[h]
        /\ handles'[new] = NewHandle(r, agent[a].head)
    <2>1. handles \in Seq(HandleType) /\ handles' \in Seq(HandleType)
      BY DEF IInv, TypeOK
    <2>2. QED
      BY <1>0, <2>1
  <1>2. handles'[new].run = r /\ handles'[new].head = agent[a].head
    BY <1>1 DEF NewHandle, Handle
  <1>3. index' = new /\ new \in Handles /\ new \in Agents
    <2>1. index' = new
      BY <1>0 DEF Insert
    <2>2. new # 0
      BY <1>0, <1>1
    <2>3. QED
      BY <2>1, <2>2 DEF IInv, TypeOK, Agents
  <1>4. agent[new] = Idle /\ new # a /\ agent'[new] = Idle
    <2>1. agent[new] = Idle
      BY <1>0, <1>1, <1>3 DEF RInv, MonitorsAreTrue
    <2>2. ~InFlight(Idle)
      BY DEF InFlight, Idle, Agent
    <2>3. QED
      BY <1>3, <2>1, <2>2 DEF Moves
  <1>5. MonitorsAreTrue'
    <2>1. ASSUME NEW h \in Handles, h \in 1 .. Len(handles') => handles'[h].proc = "alive"
          PROVE  agent'[h] = Idle
      <3>1. CASE h = new
        BY <1>4, <3>1
      <3>2. CASE h # new
        <4>1. h \in 1 .. Len(handles) => handles[h].proc = "alive"
          BY <1>0, <1>1, <2>1
        <4>2. agent[h] = Idle /\ h \in Agents
          BY <4>1 DEF RInv, MonitorsAreTrue, Agents
        <4>3. ~InFlight(Idle)
          BY DEF InFlight, Idle, Agent
        <4>4. QED
          BY <4>2, <4>3 DEF Moves
      <3>3. QED
        BY <3>1, <3>2
    <2>2. QED
      BY <2>1 DEF MonitorsAreTrue
  <1>6. RespawnsAreTrue' /\ NeverReopened'
    BY DEF RespawnsAreTrue, NeverReopened, RInv, Moves
  <1>7. Now' = Now /\ Len(history') = Len(history) /\ Status' = Status
    BY DEF Now, Status
  <1>8. ASSUME OneSuccessor' PROVE FlightsAreTrue' /\ Carried'
    <2>1. OneSuccessor /\ r = Now.run
      BY <1>8 DEF OneSuccessor
    <2>2. FlightsAreTrue
      BY <2>1 DEF RInv
    <2>3. agent[a].head = Len(history) /\ Status = "Running" /\ NoCarrier
      BY <2>2 DEF FlightsAreTrue, FlightIsTrue
    <2>4. \A b \in Agents : ~InFlight(agent'[b])
      BY <2>2 DEF FlightsAreTrue, Moves
    <2>5. ASSUME NEW b \in Agents PROVE ~(agent'[b].at = "append" /\ agent'[b].head = Len(history'))
      <3>1. SUFFICES ASSUME agent'[b].at = "append", agent'[b].head = Len(history') PROVE FALSE
        OBVIOUS
      <3>2. agent[b].at = "append" /\ agent[b].head = Len(history)
        BY <1>7, <3>1 DEF Moves
      <3>3. agent[b].op = "resume" \/ agent[b].op = "reopen"
        BY <3>2 DEF IInv, AgentsAreTrue, AgentIsTrue, OpsAt
      <3>4. StillValid(agent[b].op, agent[b].run)
        BY <3>2 DEF IInv, AgentsAreTrue, AgentIsTrue
      <3>5. Now.type \in {"Paused", "Failed", "Cancelled"}
        BY <2>1, <3>3, <3>4 DEF StillValid, Now
      <3>6. QED
        BY <2>3, <3>5, NowFacts DEF StatusOf
    <2>6. FlightsAreTrue'
      BY <2>4, <2>5 DEF FlightsAreTrue, FlightIsTrue, InFlight
    <2>7. Carrier(new)'
      <3>1. registry'[r].handle = new /\ registry'[r].residency = "Resident"
        BY <1>0 DEF Insert, IInv, TypeOK, Entry
      <3>2. \A k \in 1 .. Len(handles') : handles'[k].run = Now.run => k = new
        BY <1>0, <1>1, <2>3 DEF NoCarrier
      <3>3. QED
        BY <1>2, <1>3, <1>4, <1>7, <2>1, <2>3, <3>1, <3>2 DEF Carrier
    <2>8. new \in 1 .. Len(handles')
      BY <1>0, <1>1
    <2>9. Carried'
      BY <2>7, <2>8 DEF Carried
    <2>10. QED
      BY <2>6, <2>9
  <1>9. QED
    BY <1>5, <1>6, <1>8 DEF RInv

-----------------------------------------------------------------------------
(* The steps.                                                              *)

LEMMA MovesBy ==
    ASSUME IInv, IInv', NEW a \in Agents, NEW g, agent' = [agent EXCEPT ![a] = g]
    PROVE  Moves(a, g)
  BY DEF IInv, TypeOK, Moves

LEMMA Awake ==
    ASSUME RInv, NEW h \in Handles, agent[h] # Idle
    PROVE  h \in 1 .. Len(handles) /\ handles[h].proc # "alive"
  BY DEF RInv, MonitorsAreTrue

LEMMA CallerFacts ==
    ASSUME NEW c \in Callers \cup {Sweeper}
    PROVE  c \in Agents /\ c \notin Handles
  BY AgentsAssumption DEF Agents

LEMMA EndsAreIdle ==
    /\ Idle.at = "idle" /\ Done.at = "done"
    /\ ~InFlight(Idle) /\ ~InFlight(Done) /\ Unhandled(Idle) /\ Unhandled(Done)
  BY DEF Idle, Done, Agent, InFlight, Unhandled

\* A step of an agent that changes nothing else.
LEMMA OwnQuietStep ==
    ASSUME IInv, IInv', RInv, up, UNCHANGED <<history, handles, registry, index>>,
           NEW a \in Agents, NEW g, Moves(a, g), SameFlight(agent[a], g), Unhandled(g),
           g.at # "append", a \notin Handles \/ agent[a] # Idle
    PROVE  RInv'
  <1>1. Steady /\ \A h \in 1 .. Len(handles) : handles'[h].head = handles[h].head
    BY DEF Steady
  <1>2. a \in Handles => a \in 1 .. Len(handles) /\ handles'[a].proc # "alive"
    BY Awake
  <1>3. \A h \in 1 .. Len(handles) : Carrier(h) => h # a
    BY CarrierFacts DEF Carrier
  <1>4. QED
    BY <1>1, <1>2, <1>3, QuietStep

LEMMA ExitsReach ==
    ASSUME IInv, IInv', RInv, NEW h \in Handles, NEW why \in {"Completed", "Failed"},
           ProcessExits(h, why)
    PROVE  RInv'
  <1>1. Sweeper \in Agents /\ Sweeper \notin Handles
    BY CallerFacts
  <1>2. /\ up /\ h \in 1 .. Len(handles) /\ handles[h].proc = "alive"
        /\ handles' = [handles EXCEPT ![h].proc = why]
        /\ UNCHANGED <<history, registry, index, agent>>
    BY DEF ProcessExits, Alive, IInv, TypeOK
  <1>3. /\ Len(handles') = Len(handles)
        /\ \A k \in 1 .. Len(handles) :
               /\ handles'[k].run = handles[k].run /\ handles'[k].head = handles[k].head
               /\ handles'[k].proc = "alive" => handles[k].proc = "alive"
    <2>1. handles \in Seq(HandleType) /\ \A k \in 1 .. Len(handles) : handles[k] \in HandleType
      BY DEF IInv, TypeOK
    <2>2. QED
      BY <1>2, <2>1 DEF HandleType
  <1>4. Moves(Sweeper, agent[Sweeper])
    BY <1>1, <1>2, AgentStays DEF IInv
  <1>5. SameFlight(agent[Sweeper], agent[Sweeper]) /\ Unhandled(agent[Sweeper])
    BY <1>1 DEF SameFlight, Unhandled, RInv, RespawnsAreTrue
  <1>6. ASSUME OneSuccessor, agent[Sweeper].at = "append", agent[Sweeper].head = Len(history)
        PROVE  NoCarrier
    BY <1>1, <1>6 DEF RInv, FlightsAreTrue, FlightIsTrue
  <1>7. \A k \in 1 .. Len(handles) : Carrier(k) => k # Sweeper
    BY CarrierFacts
  <1>8. Steady
    BY <1>3 DEF Steady
  <1>9. QED
    BY <1>1, <1>2, <1>3, <1>4, <1>5, <1>6, <1>7, <1>8, QuietStep

LEMMA NifReach ==
    ASSUME IInv, IInv', RInv, NEW h \in Handles, NifContinueAsNew(h)
    PROVE  RInv'
  <1> DEFINE e == Event("ContinuedAsNew", handles[h].run, 0)
             K == Handle(handles[h].run, Len(history) + 1, "killed", handles[h].told)
  <1>2. /\ up /\ h \in 1 .. Len(handles) /\ history' = Append(history, e)
        /\ handles' = [handles EXCEPT ![h] = K] /\ UNCHANGED <<registry, index, agent>>
    BY DEF NifContinueAsNew, Alive, IInv, TypeOK
  <1>3. /\ K.run = handles[h].run /\ K.head = Len(history) + 1 /\ K.proc = "killed"
        /\ e.type = "ContinuedAsNew" /\ e.run = handles[h].run
    BY DEF Handle, Event
  <1>4. e \in Events /\ e.type \in Terminals /\ e.type \notin Resets
    <2>1. handles[h].run \in Runs /\ 0 \in 0 .. MaxRuns
      BY <1>2, HandleFields, BoundsAssumption DEF IInv
    <2>2. QED
      BY <2>1 DEF Event, Events, Terminals, Resets
  <1> HIDE DEF e, K
  <1>5. Steady /\ handles'[h].head = Len(history) + 1
    <2>1. handles \in Seq(HandleType)
      BY DEF IInv, TypeOK
    <2>2. QED
      BY <1>2, <1>3, <2>1 DEF Steady
  <1>6. h \in Agents /\ Moves(h, agent[h])
    BY <1>2, AgentStays DEF IInv, Agents
  <1>7. agent[h] = Idle
    BY DEF RInv, MonitorsAreTrue, NifContinueAsNew, Alive
  <1>8. QED
    BY <1>2, <1>3, <1>4, <1>5, <1>6, <1>7, EndsAreIdle, RecordStep

LEMMA MonitorRecordsReach ==
    ASSUME IInv, IInv', RInv, NEW h \in Handles, MonitorRecords(h)
    PROVE  RInv'
  <1> DEFINE q == handles[h].run
             existing == MonitorTerminal(h)
             e == Event(ExitRecord(h), q, 0)
  <1>1. /\ up /\ h \in 1 .. Len(handles) /\ agent[h].at = "idle" /\ handles[h].proc # "alive"
        /\ h \in Agents /\ UNCHANGED <<registry, index>>
    BY DEF MonitorRecords, IInv, TypeOK, Agents
  <1>2. q \in StartedRuns /\ q \in Runs /\ handles \in Seq(HandleType)
    BY <1>1, HandleFields DEF IInv, HandlesAreStarted, TypeOK
  <1>3. ASSUME NEW s, agent' = [agent EXCEPT ![h] = Agent("read", "monitor", q, h, 0, s)]
        PROVE  /\ Moves(h, Agent("read", "monitor", q, h, 0, s))
               /\ SameFlight(agent[h], Agent("read", "monitor", q, h, 0, s))
               /\ ~InFlight(Agent("read", "monitor", q, h, 0, s))
               /\ Unhandled(Agent("read", "monitor", q, h, 0, s))
               /\ Agent("read", "monitor", q, h, 0, s).at # "append"
    BY <1>1, <1>3, MovesBy DEF SameFlight, InFlight, Unhandled, Agent
  <1>4. CASE existing # "None"
    <2>1. /\ handles' = [handles EXCEPT ![h].told = Published(h, existing)]
          /\ agent' = [agent EXCEPT ![h] = Agent("read", "monitor", q, h, 0, existing)]
          /\ history' = history
      BY <1>4 DEF MonitorRecords
    <2>2. /\ Steady /\ \A k \in 1 .. Len(handles) : handles'[k].head = handles[k].head
          /\ handles'[h].proc # "alive"
      <3>1. \A k \in 1 .. Len(handles) : handles[k] \in HandleType
        BY <1>2
      <3>2. QED
        BY <1>1, <1>2, <2>1, <3>1 DEF Steady, HandleType
    <2>3. ASSUME OneSuccessor, Now.type \notin Terminals, NEW k \in 1 .. Len(handles), Carrier(k)
          PROVE  k # h
      BY <1>2, <1>4, <2>3, OpenLease DEF MonitorTerminal, Carrier, RInv
    <2> HIDE DEF existing, q
    <2>4. QED
      BY <1>1, <1>3, <2>1, <2>2, <2>3, QuietStep
  <1>5. CASE existing = "None" /\ HeadIsCurrent(handles[h].head)
    <2> DEFINE K == Handle(q, Len(history) + 1, handles[h].proc, Published(h, existing))
    <2>1. /\ history' = Append(history, e)
          /\ handles' = [handles EXCEPT ![h] = K]
          /\ agent' = [agent EXCEPT ![h] = Agent("read", "monitor", q, h, 0, ExitRecord(h))]
      BY <1>1, <1>2, <1>5 DEF MonitorRecords
    <2>2. K.run = q /\ K.head = Len(history) + 1 /\ K.proc = handles[h].proc
      BY DEF Handle
    <2>3. /\ e \in Events /\ e.type \in Terminals /\ e.type \notin Resets /\ e.run = q
      <3>1. ExitRecord(h) \in {"Completed", "Failed"} /\ 0 \in 0 .. MaxRuns
        BY BoundsAssumption DEF ExitRecord
      <3>2. QED
        BY <1>2, <3>1 DEF Event, Events, Terminals, Resets
    <2> HIDE DEF e, K, existing
    <2>4. Steady /\ handles'[h].head = Len(history) + 1 /\ handles'[h].proc # "alive"
      BY <1>1, <1>2, <2>1, <2>2 DEF Steady
    <2> HIDE DEF q
    <2>5. handles[h].run = e.run
      BY <2>3 DEF q
    <2>6. QED
      BY <1>1, <1>3, <2>1, <2>3, <2>4, <2>5, RecordStep
  <1>6. CASE existing = "None" /\ ~HeadIsCurrent(handles[h].head)
    <2>1. agent' = [agent EXCEPT ![h] = Done] /\ UNCHANGED <<history, handles>>
      BY <1>6 DEF MonitorRecords
    <2>2. Moves(h, Done) /\ SameFlight(agent[h], Done) /\ Unhandled(Done) /\ Done.at # "append"
      BY <1>1, <2>1, MovesBy, EndsAreIdle DEF SameFlight, InFlight
    <2>3. \A k \in 1 .. Len(handles) : Carrier(k) => k # h
      BY <1>6 DEF Carrier, HeadIsCurrent
    <2>4. Steady /\ \A k \in 1 .. Len(handles) : handles'[k].head = handles[k].head
      BY <2>1 DEF Steady
    <2>5. QED
      BY <1>1, <2>1, <2>2, <2>3, <2>4, QuietStep
  <1>7. QED
    BY <1>4, <1>5, <1>6

LEMMA MonitorReadsReach ==
    ASSUME IInv, IInv', RInv, NEW h \in Handles, MonitorReads(h)
    PROVE  RInv'
  <1> DEFINE g == Agent("reconcile", agent[h].op, agent[h].run, agent[h].handle, Len(history),
                        agent[h].seen)
  <1>1. /\ up /\ agent[h].at = "read" /\ GotoAt(h, "reconcile", Len(history)) /\ h \in Agents
        /\ UNCHANGED <<history, handles, registry, index>>
    BY DEF MonitorReads, Agents
  <1>2. Moves(h, g)
    BY <1>1, GotoAtMoves, NowFacts DEF IInv, Steps
  <1>3. SameFlight(agent[h], g) /\ Unhandled(g) /\ g.at # "append" /\ agent[h] # Idle
    BY <1>1 DEF SameFlight, InFlight, Unhandled, Agent, Idle
  <1> HIDE DEF g
  <1>4. QED
    BY <1>1, <1>2, <1>3, OwnQuietStep

LEMMA MonitorReconcilesReach ==
    ASSUME IInv, IInv', RInv, NEW h \in Handles, MonitorReconciles(h)
    PROVE  RInv'
  <1>1. /\ up /\ agent[h].at = "reconcile" /\ h \in Agents /\ UNCHANGED <<history, handles, index>>
        /\ agent[h] # Idle
        /\ \/ agent[h].seen = "ContinuedAsNew" /\ Goto(h, "check")
           \/ agent' = [agent EXCEPT ![h] = Done]
    BY DEF MonitorReconciles, Agents, Idle, Agent
  <1>2. \E g : /\ Moves(h, g) /\ SameFlight(agent[h], g) /\ Unhandled(g) /\ g.at # "append"
    <2>1. CASE Goto(h, "check")
      <3> DEFINE g == Agent("check", agent[h].op, agent[h].run, agent[h].handle, agent[h].head,
                            agent[h].seen)
      <3>1. Moves(h, g)
        BY <1>1, <2>1, GotoMoves DEF IInv, Steps
      <3>2. SameFlight(agent[h], g) /\ Unhandled(g) /\ g.at # "append"
        BY <1>1 DEF SameFlight, InFlight, Unhandled, Agent
      <3>3. QED
        BY <3>1, <3>2
    <2>2. CASE agent' = [agent EXCEPT ![h] = Done]
      BY <1>1, <2>2, MovesBy, EndsAreIdle DEF SameFlight, InFlight
    <2>3. QED
      BY <1>1, <2>1, <2>2
  <1>3. ASSUME OneSuccessor, Now.type \notin Terminals PROVE registry'[Now.run] = registry[Now.run]
    <2>1. agent[h].seen \in Terminals /\ Recorded(agent[h].seen, agent[h].run)
      BY <1>1, AgentFields DEF IInv, AgentsAreTrue, AgentIsTrue
    <2>2. Now.run # agent[h].run
      BY <1>3, <2>1, EndedIsOver DEF RInv
    <2>3. QED
      BY <2>2, NowFacts DEF MonitorReconciles, IInv, TypeOK
  <1>4. Steady /\ \A k \in 1 .. Len(handles) : handles'[k].head = handles[k].head
    BY <1>1 DEF Steady
  <1>5. \A k \in 1 .. Len(handles) : Carrier(k) => k # h
    BY <1>1 DEF Carrier
  <1>6. h \in 1 .. Len(handles) /\ handles'[h].proc # "alive"
    BY <1>1, Awake
  <1>7. QED
    BY <1>1, <1>2, <1>3, <1>4, <1>5, <1>6, QuietStep

LEMMA MonitorChecksReach ==
    ASSUME IInv, IInv', RInv, NEW h \in Handles, MonitorChecks(h)
    PROVE  RInv'
  <1>1. /\ up /\ agent[h].at = "check" /\ h \in Agents /\ agent[h] # Idle
        /\ UNCHANGED <<history, handles, registry, index>>
        /\ Goto(h, "head") \/ agent' = [agent EXCEPT ![h] = Done]
    BY DEF MonitorChecks, Agents, Idle, Agent
  <1>2. CASE Goto(h, "head")
    <2> DEFINE g == Agent("head", agent[h].op, agent[h].run, agent[h].handle, agent[h].head,
                          agent[h].seen)
    <2>1. Moves(h, g)
      BY <1>1, <1>2, GotoMoves DEF IInv, Steps
    <2>2. SameFlight(agent[h], g) /\ Unhandled(g) /\ g.at # "append"
      BY <1>1 DEF SameFlight, InFlight, Unhandled, Agent
    <2> HIDE DEF g
    <2>3. QED
      BY <1>1, <2>1, <2>2, OwnQuietStep
  <1>3. CASE agent' = [agent EXCEPT ![h] = Done]
    <2>1. Moves(h, Done) /\ SameFlight(agent[h], Done) /\ Unhandled(Done) /\ Done.at # "append"
      BY <1>1, <1>3, MovesBy, EndsAreIdle DEF SameFlight, InFlight
    <2>2. QED
      BY <1>1, <2>1, OwnQuietStep
  <1>4. QED
    BY <1>1, <1>2, <1>3

LEMMA StartReadsReach ==
    ASSUME IInv, IInv', RInv, NEW a \in Agents, StartReadsHead(a)
    PROVE  RInv'
  <1> DEFINE g == Agent("start", agent[a].op, agent[a].run, agent[a].handle, Len(history),
                        agent[a].seen)
  <1>1. /\ up /\ agent[a].at = "head" /\ GotoAt(a, "start", Len(history))
        /\ UNCHANGED <<history, handles, registry, index>>
    BY DEF StartReadsHead
  <1>2. Moves(a, g)
    BY <1>1, GotoAtMoves, NowFacts DEF IInv, Steps
  <1>3. SameFlight(agent[a], g) /\ Unhandled(g) /\ g.at # "append" /\ agent[a] # Idle
    BY <1>1 DEF SameFlight, InFlight, Unhandled, Agent, Idle
  <1> HIDE DEF g
  <1>4. QED
    BY <1>1, <1>2, <1>3, OwnQuietStep

LEMMA StartAppendsReach ==
    ASSUME IInv, IInv', RInv, NEW a \in Agents, StartAppends(a)
    PROVE  RInv'
  <1>1. /\ up /\ agent[a].at = "start" /\ agent[a] # Idle /\ UNCHANGED <<handles, registry, index>>
    BY DEF StartAppends, Idle, Agent
  <1>2. CASE HeadIsCurrent(agent[a].head)
    <2> DEFINE e == Event("Started", NextRun, agent[a].run)
               g == Agent("publish", agent[a].op, agent[a].run, agent[a].handle,
                          Len(history) + 1, agent[a].seen)
    <2>1. /\ NextRun <= MaxRuns /\ history' = Append(history, e)
          /\ GotoAt(a, "publish", Len(history) + 1)
      BY <1>2 DEF StartAppends
    <2>2. CurrentRun \in 1 .. MaxRuns /\ MaxRuns \in Nat /\ NextRun = CurrentRun + 1
      BY Numbers DEF NextRun
    <2>3. NextRun \in Runs /\ agent[a].run \in 0 .. MaxRuns
      BY <2>1, <2>2, AgentFields DEF Runs, IInv
    <2>4. e \in Events /\ e.type = "Started" /\ e.run = NextRun
      BY <2>3 DEF Event, Events, Resets
    <2>5. Moves(a, g)
      BY <2>1, GotoAtMoves, NowFacts DEF IInv, Steps
    <2>6. /\ InFlight(g) /\ g.at \notin {"append", "respawn"} /\ g.head = Len(history) + 1
          /\ g.op # "resume"
      BY <1>1 DEF InFlight, Agent, IInv, AgentsAreTrue, AgentIsTrue, OpsAt
    <2>7. ASSUME NEW h \in 1 .. Len(handles) PROVE handles[h].run # NextRun
      <3>1. handles[h].run \in StartedRuns /\ handles[h].run \in Runs
        BY HandleFields DEF IInv, HandlesAreStarted
      <3>2. PICK i \in 1 .. Len(history) : history[i].run = handles[h].run
        BY <3>1 DEF StartedRuns
      <3>3. history[i].run <= CurrentRun
        BY NowFacts, CurrentRunIsLast DEF IInv, IsNumbered, CurrentIsLast
      <3>4. QED
        BY <2>2, <3>1, <3>2, <3>3 DEF Runs
    <2>8. a \in Handles => a \in 1 .. Len(handles) /\ handles[a].proc # "alive"
      BY <1>1, Awake
    <2> HIDE DEF e, g
    <2>9. QED
      BY <1>1, <2>1, <2>4, <2>5, <2>6, <2>7, <2>8, LaunchStep
  <1>3. CASE ~HeadIsCurrent(agent[a].head)
    <2>1. /\ history' = history
          /\ agent' = [agent EXCEPT ![a] = Idle] \/ agent' = [agent EXCEPT ![a] = Done]
      BY <1>3 DEF StartAppends, AfterStart
    <2>2. ~InFlight(agent[a])
      BY <1>1 DEF InFlight
    <2>3. PICK g \in {Idle, Done} : agent' = [agent EXCEPT ![a] = g]
      BY <2>1
    <2>4. Moves(a, g) /\ SameFlight(agent[a], g) /\ Unhandled(g) /\ g.at # "append"
      BY <2>2, <2>3, MovesBy, EndsAreIdle DEF SameFlight
    <2>5. QED
      BY <1>1, <2>1, <2>4, OwnQuietStep
  <1>4. QED
    BY <1>2, <1>3

LEMMA StartPublishesReach ==
    ASSUME IInv, IInv', RInv, NEW a \in Agents, StartPublishes(a)
    PROVE  RInv'
  <1> DEFINE r == history[agent[a].head].run
             g == AfterStart(a, TRUE)
  <1>1. /\ up /\ agent[a].at = "publish" /\ history' = history
        /\ handles' = Append(handles, NewHandle(r, agent[a].head))
        /\ Insert(r, Len(handles) + 1, "Running") /\ agent' = [agent EXCEPT ![a] = g]
    BY DEF StartPublishes
  <1>2. InFlight(agent[a])
    BY <1>1 DEF InFlight
  <1>3. OneSuccessor => r = Now.run
    BY <1>2 DEF RInv, FlightsAreTrue, FlightIsTrue, Now
  <1>4. r \in Runs
    <2>1. agent[a].head \in 1 .. Len(history)
      BY <1>1, AgentFields, NowFacts DEF IInv, AgentsAreTrue, AgentIsTrue
    <2>2. history[agent[a].head] \in Events
      BY <2>1, NowFacts
    <2>3. QED
      BY <2>2 DEF Events
  <1>5. g.at \in {"idle", "done", "deregister"}
    BY AgentFields, EndsAreIdle DEF AfterStart, IInv, AgentType
  <1>6. ~InFlight(g) /\ g.at \notin {"append", "respawn"}
    BY <1>5 DEF InFlight
  <1> HIDE DEF g, r
  <1>7. Moves(a, g)
    BY <1>1, MovesBy
  <1>8. QED
    BY <1>1, <1>2, <1>3, <1>4, <1>6, <1>7, LandStep

LEMMA BeginReach ==
    ASSUME IInv, IInv', RInv, NEW c \in Callers, NEW op \in Ops, NEW run \in StartedRuns,
           Begin(c, op, run)
    PROVE  RInv'
  <1> DEFINE g == Agent(FirstStep(op, run), op, run, registry[run].handle, Len(history), "None")
  <1>1. /\ up /\ agent[c] = Idle /\ Admits(op, run) /\ agent' = [agent EXCEPT ![c] = g]
        /\ UNCHANGED <<history, handles, registry, index>> /\ c \in Agents /\ c \notin Handles
    BY CallerFacts DEF Begin
  <1>2. Moves(c, g)
    BY <1>1, MovesBy
  <1>3. /\ g.at \in {"evict", "append", "record"} /\ g.handle = registry[run].handle
        /\ g.at = "append" => op = "resume" /\ registry[run].handle = 0
    BY DEF FirstStep, Agent
  <1>4. SameFlight(agent[c], g) /\ Unhandled(g)
    BY <1>1, <1>3, EndsAreIdle DEF SameFlight, InFlight, Unhandled
  <1>5. ASSUME OneSuccessor, g.at = "append" PROVE NoCarrier
    <2>1. op = "resume" /\ registry[run].handle = 0 /\ SegmentStatus(run) = "Paused"
      BY <1>1, <1>3, <1>5 DEF Admits
    <2>2. Now.run = run /\ StatusOf(Now.type) = "Paused"
      BY <1>5, <2>1, SegmentTells DEF IInv, TypeOK, UnforkedIsLinear, Now
    <2>3. Now.type = "Paused" /\ Now.type \notin Terminals /\ Status # "Running"
      BY <2>2, StatusFacts, NowFacts DEF Terminals
    <2>4. FlightsAreTrue /\ Carried
      BY <1>5 DEF RInv
    <2>5. \A b \in Agents : ~InFlight(agent[b])
      BY <2>3, <2>4 DEF FlightsAreTrue, FlightIsTrue
    <2>6. ASSUME NEW h \in 1 .. Len(handles), Carrier(h) PROVE FALSE
      <3>1. h = 0
        BY <2>1, <2>2, <2>6 DEF Carrier
      <3>2. QED
        BY <3>1 DEF IInv, TypeOK
    <2>7. Asleep
      BY <1>1, <2>3, <2>4, <2>5, <2>6 DEF Carried
    <2>8. QED
      BY <2>7 DEF Asleep
  <1>6. Steady /\ \A h \in 1 .. Len(handles) : handles'[h].head = handles[h].head
    BY <1>1 DEF Steady
  <1>7. \A h \in 1 .. Len(handles) : Carrier(h) => h # c
    BY CarrierFacts
  <1> HIDE DEF g
  <1>8. QED
    BY <1>1, <1>2, <1>4, <1>5, <1>6, <1>7, QuietStep

\* A call that ends without a word.
LEMMA FinishReach ==
    ASSUME IInv, IInv', RInv, up, NEW c \in Callers, ~InFlight(agent[c]), Finish(c),
           UNCHANGED <<history, handles, registry, index>>
    PROVE  RInv'
  <1>1. c \in Agents /\ c \notin Handles
    BY CallerFacts
  <1>2. Moves(c, Idle) /\ SameFlight(agent[c], Idle) /\ Unhandled(Idle) /\ Idle.at # "append"
    BY <1>1, MovesBy, EndsAreIdle DEF Finish, SameFlight
  <1>3. QED
    BY <1>1, <1>2, OwnQuietStep

\* A call goes to a step that is neither an append nor a respawn.
LEMMA CallGoes ==
    ASSUME IInv, NEW c \in Callers, NEW at \in Steps \ {"append", "respawn", "publish"},
           Goto(c, at),
           at = "release" => agent[c].op # "resume" \/ agent[c].handle # 0
    PROVE  \E g : Moves(c, g) /\ ~InFlight(g) /\ Unhandled(g) /\ g.at # "append"
  <1> DEFINE g == Agent(at, agent[c].op, agent[c].run, agent[c].handle, agent[c].head,
                        agent[c].seen)
  <1>1. Moves(c, g)
    BY CallerFacts, GotoMoves DEF IInv
  <1>2. ~InFlight(g) /\ Unhandled(g) /\ g.at # "append"
    BY DEF InFlight, Unhandled, Agent
  <1>3. QED
    BY <1>1, <1>2

LEMMA CallRecordsReach ==
    ASSUME IInv, IInv', RInv, NEW c \in Callers, CallRecords(c)
    PROVE  RInv'
  <1> DEFINE op == agent[c].op
             h == agent[c].handle
             e == Event(Records(op), handles[h].run, 0)
  <1>1. /\ up /\ agent[c].at = "record" /\ UNCHANGED <<registry, index>>
        /\ c \in Agents /\ c \notin Handles
    BY CallerFacts DEF CallRecords
  <1>2. ~InFlight(agent[c])
    BY <1>1 DEF InFlight
  <1>3. CASE ~(Revalidates(op, agent[c].run) /\ HeadIsCurrent(handles[h].head))
    BY <1>1, <1>2, <1>3, FinishReach DEF CallRecords
  <1>4. CASE Revalidates(op, agent[c].run) /\ HeadIsCurrent(handles[h].head)
    <2>1. AppendThrough(h, Records(op)) /\ Goto(c, AfterRecord(op))
      BY <1>4 DEF CallRecords
    <2>2. op \in {"cancel", "pause", "resume", "continue"} /\ h # 0 /\ h \in 1 .. Len(handles)
      BY <1>1 DEF IInv, AgentsAreTrue, AgentIsTrue, OpsAt
    <2>3. /\ history' = Append(history, e)
          /\ handles' = [handles EXCEPT ![h].head = Len(history) + 1]
      BY <2>1 DEF AppendThrough
    <2>4. /\ AfterRecord(op) \in Steps \ {"append", "respawn", "publish"}
          /\ Records(op) \in {"Cancelled", "Paused", "Resumed", "ContinuedAsNew"}
      BY <2>2 DEF AfterRecord, Records, Steps
    <2>5. PICK g : Moves(c, g) /\ ~InFlight(g) /\ Unhandled(g) /\ g.at # "append"
      BY <2>1, <2>2, <2>4, CallGoes
    <2>6. e \in Events /\ e.type \notin Resets /\ e.run = handles[h].run
      <3>1. handles[h].run \in Runs /\ 0 \in 0 .. MaxRuns
        BY <2>2, HandleFields, BoundsAssumption DEF IInv
      <3>2. QED
        BY <2>4, <3>1 DEF Event, Events, Terminals, Resets
    <2>7. Steady /\ handles'[h].head = Len(history) + 1
      <3>1. handles \in Seq(HandleType) /\ \A k \in 1 .. Len(handles) : handles[k] \in HandleType
        BY DEF IInv, TypeOK
      <3>2. QED
        BY <2>2, <2>3, <3>1 DEF Steady, HandleType
    <2> HIDE DEF e, op, h
    <2>8. QED
      BY <1>1, <2>2, <2>3, <2>5, <2>6, <2>7, RecordStep
  <1>5. QED
    BY <1>3, <1>4

LEMMA CancelKillsReach ==
    ASSUME IInv, IInv', RInv, NEW c \in Callers, CancelKills(c)
    PROVE  RInv'
  <1> DEFINE h == agent[c].handle
  <1>1. /\ up /\ agent[c].at = "kill" /\ Goto(c, "deregister")
        /\ handles' = [handles EXCEPT ![h].proc =
                           IF handles[h].proc = "alive" THEN "killed" ELSE handles[h].proc]
        /\ UNCHANGED <<history, registry, index>> /\ c \in Agents /\ c \notin Handles
    BY CallerFacts DEF CancelKills
  <1>2. ~InFlight(agent[c])
    BY <1>1 DEF InFlight
  <1>3. PICK g : Moves(c, g) /\ ~InFlight(g) /\ Unhandled(g) /\ g.at # "append"
    BY <1>1, CallGoes DEF Steps
  <1>4. h \in 1 .. Len(handles)
    BY <1>1 DEF IInv, AgentsAreTrue, AgentIsTrue, OpsAt
  <1>5. Steady /\ \A k \in 1 .. Len(handles) : handles'[k].head = handles[k].head
    <2>1. handles \in Seq(HandleType) /\ \A k \in 1 .. Len(handles) : handles[k] \in HandleType
      BY DEF IInv, TypeOK
    <2>2. QED
      BY <1>1, <1>4, <2>1 DEF Steady, HandleType
  <1>6. \A k \in 1 .. Len(handles) : Carrier(k) => k # c
    BY CarrierFacts
  <1>7. SameFlight(agent[c], g)
    BY <1>2, <1>3 DEF SameFlight
  <1>8. QED
    BY <1>1, <1>3, <1>5, <1>6, <1>7, QuietStep

LEMMA CallDeregistersReach ==
    ASSUME IInv, IInv', RInv, NEW c \in Callers, CallDeregisters(c)
    PROVE  RInv'
  <1> DEFINE h == agent[c].handle
             q == agent[c].run
  <1>1. /\ up /\ agent[c].at = "deregister" /\ Remove(q)
        /\ handles' = [handles EXCEPT ![h].told = Records(agent[c].op)]
        /\ (agent[c].op = "cancel" /\ Goto(c, "release")) \/ Finish(c)
        /\ history' = history /\ c \in Agents /\ c \notin Handles
    BY CallerFacts DEF CallDeregisters
  <1>2. /\ ~InFlight(agent[c]) /\ h \in 1 .. Len(handles)
        /\ Recorded("Cancelled", q) \/ Recorded("ContinuedAsNew", q)
    BY <1>1 DEF InFlight, IInv, AgentsAreTrue, AgentIsTrue, OpsAt
  <1>3. \E g : Moves(c, g) /\ ~InFlight(g) /\ Unhandled(g) /\ g.at # "append"
    <2>1. CASE Finish(c)
      BY <1>1, <2>1, MovesBy, EndsAreIdle DEF Finish
    <2>2. CASE agent[c].op = "cancel" /\ Goto(c, "release")
      BY <2>2, CallGoes DEF Steps
    <2>3. QED
      BY <1>1, <2>1, <2>2
  <1>4. Steady /\ \A k \in 1 .. Len(handles) : handles'[k].head = handles[k].head
    <2>1. handles \in Seq(HandleType) /\ \A k \in 1 .. Len(handles) : handles[k] \in HandleType
      BY DEF IInv, TypeOK
    <2>2. QED
      BY <1>1, <1>2, <2>1 DEF Steady, HandleType
  <1>5. \A k \in 1 .. Len(handles) : Carrier(k) => k # c
    BY CarrierFacts
  <1>6. ASSUME OneSuccessor, Now.type \notin Terminals
        PROVE  /\ registry'[Now.run] = registry[Now.run]
               /\ \A k \in 1 .. Len(handles) : Carrier(k) => index' = index
    <2>1. Now.run # q /\ Now.run \in Runs
      BY <1>2, <1>6, EndedIsOver, NowFacts DEF RInv, Terminals
    <2>2. QED
      BY <1>1, <2>1 DEF Remove, Carrier, IInv, TypeOK
  <1>7. PICK g : Moves(c, g) /\ SameFlight(agent[c], g) /\ Unhandled(g) /\ g.at # "append"
    BY <1>2, <1>3 DEF SameFlight
  <1>8. QED
    BY <1>1, <1>4, <1>5, <1>6, <1>7, QuietStep

LEMMA CallReleasesReach ==
    ASSUME IInv, IInv', RInv, NEW c \in Callers, CallReleases(c)
    PROVE  RInv'
  <1>1. /\ up /\ agent[c].at = "release" /\ UNCHANGED <<history, handles, registry, index>>
        /\ c \in Agents /\ c \notin Handles
    BY CallerFacts DEF CallReleases
  <1>2. CASE NeedsRespawn(c)
    <2> DEFINE g == Agent("respawn", agent[c].op, agent[c].run, agent[c].handle, agent[c].head,
                          agent[c].seen)
    <2>1. Moves(c, g)
      BY <1>1, <1>2, GotoMoves DEF CallReleases, IInv, Steps
    <2>2. SameFlight(agent[c], g) /\ Unhandled(g) /\ g.at # "append"
      BY <1>1, <1>2 DEF SameFlight, InFlight, Unhandled, NeedsRespawn, Agent
    <2> HIDE DEF g
    <2>3. QED
      BY <1>1, <2>1, <2>2, OwnQuietStep
  <1>3. CASE ~NeedsRespawn(c)
    <2>1. ~InFlight(agent[c]) /\ Finish(c)
      BY <1>1, <1>3 DEF InFlight, NeedsRespawn, CallReleases
    <2>2. QED
      BY <1>1, <2>1, FinishReach
  <1>4. QED
    BY <1>2, <1>3

LEMMA CallAppendsReach ==
    ASSUME IInv, IInv', RInv, "reopen" \notin Ops, NEW c \in Callers, CallAppends(c)
    PROVE  RInv'
  <1>1. /\ up /\ agent[c].at = "append" /\ UNCHANGED <<handles, registry, index>>
        /\ c \in Agents /\ c \notin Handles
    BY CallerFacts DEF CallAppends
  <1>2. agent[c].op = "resume" /\ agent[c].handle = 0 /\ agent[c].run \in StartedRuns
    <2>1. agent[c].op \in {"resume", "reopen"}
      BY <1>1 DEF IInv, AgentsAreTrue, AgentIsTrue, OpsAt
    <2>2. agent[c].op \in Ops \cup {"none", "monitor", "sweep"}
      BY <1>1, AgentFields DEF IInv
    <2>3. agent[c].op = "resume"
      BY <2>1, <2>2
    <2>4. QED
      BY <1>1, <2>3 DEF RInv, RespawnsAreTrue, IInv, AgentsAreTrue, AgentIsTrue, AllOps
  <1>3. CASE HeadIsCurrent(ValidatedHead(c))
    <2> DEFINE e == Event("Resumed", agent[c].run, 0)
               g == Agent("release", agent[c].op, agent[c].run, agent[c].handle,
                          Len(history) + 1, agent[c].seen)
    <2>1. history' = Append(history, e) /\ GotoAt(c, "release", Len(history) + 1)
      BY <1>2, <1>3 DEF CallAppends
    <2>2. e \in Events /\ e.type = "Resumed" /\ e.run = agent[c].run
      <3>1. agent[c].run \in Runs /\ 0 \in 0 .. MaxRuns
        BY <1>2, Numbers, BoundsAssumption
      <3>2. QED
        BY <3>1 DEF Event, Events
    <2>3. Moves(c, g)
      BY <1>1, <2>1, GotoAtMoves, NowFacts DEF IInv, Steps
    <2>4. /\ InFlight(g) /\ g.at \notin {"append", "respawn"} /\ g.head = Len(history) + 1
          /\ g.run = e.run
      BY <1>2, <2>2 DEF InFlight, Agent
    <2>5. ASSUME OneSuccessor' PROVE \A k \in 1 .. Len(handles) : handles[k].run # e.run
      <3>1. OneSuccessor /\ e.run = Now.run
        BY <2>1, <2>2, <2>5, GrownFacts DEF Follows
      <3>2. NoCarrier
        BY <1>1, <1>3, <3>1 DEF RInv, FlightsAreTrue, FlightIsTrue, HeadIsCurrent, ValidatedHead
      <3>3. QED
        BY <3>1, <3>2 DEF NoCarrier
    <2> HIDE DEF e, g
    <2>6. QED
      BY <1>1, <2>1, <2>2, <2>3, <2>4, <2>5, LaunchStep
  <1>4. CASE ~HeadIsCurrent(ValidatedHead(c))
    <2>1. Finish(c) /\ history' = history /\ ~InFlight(agent[c])
      BY <1>1, <1>4 DEF CallAppends, InFlight
    <2>2. QED
      BY <1>1, <2>1, FinishReach
  <1>5. QED
    BY <1>3, <1>4

LEMMA CallRespawnsReach ==
    ASSUME IInv, IInv', RInv, "reopen" \notin Ops, NEW c \in Callers, CallRespawns(c)
    PROVE  RInv'
  <1>1. /\ up /\ agent[c].at = "respawn" /\ history' = history /\ c \in Agents /\ Finish(c)
        /\ handles' = Append(handles, NewHandle(agent[c].run, agent[c].head))
        /\ Insert(agent[c].run, Len(handles) + 1, Status)
    BY CallerFacts DEF CallRespawns
  <1>2. agent[c].op = "resume" /\ agent[c].run \in StartedRuns
    <2>1. agent[c].op \in {"resume", "reopen"}
      BY <1>1 DEF IInv, AgentsAreTrue, AgentIsTrue, OpsAt
    <2>2. agent[c].op \in Ops \cup {"none", "monitor", "sweep"}
      BY <1>1, AgentFields DEF IInv
    <2>3. agent[c].op = "resume"
      BY <2>1, <2>2
    <2>4. QED
      BY <1>1, <2>3 DEF IInv, AgentsAreTrue, AgentIsTrue, AllOps
  <1>3. InFlight(agent[c])
    BY <1>1, <1>2 DEF InFlight, RInv, RespawnsAreTrue
  <1>4. OneSuccessor => agent[c].run = Now.run
    BY <1>1, <1>2, <1>3 DEF RInv, FlightsAreTrue, FlightIsTrue
  <1>5. agent[c].run \in Runs
    BY <1>2, Numbers
  <1>6. Moves(c, Idle) /\ ~InFlight(Idle) /\ Idle.at \notin {"append", "respawn"}
    BY <1>1, MovesBy, EndsAreIdle DEF Finish
  <1>7. QED
    BY <1>1, <1>3, <1>4, <1>5, <1>6, LandStep

LEMMA CrashReach ==
    ASSUME IInv, RInv, Crash
    PROVE  RInv'
  <1>1. /\ history' = history /\ ~up' /\ handles' = <<>> /\ agent' = [a \in Agents |-> Idle]
    BY DEF Crash
  <1>2. \A a \in Agents : agent'[a] = Idle
    BY <1>1
  <1>3. NeverReopened' /\ MonitorsAreTrue' /\ RespawnsAreTrue'
    BY <1>1, <1>2, EndsAreIdle DEF RInv, NeverReopened, MonitorsAreTrue, RespawnsAreTrue, Agents
  <1>4. FlightsAreTrue'
    BY <1>2 DEF FlightsAreTrue, FlightIsTrue, InFlight, Idle, Agent
  <1>5. Carried'
    BY <1>1 DEF Carried
  <1>6. QED
    BY <1>3, <1>4, <1>5 DEF RInv

LEMMA StartupReach ==
    ASSUME IInv, IInv', RInv, Startup
    PROVE  RInv'
  <1>1. /\ ~up /\ up' /\ history' = history
        /\ agent' = [agent EXCEPT ![Sweeper] = SweepStart]
        /\ handles = <<>> /\ \A r \in Runs : registry[r].handle = 0
        /\ \A a \in Agents : agent[a] = Idle
    BY DEF Startup, IInv, DownIsEmpty
  <1>2. Sweeper \in Agents /\ Sweeper \notin Handles
    BY CallerFacts
  <1>3. \A a \in Agents : agent'[a] = Idle \/ (a = Sweeper /\ agent'[a] = SweepStart)
    BY <1>1, <1>2 DEF IInv, TypeOK
  <1>4. \A h \in Handles : h \in Agents /\ agent'[h] = Idle
    BY <1>2, <1>3 DEF Agents
  <1>5. \A a \in Agents : agent'[a].at \in {"idle", "query"} /\ ~InFlight(agent'[a])
    BY <1>3 DEF Idle, SweepStart, Agent, InFlight
  <1>6. NeverReopened' /\ MonitorsAreTrue' /\ RespawnsAreTrue'
    BY <1>1, <1>4, <1>5 DEF RInv, NeverReopened, MonitorsAreTrue, RespawnsAreTrue
  <1>7. FlightsAreTrue'
    BY <1>5 DEF FlightsAreTrue, FlightIsTrue, InFlight
  <1>8. Now' = Now
    BY <1>1 DEF Now
  <1>9. ASSUME OneSuccessor', Now.type \notin Terminals
        PROVE  (\E h \in 1 .. Len(handles') : Carrier(h)') \/ Asleep'
    <2>1. OneSuccessor
      BY <1>1, <1>9 DEF OneSuccessor
    <2>2. Now.run = CurrentRun /\ Now.run \in Runs /\ Status = StatusOf(Now.type)
      BY <2>1, NowFacts
    <2>3. CASE Status = "Running"
      <3>1. /\ handles' = <<NewHandle(CurrentRun, Len(history))>>
            /\ registry' = [registry EXCEPT ![CurrentRun] = Entry(1, "Running", "Resident")]
            /\ index' = 1
        BY <2>3 DEF Startup, Insert
      <3>2. /\ Len(handles') = 1 /\ handles'[1].run = Now.run /\ handles'[1].head = Len(history)
        BY <2>2, <3>1 DEF NewHandle, Handle
      <3>3. registry'[Now.run].handle = 1 /\ registry'[Now.run].residency = "Resident"
        BY <2>2, <3>1 DEF Entry, IInv, TypeOK
      <3>4. agent'[1] = Idle
        <4>1. 1 \in Handles
          BY <3>1 DEF IInv, TypeOK
        <4>2. QED
          BY <1>4, <4>1
      <3>5. Carrier(1)'
        BY <1>1, <1>8, <3>1, <3>2, <3>3, <3>4 DEF Carrier
      <3>6. QED
        BY <3>2, <3>5
    <2>4. CASE Status # "Running"
      <3>1. handles' = handles /\ registry' = registry
        BY <2>4 DEF Startup
      <3>2. Now.type = "Paused"
        BY <1>9, <2>2, <2>4, NowFacts DEF StatusOf, Resets
      <3>3. QED
        BY <1>1, <1>8, <2>2, <3>1, <3>2 DEF Asleep, NoCarrier
    <2>5. QED
      BY <2>3, <2>4
  <1>10. OneSuccessor' => Carried'
    BY <1>8, <1>9 DEF Carried
  <1>11. QED
    BY <1>6, <1>7, <1>10 DEF RInv

LEMMA SweepQueriesReach ==
    ASSUME IInv, IInv', RInv, SweepQueries
    PROVE  RInv'
  <1>1. /\ up /\ agent[Sweeper].at = "query" /\ UNCHANGED <<history, handles, registry, index>>
        /\ Sweeper \in Agents /\ Sweeper \notin Handles
    BY CallerFacts DEF SweepQueries
  <1>2. PICK g \in {Agent("head", "sweep", CurrentRun, 0, 0, "None"), Idle} :
            agent' = [agent EXCEPT ![Sweeper] = g]
    BY DEF SweepQueries
  <1>3. g.at \in {"head", "idle"}
    BY DEF Agent, Idle
  <1>4. Moves(Sweeper, g) /\ SameFlight(agent[Sweeper], g) /\ Unhandled(g) /\ g.at # "append"
    BY <1>1, <1>2, <1>3, MovesBy DEF SameFlight, InFlight, Unhandled
  <1>5. QED
    BY <1>1, <1>4, OwnQuietStep

LEMMA PauseHoldsReach ==
    ASSUME IInv, IInv', RInv, NEW c \in Callers, PauseHolds(c)
    PROVE  RInv'
  <1>1. /\ up /\ ~InFlight(agent[c]) /\ Finish(c)
        /\ UNCHANGED <<history, handles, registry, index>>
    BY DEF PauseHolds, InFlight
  <1>2. QED
    BY <1>1, FinishReach

LEMMA NobodyEvicts ==
    ASSUME IInv, "reopen" \notin Ops, NEW c \in Callers
    PROVE  ~ReopenEvicts(c)
  <1>1. SUFFICES ASSUME agent[c].at = "evict" PROVE FALSE
    BY DEF ReopenEvicts
  <1>2. agent[c].op = "reopen" /\ agent[c].op \in Ops \cup {"none", "monitor", "sweep"}
    BY <1>1, CallerFacts, AgentFields DEF IInv, AgentsAreTrue, AgentIsTrue, OpsAt
  <1>3. QED
    BY <1>2

LEMMA StutterReach ==
    ASSUME RInv, UNCHANGED vars
    PROVE  RInv'
  <1>1. UNCHANGED <<history, up, handles, registry, index, agent>>
    BY DEF vars
  <1>2. NeverReopened' /\ MonitorsAreTrue' /\ RespawnsAreTrue' /\ (OneSuccessor' <=> OneSuccessor)
    BY <1>1 DEF RInv, NeverReopened, MonitorsAreTrue, RespawnsAreTrue, OneSuccessor
  <1>3. Now' = Now /\ Status' = Status /\ (NoCarrier' <=> NoCarrier)
    BY <1>1 DEF Now, Status, NoCarrier
  <1>4. FlightsAreTrue => FlightsAreTrue'
    BY <1>1, <1>3 DEF FlightsAreTrue, FlightIsTrue, InFlight
  <1>5. Carried => Carried'
    BY <1>1, <1>3 DEF Carried, Carrier, Asleep, InFlight
  <1>6. QED
    BY <1>2, <1>4, <1>5 DEF RInv

LEMMA RInvInit == Init => RInv
  <1> SUFFICES ASSUME Init PROVE RInv
    OBVIOUS
  <1>0. IInv
    BY IInvInit
  <1>1. /\ history = <<Event("Started", 1, 0)>> /\ handles = <<NewHandle(1, 1)>> /\ index = 1
        /\ registry = [r \in Runs |-> IF r = 1 THEN Entry(1, "Running", "Resident") ELSE NoEntry]
        /\ agent = [a \in Agents |-> Idle]
    BY DEF Init
  <1>2. Len(history) = 1 /\ Now.type = "Started" /\ Now.run = 1 /\ 1 \in Runs
    BY <1>0, <1>1, NowFacts DEF Now, Event
  <1>3. \A a \in Agents : agent[a] = Idle /\ agent[a].at = "idle" /\ ~InFlight(agent[a])
    BY <1>1, EndsAreIdle
  <1>4. \A h \in Handles : h \in Agents
    BY DEF Agents
  <1>5. NeverReopened /\ MonitorsAreTrue /\ RespawnsAreTrue
    BY <1>1, <1>2, <1>3, <1>4 DEF NeverReopened, MonitorsAreTrue, RespawnsAreTrue, Event
  <1>6. FlightsAreTrue
    BY <1>3 DEF FlightsAreTrue, FlightIsTrue
  <1>7. Carrier(1)
    <2>1. handles[1].run = 1 /\ handles[1].head = 1 /\ Len(handles) = 1
      BY <1>1 DEF NewHandle, Handle
    <2>2. registry[1].handle = 1 /\ registry[1].residency = "Resident"
      BY <1>1, <1>2 DEF Entry
    <2>3. agent[1] = Idle
      <3>1. 1 \in Handles
        BY <1>0, <1>1 DEF IInv, TypeOK
      <3>2. QED
        BY <1>3, <1>4, <3>1
    <2>4. QED
      BY <1>1, <1>2, <2>1, <2>2, <2>3 DEF Carrier
  <1>8. 1 \in 1 .. Len(handles)
    BY <1>1
  <1>9. Carried
    BY <1>7, <1>8 DEF Carried
  <1>10. QED
    BY <1>5, <1>6, <1>9 DEF RInv

LEMMA RInvStep ==
    ASSUME "reopen" \notin Ops
    PROVE  IInv /\ IInv' /\ RInv /\ [Next]_vars => RInv'
  <1> SUFFICES ASSUME IInv, IInv', RInv, [Next]_vars PROVE RInv'
    OBVIOUS
  <1>1. ASSUME NEW h \in Handles, NEW why \in {"Completed", "Failed"}, ProcessExits(h, why)
        PROVE  RInv'
    BY <1>1, ExitsReach
  <1>2. ASSUME NEW h \in Handles, NifContinueAsNew(h) PROVE RInv'
    BY <1>2, NifReach
  <1>3. ASSUME NEW h \in Handles, Monitor(h) PROVE RInv'
    BY <1>3, MonitorRecordsReach, MonitorReadsReach, MonitorReconcilesReach, MonitorChecksReach
       DEF Monitor
  <1>4. ASSUME NEW c \in Callers, Call(c) PROVE RInv'
    BY <1>4, CallRecordsReach, CancelKillsReach, CallDeregistersReach, PauseHoldsReach,
       CallReleasesReach, NobodyEvicts, CallAppendsReach, CallRespawnsReach DEF Call
  <1>5. ASSUME NEW c \in Callers, NEW op \in Ops, NEW run \in StartedRuns, Begin(c, op, run)
        PROVE  RInv'
    BY <1>5, BeginReach
  <1>6. ASSUME NEW a \in Agents, Start(a) PROVE RInv'
    BY <1>6, StartReadsReach, StartAppendsReach, StartPublishesReach DEF Start
  <1>7. CASE UNCHANGED vars
    BY <1>7, StutterReach
  <1>8. QED
    BY <1>1, <1>2, <1>3, <1>4, <1>5, <1>6, <1>7, CrashReach, StartupReach, SweepQueriesReach
       DEF Next

\* registry/table.rs, engine/startup.rs, lifecycle/pause.rs: if nobody reopens runs, then in a
\* chain that has not forked a workflow that its history calls Running has, whenever nothing is
\* in progress, a resident process in the registry that the live-pid index points to.
THEOREM RunningIsReached ==
    ASSUME "reopen" \notin Ops
    PROVE  Spec => []RunningIsReachable
  <1>1. IInv /\ RInv => RunningIsReachable
    <2>1. SUFFICES ASSUME IInv, RInv, OneSuccessor, Quiet, Status = "Running"
                   PROVE  /\ registry[CurrentRun].handle # 0
                          /\ handles[registry[CurrentRun].handle].proc = "alive"
                          /\ registry[CurrentRun].residency = "Resident"
                          /\ index = registry[CurrentRun].handle
      BY DEF RunningIsReachable
    <2>2. ASSUME NEW a \in Agents PROVE agent[a] \in {Idle, Done}
      <3>1. CASE a \in Callers \cup {Sweeper}
        BY <2>1, <3>1 DEF Quiet
      <3>2. CASE a \in Handles
        <4>1. ASSUME agent[a] # Idle PROVE agent[a] = Done
          <5>1. a \in DOMAIN handles /\ handles[a].proc # "alive"
            BY <2>1, <3>2, <4>1, Awake DEF IInv, TypeOK
          <5>2. QED
            BY <2>1, <5>1 DEF Quiet
        <4>2. QED
          BY <4>1
      <3>3. QED
        BY <3>1, <3>2 DEF Agents
    <2>3. \A a \in Agents : ~InFlight(agent[a])
      BY <2>2, EndsAreIdle
    <2>4. Now.type \notin Terminals /\ Now.type # "Paused"
      BY <2>1, NowFacts DEF StatusOf, Terminals
    <2>5. PICK h \in 1 .. Len(handles) : Carrier(h)
      BY <2>1, <2>3, <2>4 DEF RInv, Carried, Asleep, Quiet
    <2>6. handles[h].proc = "alive"
      <3>1. h \in DOMAIN handles /\ agent[h] = Idle /\ Idle # Done
        BY <2>1, <2>5, EndsAreIdle DEF Carrier, IInv, TypeOK
      <3>2. QED
        BY <2>1, <3>1 DEF Quiet
    <2>7. CurrentRun = Now.run /\ h # 0
      BY <2>1, NowFacts DEF IInv, TypeOK
    <2>8. QED
      BY <2>5, <2>6, <2>7 DEF Carrier
  <1>2. RInv /\ IInv /\ IInv' /\ [Next]_vars => RInv'
    BY RInvStep
  <1>3. Spec => []RInv
    BY RInvInit, Invariance, <1>2, PTL DEF Spec
  <1>4. QED
    BY Invariance, <1>1, <1>3, PTL

=============================================================================
