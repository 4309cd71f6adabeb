--------------------------- MODULE Activity_proofs ---------------------------
(***************************************************************************)
(* Proofs about module Activity, for any retry policy and any number of    *)
(* restarts, reopens and stray completions.                                *)
(***************************************************************************)
EXTENDS Activity, FiniteSetTheorems, WellFoundedInduction, TLAPS

-----------------------------------------------------------------------------
(* Least and greatest elements.                                            *)

\* A set of naturals that is not empty has a least element.
LEMMA MinExists ==
    ASSUME NEW S \in SUBSET Nat, S # {}
    PROVE  \E m \in S : \A k \in S : m =< k
  <1> DEFINE R == {p \in Nat \X Nat : p[1] < p[2]}
  <1>1. IsWellFoundedOn(R, Nat)
    BY NatLessThanWellFounded, Zenon DEF OpToRel
  <1>2. \E m \in S : \A k \in S : ~(<<k, m>> \in R)
    BY <1>1, WFMin, Zenon
  <1>3. PICK m \in S : \A k \in S : ~(<<k, m>> \in R)
    BY <1>2
  <1>4. ASSUME NEW k \in S PROVE m =< k
    <2>1. m \in Nat /\ k \in Nat
      OBVIOUS
    <2>2. <<k, m>> \in R <=> k < m
      BY <2>1
    <2>3. QED
      BY <1>3, <2>1, <2>2
  <1>5. QED
    BY <1>4

\* resolve_activity finds the first of the events it looks for.
LEMMA MinIsMember ==
    ASSUME NEW S \in SUBSET Nat, S # {}
    PROVE  Min(S) \in S
  BY MinExists DEF Min

\* A bounded set of naturals that is not empty has a greatest element.
LEMMA MaxIsMember ==
    ASSUME NEW S \in SUBSET Nat, S # {}, NEW b \in Nat, \A x \in S : x =< b
    PROVE  Max(S) \in S /\ \A x \in S : x =< Max(S)
  <1> DEFINE U == {n \in Nat : \A x \in S : x =< n}
  <1>1. b \in U /\ U \in SUBSET Nat
    OBVIOUS
  <1>2. PICK m \in U : \A k \in U : m =< k
    BY <1>1, MinExists
  <1>3. m \in S
    <2>1. SUFFICES ASSUME m \notin S PROVE FALSE
      OBVIOUS
    <2>2. PICK x \in S : TRUE
      OBVIOUS
    <2>3. m \in Nat /\ m # 0
      BY <2>1, <2>2
    <2>4. m - 1 \in U
      BY <2>1, <2>3
    <2>5. QED
      BY <1>2, <2>3, <2>4
  <1>4. m \in S /\ \A x \in S : m >= x
    BY <1>3
  <1>5. QED
    BY <1>4 DEF Max

\* The values of a sequence of naturals are bounded: a least prefix without a
\* bound would be one longer than a prefix that has one.
LEMMA BoundExists ==
    ASSUME NEW n \in Nat, NEW f, \A i \in 1 .. n : f[i] \in Nat
    PROVE  \E b \in Nat : \A i \in 1 .. n : f[i] =< b
  <1> DEFINE Bounded(k) == \E b \in Nat : \A i \in 1 .. k : f[i] =< b
             S == {k \in 0 .. n : ~Bounded(k)}
  <1>a. Bounded(0)
    <2>1. \A i \in 1 .. 0 : f[i] =< 0
      OBVIOUS
    <2>2. QED
      BY <2>1
  <1> HIDE DEF Bounded
  <1>b. n \in 0 .. n /\ S \in SUBSET Nat
    OBVIOUS
  <1>1. SUFFICES ASSUME ~Bounded(n) PROVE FALSE
    BY DEF Bounded
  <1>2. PICK k \in S : \A j \in S : k =< j
    <2>1. n \in S
      BY <1>b, <1>1
    <2> HIDE DEF S
    <2>2. QED
      BY <1>b, <2>1, MinExists
  <1>3. k # 0
    BY <1>a
  <1>4. k - 1 \in 0 .. n /\ Bounded(k - 1)
    BY <1>2, <1>3
  <1>5. PICK b \in Nat : \A i \in 1 .. k - 1 : f[i] =< b
    BY <1>4 DEF Bounded
  <1>6. f[k] \in Nat
    BY <1>3
  <1>7. \A i \in 1 .. k : f[i] =< b + f[k]
    <2>1. TAKE i \in 1 .. k
    <2>2. CASE i = k
      BY <1>6, <2>2
    <2>3. CASE i # k
      BY <1>5, <1>6, <2>3
    <2>4. QED
      BY <2>2, <2>3
  <1>8. Bounded(k)
    BY <1>6, <1>7 DEF Bounded
  <1>9. QED
    BY <1>8

-----------------------------------------------------------------------------
(* Histories.                                                              *)

EventTypes == Trail \cup RunEnds \cup {"ScopeFired", "Reopened", "ReopenedOther"}
Events == [type : EventTypes, attempt : Nat]

\* A terminal of the activity that no reopen has set aside.
Standing(h, p) == At(h, p, {"Completed", "Failed"}) /\ ~activity_reopened_after(h, p)
Resolved(h) == \E p \in DOMAIN h : Standing(h, p)

\* The trail ends in a standing terminal.
TerminalIsLast(h) ==
    \A p \in DOMAIN h : Standing(h, p) => ~has_later_activity_attempt_or_outcome(h, p)

\* A reopen never names an activity that completed.
CompletedStands(h) ==
    \A p \in DOMAIN h : At(h, p, {"Completed"}) => ~activity_reopened_after(h, p)

\* A program that came to its end had its answer.
EndIsResolved(h) ==
    \A p \in DOMAIN h :
        At(h, p, {"RunCompleted", "RunFailed"}) /\ ~activity_reopened_after(h, p) => Resolved(h)

\* What NothingBehindTheTerminal says of a history.
Behind(h) ==
    \A p, q \in DOMAIN h :
        /\ p < q
        /\ \/ At(h, p, {"Completed", "Failed"}) /\ At(h, q, {"Started", "Retryable"})
           \/ At(h, p, RunEnds) /\ At(h, q, {"Retryable"})
        => \E r \in p + 1 .. q - 1 : At(h, r, {"Reopened", "ReopenedOther"})

Sound(h) == TerminalIsLast(h) /\ CompletedStands(h) /\ EndIsResolved(h) /\ Behind(h)

\* A cancelled run stays ended: it is not reopened and gets no other end.
CancelledStays(h) ==
    \A p, q \in DOMAIN h :
        p < q /\ At(h, p, {"RunCancelled"}) =>
            ~At(h, q, RunEnds \cup {"Reopened", "ReopenedOther"})

\* What an append changes.
LEMMA AppendFacts ==
    ASSUME NEW h \in Seq(Events), NEW e \in Events
    PROVE  /\ Append(h, e) \in Seq(Events)
           /\ Len(h) \in Nat
           /\ Len(Append(h, e)) = Len(h) + 1
           /\ DOMAIN h = 1 .. Len(h)
           /\ DOMAIN Append(h, e) = 1 .. Len(h) + 1
           /\ \A p \in 1 .. Len(h) : Append(h, e)[p] = h[p]
           /\ Append(h, e)[Len(h) + 1] = e
  OBVIOUS

\* Only a reopen that names the activity sets an event aside.
LEMMA AppendReopened ==
    ASSUME NEW h \in Seq(Events), NEW e \in Events
    PROVE  /\ \A p \in 1 .. Len(h) : activity_reopened_after(Append(h, e), p)
                                     <=> activity_reopened_after(h, p) \/ e.type = "Reopened"
           /\ ~activity_reopened_after(Append(h, e), Len(h) + 1)
  <1> DEFINE g == Append(h, e)
  <1>1. /\ Len(g) = Len(h) + 1 /\ Len(h) \in Nat
        /\ \A p \in 1 .. Len(h) : g[p] = h[p]
        /\ g[Len(h) + 1] = e
    BY AppendFacts
  <1> HIDE DEF g
  <1>2. \A p \in 1 .. Len(h) : activity_reopened_after(g, p)
                               <=> activity_reopened_after(h, p) \/ e.type = "Reopened"
    BY <1>1 DEF activity_reopened_after, At
  <1>3. ~activity_reopened_after(g, Len(h) + 1)
    BY <1>1 DEF activity_reopened_after
  <1>4. QED
    BY <1>2, <1>3 DEF g

\* What an append of anything but a reopen makes of the standing terminals.
LEMMA AppendStanding ==
    ASSUME NEW h \in Seq(Events), NEW e \in Events
    PROVE  /\ \A p \in 1 .. Len(h) :
                  Standing(Append(h, e), p) <=> Standing(h, p) /\ e.type # "Reopened"
           /\ Standing(Append(h, e), Len(h) + 1) <=> e.type \in {"Completed", "Failed"}
           /\ Resolved(Append(h, e)) <=> \/ Resolved(h) /\ e.type # "Reopened"
                                         \/ e.type \in {"Completed", "Failed"}
  <1> DEFINE g == Append(h, e)
  <1>1. /\ DOMAIN h = 1 .. Len(h) /\ DOMAIN g = 1 .. Len(h) + 1 /\ Len(h) \in Nat
        /\ \A p \in 1 .. Len(h) : g[p] = h[p]
        /\ g[Len(h) + 1] = e
    BY AppendFacts
  <1>2. /\ \A p \in 1 .. Len(h) : activity_reopened_after(g, p)
                                  <=> activity_reopened_after(h, p) \/ e.type = "Reopened"
        /\ ~activity_reopened_after(g, Len(h) + 1)
    BY AppendReopened
  <1> HIDE DEF g
  <1>3. /\ \A p \in 1 .. Len(h) : Standing(g, p) <=> Standing(h, p) /\ e.type # "Reopened"
        /\ Standing(g, Len(h) + 1) <=> e.type \in {"Completed", "Failed"}
    BY <1>1, <1>2 DEF Standing, At
  <1>4. Resolved(g) <=> \/ Resolved(h) /\ e.type # "Reopened"
                        \/ e.type \in {"Completed", "Failed"}
    <2>1. \A p \in 1 .. Len(h) + 1 : p \in 1 .. Len(h) \/ p = Len(h) + 1
      BY <1>1
    <2>2. \A p \in 1 .. Len(h) : p \in 1 .. Len(h) + 1
      BY <1>1
    <2>3. Len(h) + 1 \in 1 .. Len(h) + 1
      BY <1>1
    <2>4. e.type \in {"Completed", "Failed"} => e.type # "Reopened"
      OBVIOUS
    <2>5. QED
      BY <1>1, <1>3, <2>1, <2>2, <2>3, <2>4 DEF Resolved
  <1>5. QED
    BY <1>3, <1>4 DEF g

\* resolve_activity answers from a standing terminal, and does if there is one.
LEMMA ResolveIsStanding ==
    ASSUME NEW h \in Seq(Events), TerminalIsLast(h), CompletedStands(h)
    PROVE  /\ resolve_activity(h) # 0 <=> Resolved(h)
           /\ resolve_activity(h) # 0 => /\ resolve_activity(h) \in DOMAIN h
                                         /\ Standing(h, resolve_activity(h))
  <1> DEFINE Ends == {p \in DOMAIN h :
                        \/ At(h, p, {"Completed"})
                        \/ /\ At(h, p, {"Failed"})
                           /\ ~activity_reopened_after(h, p)
                           /\ ~has_later_activity_attempt_or_outcome(h, p)}
  <1>1. Ends \in SUBSET Nat /\ 0 \notin Ends
    BY DEF At
  <1>2. \A p \in DOMAIN h : p \in Ends <=> Standing(h, p)
    BY DEF Standing, At, TerminalIsLast, CompletedStands
  <1>3. resolve_activity(h) = IF Ends = {} THEN 0 ELSE Min(Ends)
    BY DEF resolve_activity
  <1>a. Ends \subseteq DOMAIN h
    OBVIOUS
  <1> HIDE DEF Ends
  <1>4. Ends # {} => Min(Ends) \in Ends
    BY <1>1, MinIsMember
  <1>5. QED
    BY <1>1, <1>2, <1>3, <1>4, <1>a DEF Resolved

\* Where activity_settled says no, a reopen set every end aside; where it says
\* yes, some end stands.
LEMMA SettledCases ==
    ASSUME NEW h \in Seq(Events)
    PROVE  /\ ~activity_settled(h) =>
                  \A p \in DOMAIN h : At(h, p, {"Completed", "Failed"} \cup RunEnds)
                                      => activity_reopened_after(h, p)
           /\ activity_settled(h) =>
                  \E p \in DOMAIN h : /\ At(h, p, {"Completed", "Failed"} \cup RunEnds)
                                      /\ ~activity_reopened_after(h, p)
  <1> DEFINE Decisive == {p \in DOMAIN h :
                            At(h, p, {"Completed", "Failed", "Reopened"} \cup RunEnds)}
  <1>1. DOMAIN h = 1 .. Len(h) /\ Len(h) \in Nat
    OBVIOUS
  <1>2. Decisive \in SUBSET Nat /\ \A p \in Decisive : p =< Len(h)
    BY <1>1
  <1>3. activity_settled(h) <=> Decisive # {} /\ ~At(h, Max(Decisive), {"Reopened"})
    BY DEF activity_settled
  <1>4. \A p \in DOMAIN h : p \in Decisive <=>
            At(h, p, {"Completed", "Failed"} \cup RunEnds) \/ At(h, p, {"Reopened"})
    BY DEF At
  <1>5. Decisive \subseteq DOMAIN h
    OBVIOUS
  <1> HIDE DEF Decisive
  <1>6. CASE Decisive = {}
    BY <1>3, <1>4, <1>6
  <1>7. CASE Decisive # {}
    <2>1. PICK m \in Decisive : m = Max(Decisive) /\ \A p \in Decisive : p =< m
      BY <1>1, <1>2, <1>7, MaxIsMember
    <2>2. CASE At(h, m, {"Reopened"})
      <3> SUFFICES ASSUME NEW p \in DOMAIN h,
                          At(h, p, {"Completed", "Failed"} \cup RunEnds)
                   PROVE  activity_reopened_after(h, p)
        BY <1>3, <2>1, <2>2
      <3>1. p # m
        BY <2>2 DEF At, RunEnds
      <3>2. p =< m
        BY <1>4, <2>1
      <3>3. m \in p + 1 .. Len(h)
        BY <1>1, <1>5, <2>1, <3>1, <3>2
      <3>4. QED
        BY <2>2, <3>3 DEF activity_reopened_after
    <2>3. CASE ~At(h, m, {"Reopened"})
      <3>1. ~activity_reopened_after(h, m)
        BY <1>1, <1>4, <1>5, <2>1 DEF activity_reopened_after
      <3>2. QED
        BY <1>3, <1>4, <1>5, <1>7, <2>1, <2>3, <3>1
    <2>4. QED
      BY <2>2, <2>3
  <1>8. QED
    BY <1>6, <1>7

Reopens == {"Reopened", "ReopenedOther"}
EndsLease(h, p) == At(h, p, RunEnds) /\ \A q \in DOMAIN h : At(h, q, Reopens) => q < p

\* current_lease_terminal is the type of the last end of the lease.
LEMMA LeaseTerminal ==
    ASSUME NEW h \in Seq(Events)
    PROVE  /\ current_lease_terminal(h) = "none" => \A p \in DOMAIN h : ~EndsLease(h, p)
           /\ current_lease_terminal(h) # "none" =>
                  \E p \in DOMAIN h : /\ EndsLease(h, p)
                                      /\ current_lease_terminal(h) = h[p].type
                                      /\ \A q \in DOMAIN h : EndsLease(h, q) => q =< p
  <1> DEFINE Leases == {p \in DOMAIN h : At(h, p, {"Reopened", "ReopenedOther"})}
             Ends == {p \in DOMAIN h : At(h, p, RunEnds) /\ \A q \in Leases : q < p}
  <1>1. DOMAIN h = 1 .. Len(h) /\ Len(h) \in Nat
    OBVIOUS
  <1>2. Ends \in SUBSET Nat /\ \A p \in Ends : p =< Len(h)
    BY <1>1
  <1>3. current_lease_terminal(h) = IF Ends = {} THEN "none" ELSE h[Max(Ends)].type
    BY DEF current_lease_terminal
  <1>4. \A p \in DOMAIN h : p \in Ends <=> EndsLease(h, p)
    BY DEF EndsLease, Reopens
  <1>5. Ends \subseteq DOMAIN h
    OBVIOUS
  <1> HIDE DEF Ends
  <1>6. CASE Ends = {}
    BY <1>3, <1>4, <1>6
  <1>7. CASE Ends # {}
    <2>1. PICK m \in Ends : m = Max(Ends) /\ \A p \in Ends : p =< m
      BY <1>1, <1>2, <1>7, MaxIsMember
    <2>2. EndsLease(h, m) /\ h[m].type # "none"
      BY <1>4, <1>5, <2>1 DEF EndsLease, At, RunEnds
    <2>3. QED
      BY <1>3, <1>4, <1>5, <1>7, <2>1, <2>2
  <1>8. QED
    BY <1>6, <1>7

\* latest_recorded_attempt is a number no attempt of the trail is above.
LEMMA LatestIsBound ==
    ASSUME NEW h \in Seq(Events)
    PROVE  /\ latest_recorded_attempt(h) \in Nat
           /\ \A p \in DOMAIN h : At(h, p, Trail) => h[p].attempt =< latest_recorded_attempt(h)
  <1> DEFINE S == {0} \cup {h[p].attempt : p \in {q \in DOMAIN h : At(h, q, Trail)}}
             f == [p \in 1 .. Len(h) |-> h[p].attempt]
  <1>1. DOMAIN h = 1 .. Len(h) /\ Len(h) \in Nat /\ \A p \in 1 .. Len(h) : h[p].attempt \in Nat
    <2>1. \A p \in 1 .. Len(h) : h[p] \in Events
      OBVIOUS
    <2>2. \A e \in Events : e.attempt \in Nat
      BY DEF Events
    <2>3. QED
      BY <2>1, <2>2
  <1>2. \A i \in 1 .. Len(h) : f[i] \in Nat
    BY <1>1
  <1>3. PICK b \in Nat : \A i \in 1 .. Len(h) : f[i] =< b
    <2> HIDE DEF f
    <2>1. QED
      BY <1>1, <1>2, BoundExists
  <1>4. \A i \in 1 .. Len(h) : h[i].attempt =< b
    BY <1>3
  <1>5. S \in SUBSET Nat /\ S # {}
    BY <1>1
  <1>6. \A x \in S : x =< b
    BY <1>1, <1>4
  <1>7. latest_recorded_attempt(h) = Max(S)
    BY DEF latest_recorded_attempt
  <1>8. \A p \in DOMAIN h : At(h, p, Trail) => h[p].attempt \in S
    OBVIOUS
  <1> HIDE DEF S
  <1>9. Max(S) \in S /\ \A x \in S : x =< Max(S)
    BY <1>5, <1>6, MaxIsMember
  <1>10. QED
    BY <1>5, <1>7, <1>8, <1>9

-----------------------------------------------------------------------------
(* What keeps a history sound.                                             *)

\* When an append of e to h is in order.
Fits(h, e) ==
    /\ e.type \in Trail => ~Resolved(h)
    /\ e.type = "Retryable" =>
           \A p \in DOMAIN h : At(h, p, RunEnds) => activity_reopened_after(h, p)
    /\ e.type \in {"RunCompleted", "RunFailed"} => Resolved(h)
    /\ e.type = "Reopened" => \A p \in DOMAIN h : ~At(h, p, {"Completed"})

LEMMA SoundAppend ==
    ASSUME NEW h \in Seq(Events), NEW e \in Events, Sound(h), Fits(h, e)
    PROVE  Sound(Append(h, e))
  <1> DEFINE g == Append(h, e)
             n == Len(h) + 1
  <1>1. /\ DOMAIN h = 1 .. Len(h) /\ DOMAIN g = 1 .. n /\ Len(h) \in Nat /\ Len(g) = n
        /\ \A p \in 1 .. Len(h) : g[p] = h[p]
        /\ g[n] = e
    BY AppendFacts
  <1>2. /\ \A p \in 1 .. Len(h) : activity_reopened_after(g, p)
                                  <=> activity_reopened_after(h, p) \/ e.type = "Reopened"
        /\ ~activity_reopened_after(g, n)
    BY AppendReopened
  <1>3. /\ \A p \in 1 .. Len(h) : Standing(g, p) <=> Standing(h, p) /\ e.type # "Reopened"
        /\ Standing(g, n) <=> e.type \in {"Completed", "Failed"}
        /\ Resolved(g) <=> \/ Resolved(h) /\ e.type # "Reopened"
                           \/ e.type \in {"Completed", "Failed"}
    BY AppendStanding
  <1> HIDE DEF g
  <1>4. TerminalIsLast(g)
    <2> SUFFICES ASSUME NEW p \in 1 .. n, Standing(g, p), NEW q \in p + 1 .. n, At(g, q, Trail)
                 PROVE  FALSE
      BY <1>1 DEF TerminalIsLast, has_later_activity_attempt_or_outcome
    <2>1. p \in 1 .. Len(h) /\ Standing(h, p)
      BY <1>1, <1>3
    <2>2. CASE q = n
      BY <1>1, <2>1, <2>2 DEF Fits, Resolved, At
    <2>3. CASE q \in p + 1 .. Len(h)
      BY <1>1, <2>1, <2>3 DEF Sound, TerminalIsLast, has_later_activity_attempt_or_outcome, At
    <2>4. QED
      BY <1>1, <2>1, <2>2, <2>3
  <1>5. CompletedStands(g)
    <2> SUFFICES ASSUME NEW p \in 1 .. n, At(g, p, {"Completed"}), activity_reopened_after(g, p)
                 PROVE  FALSE
      BY <1>1 DEF CompletedStands
    <2>1. p \in 1 .. Len(h)
      BY <1>1, <1>2
    <2>2. QED
      BY <1>1, <1>2, <2>1 DEF Sound, CompletedStands, Fits, At
  <1>6. EndIsResolved(g)
    <2> SUFFICES ASSUME NEW p \in 1 .. n, At(g, p, {"RunCompleted", "RunFailed"}),
                        ~activity_reopened_after(g, p)
                 PROVE  Resolved(g)
      BY <1>1 DEF EndIsResolved
    <2>1. CASE p = n
      BY <1>1, <1>3, <2>1 DEF Fits, At
    <2>2. CASE p \in 1 .. Len(h)
      BY <1>1, <1>2, <1>3, <2>2 DEF Sound, EndIsResolved, At
    <2>3. QED
      BY <1>1, <2>1, <2>2
  <1>7. Behind(g)
    <2> SUFFICES ASSUME NEW p \in 1 .. n, NEW q \in 1 .. n, p < q,
                        \/ At(g, p, {"Completed", "Failed"}) /\ At(g, q, {"Started", "Retryable"})
                        \/ At(g, p, RunEnds) /\ At(g, q, {"Retryable"})
                 PROVE  \E r \in p + 1 .. q - 1 : At(g, r, {"Reopened", "ReopenedOther"})
      BY <1>1 DEF Behind
    <2>1. p \in 1 .. Len(h)
      BY <1>1
    <2>2. CASE q = n
      <3>1. activity_reopened_after(h, p)
        <4>1. CASE At(g, p, {"Completed", "Failed"}) /\ At(g, q, {"Started", "Retryable"})
          <5>1. ~Resolved(h)
            BY <1>1, <2>2, <4>1 DEF Fits, At, Trail
          <5>2. QED
            BY <1>1, <2>1, <4>1, <5>1 DEF Resolved, Standing, At
        <4>2. CASE At(g, p, RunEnds) /\ At(g, q, {"Retryable"})
          BY <1>1, <2>1, <2>2, <4>2 DEF Fits, At
        <4>3. QED
          BY <4>1, <4>2
      <3>2. QED
        BY <1>1, <2>1, <2>2, <3>1 DEF activity_reopened_after, At
    <2>3. CASE q \in 1 .. Len(h)
      <3>1. PICK r \in p + 1 .. q - 1 : At(h, r, {"Reopened", "ReopenedOther"})
        BY <1>1, <2>1, <2>3 DEF Sound, Behind, At
      <3>2. r \in 1 .. Len(h)
        BY <1>1, <2>1, <2>3
      <3>3. QED
        BY <1>1, <3>1, <3>2 DEF At
    <2>4. QED
      BY <1>1, <2>2, <2>3
  <1>8. QED
    BY <1>4, <1>5, <1>6, <1>7 DEF Sound, g

\* reopen_workflow does not name an activity that completed.
LEMMA NamedHasNotCompleted ==
    ASSUME NEW h \in Seq(Events), Sound(h), reopened_failed_activities(h)
    PROVE  \A p \in DOMAIN h : ~At(h, p, {"Completed"})
  <1> SUFFICES ASSUME NEW p \in DOMAIN h, At(h, p, {"Completed"})
               PROVE  FALSE
    OBVIOUS
  <1> DEFINE S == {0} \cup {q \in DOMAIN h : At(h, q, {"Reopened", "ReopenedOther"})}
  <1>1. DOMAIN h = 1 .. Len(h) /\ Len(h) \in Nat
    OBVIOUS
  <1>2. S \in SUBSET Nat /\ S # {} /\ \A x \in S : x =< Len(h)
    BY <1>1
  <1>3. /\ \E q \in Max(S) + 1 .. Len(h) : At(h, q, {"Failed", "Retryable"})
        /\ \A q \in Max(S) + 1 .. Len(h) : ~At(h, q, {"Completed"})
    BY DEF reopened_failed_activities
  <1>a. S \subseteq {0} \cup 1 .. Len(h)
    BY <1>1
  <1> HIDE DEF S
  <1>4. Max(S) \in Nat
    BY <1>1, <1>2, MaxIsMember
  <1>5. PICK q \in Max(S) + 1 .. Len(h) : At(h, q, {"Failed", "Retryable"})
    BY <1>3
  <1>6. p =< Max(S)
    BY <1>1, <1>3, <1>4
  <1>7. q \in p + 1 .. Len(h) /\ At(h, q, Trail)
    BY <1>1, <1>4, <1>5, <1>6 DEF At, Trail
  <1>8. Standing(h, p)
    BY DEF Sound, CompletedStands, Standing, At
  <1>9. QED
    BY <1>7, <1>8 DEF Sound, TerminalIsLast, has_later_activity_attempt_or_outcome

-----------------------------------------------------------------------------
(* The inductive invariant.                                                *)

\* There is a life for every restart and every reopen.
LivesCounted == life =< 1 + restarts + reopens

\* A process spawns its loop at its dispatch, and no loop is ahead of its life.
LoopsAreSpawned ==
    /\ \A l \in Lives : l > life => loop[l].pc = "none"
    /\ pc = "dispatch" => loop[life].pc = "none"

\* The loop of the current life has the latest attempt.
LoopIsLatest ==
    loop[life].pc \in {"call", "returned", "backoff"} =>
        \A p \in DOMAIN history :
            At(history, p, {"Started"}) => history[p].attempt =< loop[life].attempt

\* The process records its answer where it saw none, and has one when it goes on.
AwaitIsTrue ==
    /\ pc \in {"decide", "scope"} => ~Resolved(history)
    /\ pc = "answered" => Resolved(history)

AnswersStand == \A a \in answers : Standing(history, a)

IInv ==
    /\ TypeOK
    /\ LivesCounted
    /\ LoopsAreSpawned
    /\ LoopIsLatest
    /\ AttemptsAreNew
    /\ Sound(history)
    /\ AwaitIsTrue
    /\ AnswersStand

\* And where a cancelled run is not reopened.
IInvUncancelled == CancelledStays(history) /\ StoodDownIsSettled

-----------------------------------------------------------------------------
USE ActivityAssumption

Loops == [pc : {"none", "call", "returned", "backoff", "deliver", "stood", "parked", "done"},
          attempt : Nat, reason : Reasons \cup {"none"}]

LEMMA EventFacts ==
    ASSUME NEW t \in EventTypes, NEW a \in Nat
    PROVE  Event(t, a) \in Events /\ Event(t, a).type = t /\ Event(t, a).attempt = a
  BY DEF Event, Events

LEMMA LoopFacts ==
    ASSUME NEW s \in {"none", "call", "returned", "backoff", "deliver", "stood", "parked", "done"},
           NEW a \in Nat, NEW r \in Reasons \cup {"none"}
    PROVE  /\ LoopAt(s, a, r) \in Loops
           /\ LoopAt(s, a, r).pc = s
           /\ LoopAt(s, a, r).attempt = a
           /\ LoopAt(s, a, r).reason = r
  BY DEF LoopAt, Loops

LEMMA LoopMoves ==
    ASSUME NEW r \in Loops,
           NEW s \in {"none", "call", "returned", "backoff", "deliver", "stood", "parked", "done"}
    PROVE  /\ [r EXCEPT !.pc = s] \in Loops
           /\ [r EXCEPT !.pc = s].pc = s
           /\ [r EXCEPT !.pc = s].attempt = r.attempt
  BY DEF Loops

LEMMA MaxWithOne ==
    ASSUME NEW a \in Nat
    PROVE  Max({a, 1}) \in Nat
  <1>1. {a, 1} \in SUBSET Nat /\ {a, 1} # {} /\ a + 1 \in Nat /\ \A x \in {a, 1} : x =< a + 1
    OBVIOUS
  <1>2. Max({a, 1}) \in {a, 1}
    BY <1>1, MaxIsMember
  <1>3. QED
    BY <1>1, <1>2

\* What TypeOK says of the sequence of events and of the snapshot.
LEMMA TypeFacts ==
    ASSUME TypeOK
    PROVE  /\ history \in Seq(Events) /\ DOMAIN history = 1 .. Len(history) /\ Len(history) \in Nat
           /\ Snapshot \in Seq(Events)
           /\ loop \in [Lives -> Loops]
           /\ latest_recorded_attempt(history) \in Nat
           /\ next_delivery_attempt(history) \in Nat
           /\ latest_recorded_attempt(Snapshot) \in Nat
  <1>1. history \in Seq(Events) /\ DOMAIN history = 1 .. Len(history) /\ Len(history) \in Nat
    BY DEF TypeOK, Events, EventTypes
  <1>2. Snapshot \in Seq(Events)
    <2>1. seen \in 0 .. Len(history)
      BY DEF TypeOK
    <2>2. QED
      BY <1>1, <2>1 DEF Snapshot
  <1>3. loop \in [Lives -> Loops]
    BY DEF TypeOK, Loops
  <1>4. QED
    BY <1>1, <1>2, <1>3, LatestIsBound DEF next_delivery_attempt

\* What a recorded event does to the types of the history and of what points into it.
LEMMA RecordFacts ==
    ASSUME TypeOK, NEW e \in Events, Record(e)
    PROVE  /\ history' \in Seq([type : Trail \cup RunEnds \cup {"ScopeFired", "Reopened", "ReopenedOther"},
                                attempt : Nat])
           /\ Len(history') = Len(history) + 1
           /\ DOMAIN history' = 1 .. Len(history) + 1
           /\ DOMAIN history \subseteq DOMAIN history'
           /\ seen \in 0 .. Len(history')
  <1>1. history \in Seq(Events) /\ Len(history) \in Nat
    BY TypeFacts
  <1>2. history' = Append(history, e)
    BY DEF Record
  <1>3. /\ history' \in Seq(Events)
        /\ Len(history') = Len(history) + 1
        /\ DOMAIN history = 1 .. Len(history)
        /\ DOMAIN history' = 1 .. Len(history) + 1
    BY <1>1, <1>2, AppendFacts
  <1>4. seen \in 0 .. Len(history)
    BY DEF TypeOK
  <1>5. QED
    BY <1>1, <1>3, <1>4 DEF Events, EventTypes

LEMMA RetryEvents == "Started" \in EventTypes /\ "Retryable" \in EventTypes
  BY DEF EventTypes, Trail

-----------------------------------------------------------------------------
(* Types.                                                                  *)

\* record_retry_event goes on, stands down or fails the loop: types.
LEMMA RetryType ==
    ASSUME TypeOK, NEW l \in Lives, NEW e \in Events, NEW next \in Loops,
           record_retry_event(l, e, next),
           UNCHANGED <<life, process, draining, answers, bounds>>
    PROVE  TypeOK'
  <1> DEFINE Failing == LoopAt("deliver", loop[l].attempt, "retryable")
             Stood == LoopAt("stood", 0, "none")
  <1>1. loop \in [Lives -> Loops] /\ loop[l].attempt \in Nat
    BY TypeFacts DEF Loops
  <1>2. Failing \in Loops /\ Stood \in Loops
    BY <1>1, LoopFacts DEF Reasons
  <1> HIDE DEF Failing, Stood
  <1>3. /\ \/ loop' = [loop EXCEPT ![l] = Stood]
           \/ loop' = [loop EXCEPT ![l] = Failing]
           \/ loop' = [loop EXCEPT ![l] = next]
        /\ \/ UNCHANGED history
           \/ Record(e)
    BY DEF record_retry_event, Stood, Failing
  <1>4. loop' \in [Lives -> Loops]
    BY <1>1, <1>2, <1>3
  <1>5. CASE UNCHANGED history
    BY <1>4, <1>5 DEF TypeOK, Loops, process, bounds
  <1>6. CASE Record(e)
    BY <1>4, <1>6, RecordFacts DEF TypeOK, Loops, process, bounds
  <1>7. QED
    BY <1>3, <1>5, <1>6

\* The await's answer.
LEMMA AnswerType ==
    ASSUME TypeOK, NEW t \in {"Completed", "Failed"}, NEW a \in Nat, AnswerWith(t, a),
           retained' \in [result : BOOLEAN, error : BOOLEAN, attempt : Nat],
           UNCHANGED <<life, mail, loop, draining, bounds>>
    PROVE  TypeOK'
  <1>1. Event(t, Max({a, 1})) \in Events
    BY MaxWithOne, EventFacts DEF EventTypes, Trail
  <1>2. Record(Event(t, Max({a, 1})))
    BY DEF AnswerWith
  <1>3. Len(history) \in Nat
    BY TypeFacts
  <1>4. answers' \subseteq DOMAIN history' /\ pc' = "answered" /\ seen' \in 0 .. Len(history')
    BY <1>1, <1>2, <1>3, RecordFacts DEF AnswerWith, TypeOK
  <1>5. QED
    BY <1>1, <1>2, <1>4, RecordFacts DEF TypeOK, bounds

\* An outcome is retained with its type.
LEMMA RetainType ==
    ASSUME TypeOK, NEW ok \in BOOLEAN, NEW a \in Nat
    PROVE  Retain(ok, a) \in [result : BOOLEAN, error : BOOLEAN, attempt : Nat]
  <1>1. /\ retained.result \in BOOLEAN /\ retained.error \in BOOLEAN /\ retained.attempt \in Nat
    BY DEF TypeOK
  <1>2. (retained.result \/ ok) \in BOOLEAN /\ (retained.error \/ ~ok) \in BOOLEAN
    OBVIOUS
  <1>3. (IF a = 0 THEN retained.attempt ELSE a) \in Nat
    BY <1>1
  <1>4. QED
    BY <1>2, <1>3 DEF Retain

LEMMA TypeStep ==
    ASSUME TypeOK, LivesCounted, [Next]_vars
    PROVE  TypeOK' /\ LivesCounted'
  <1>a. /\ history \in Seq(Events) /\ DOMAIN history = 1 .. Len(history) /\ Len(history) \in Nat
        /\ loop \in [Lives -> Loops]
        /\ next_delivery_attempt(history) \in Nat
        /\ latest_recorded_attempt(Snapshot) \in Nat
    BY TypeFacts
  <1>b. Nothing \in [result : BOOLEAN, error : BOOLEAN, attempt : Nat]
    BY DEF Nothing
  <1>c. /\ life \in Lives /\ restarts \in 0 .. MaxRestarts /\ reopens \in 0 .. MaxReopens
    BY DEF TypeOK
  <1>d. \A t \in EventTypes : Event(t, 0) \in Events
    BY EventFacts
  <1>e. \A l \in Lives : loop[l].attempt \in Nat
    BY <1>a DEF Loops
  <1>f. 0 \in 0 .. Len(history) /\ Len(history) \in 0 .. Len(history)
    BY <1>a
  <1>1. CASE dispatch_activity
    <2>1. UNCHANGED <<life, seen, mail, retained, draining, answers, bounds>> /\ pc' = "await"
      BY <1>1 DEF dispatch_activity
    <2>2. CASE UNCHANGED <<history, loop>>
      BY <2>1, <2>2 DEF TypeOK, LivesCounted, bounds
    <2>3. CASE resolve_activity(history) = 0
      <3> DEFINE a == next_delivery_attempt(history)
      <3>1. /\ Record(Event("Started", a))
            /\ loop' = [loop EXCEPT ![life] = LoopAt("call", a, "none")]
        BY <1>1, <2>3 DEF dispatch_activity
      <3>2. Event("Started", a) \in Events /\ LoopAt("call", a, "none") \in Loops
        BY <1>a, RetryEvents, EventFacts, LoopFacts
      <3>3. loop' \in [Lives -> Loops]
        BY <1>a, <3>1, <3>2
      <3>4. QED
        BY <2>1, <3>1, <3>2, <3>3, RecordFacts DEF TypeOK, LivesCounted, bounds, Loops
    <2>4. QED
      BY <1>1, <2>2, <2>3 DEF dispatch_activity
  <1>2. CASE await_activity_step
    <2> SUFFICES TypeOK'
      BY <1>2 DEF await_activity_step, LivesCounted, bounds
    <2>1. CASE resolve_activity(history) = 0
      BY <1>2, <1>f, <2>1 DEF await_activity_step, TypeOK, bounds
    <2>2. CASE resolve_activity(history) # 0
      <3>1. resolve_activity(history) \in DOMAIN history
        <4> DEFINE Ends == {p \in DOMAIN history :
                              \/ At(history, p, {"Completed"})
                              \/ /\ At(history, p, {"Failed"})
                                 /\ ~activity_reopened_after(history, p)
                                 /\ ~has_later_activity_attempt_or_outcome(history, p)}
        <4>1. Ends # {} /\ resolve_activity(history) = Min(Ends)
          BY <2>2 DEF resolve_activity
        <4>2. Ends \in SUBSET Nat /\ Ends \subseteq DOMAIN history
          BY <1>a
        <4> HIDE DEF Ends
        <4>3. QED
          BY <4>1, <4>2, MinIsMember
      <3>2. QED
        BY <1>2, <1>a, <2>2, <3>1 DEF await_activity_step, TypeOK, bounds
    <2>3. QED
      BY <2>1, <2>2
  <1>3. CASE take_runtime_completion
    <2>1. retained' \in [result : BOOLEAN, error : BOOLEAN, attempt : Nat]
      BY <1>3 DEF take_runtime_completion
    <2>2. retained.attempt \in Nat
      BY DEF TypeOK
    <2>3. \E t \in {"Completed", "Failed"} : AnswerWith(t, retained.attempt)
      BY <1>3 DEF take_runtime_completion
    <2>4. UNCHANGED <<life, mail, loop, draining, bounds>>
      BY <1>3 DEF take_runtime_completion
    <2>5. TypeOK'
      BY <2>1, <2>2, <2>3, <2>4, AnswerType
    <2>6. QED
      BY <2>4, <2>5 DEF LivesCounted, bounds
  <1>4. CASE NothingRetained
    BY <1>4 DEF NothingRetained, TypeOK, LivesCounted, bounds
  <1>5. CASE ScopeExpires
    <2>1. retained' \in [result : BOOLEAN, error : BOOLEAN, attempt : Nat]
      BY <1>5 DEF ScopeExpires, TypeOK
    <2>2. AnswerWith("Failed", latest_recorded_attempt(Snapshot))
          /\ UNCHANGED <<life, mail, loop, draining, bounds>>
      BY <1>5 DEF ScopeExpires
    <2>3. TypeOK'
      BY <1>a, <2>1, <2>2, AnswerType
    <2>4. QED
      BY <2>2, <2>3 DEF LivesCounted, bounds
  <1>6. CASE Suspends
    BY <1>6, <1>a DEF Suspends, TypeOK, LivesCounted, bounds
  <1>7. CASE ProcessExits
    <2>1. \/ UNCHANGED history
          \/ \E t \in EventTypes : Record(Event(t, 0))
      BY <1>7 DEF ProcessExits, EventTypes, RunEnds
    <2>2. CASE UNCHANGED history
      BY <1>7, <1>b, <2>2 DEF ProcessExits, TypeOK, LivesCounted, bounds
    <2>3. CASE \E t \in EventTypes : Record(Event(t, 0))
      BY <1>7, <1>b, <1>d, <2>3, RecordFacts DEF ProcessExits, TypeOK, LivesCounted, bounds
    <2>4. QED
      BY <2>1, <2>2, <2>3
  <1>8. CASE Kill
    BY <1>8, <1>b, <1>f DEF Kill, TypeOK, LivesCounted, bounds
  <1>9. ASSUME NEW l \in Lives, Return(l) PROVE TypeOK' /\ LivesCounted'
    <2>1. PICK reason \in Reasons :
           loop' = [loop EXCEPT ![l] = LoopAt("returned", loop[l].attempt, reason)]
      BY <1>9 DEF Return
    <2>2. loop' \in [Lives -> Loops]
      BY <1>a, <1>e, <2>1, LoopFacts
    <2>3. QED
      BY <1>9, <2>2 DEF Return, TypeOK, LivesCounted, Loops, process, bounds
  <1>10. ASSUME NEW l \in Lives, failure_stand_down(l) PROVE TypeOK' /\ LivesCounted'
    <2>1. LoopAt("parked", 0, "none") \in Loops /\ [loop[l] EXCEPT !.pc = "deliver"] \in Loops
      BY <1>a, LoopFacts, LoopMoves
    <2>2. loop' \in [Lives -> Loops]
      BY <1>10, <1>a, <2>1 DEF failure_stand_down
    <2>3. QED
      BY <1>10, <2>2 DEF failure_stand_down, TypeOK, LivesCounted, Loops, process, bounds
  <1>11. ASSUME NEW l \in Lives, AttemptFailed(l) PROVE TypeOK' /\ LivesCounted'
    <2>1. Event("Retryable", loop[l].attempt) \in Events
           /\ [loop[l] EXCEPT !.pc = "backoff"] \in Loops
      BY <1>a, <1>e, RetryEvents, EventFacts, LoopMoves
    <2>2. /\ record_retry_event(l, Event("Retryable", loop[l].attempt),
                                [loop[l] EXCEPT !.pc = "backoff"])
          /\ UNCHANGED <<life, process, draining, answers, bounds>>
      BY <1>11 DEF AttemptFailed
    <2>3. TypeOK'
      BY <2>1, <2>2, RetryType
    <2>4. QED
      BY <2>2, <2>3 DEF LivesCounted, bounds
  <1>12. ASSUME NEW l \in Lives, AttemptStarted(l) PROVE TypeOK' /\ LivesCounted'
    <2> DEFINE a == loop[l].attempt + 1
    <2>1. Event("Started", a) \in Events /\ LoopAt("call", a, "none") \in Loops
      BY <1>e, RetryEvents, EventFacts, LoopFacts
    <2>2. /\ record_retry_event(l, Event("Started", a), LoopAt("call", a, "none"))
          /\ UNCHANGED <<life, process, draining, answers, bounds>>
      BY <1>12 DEF AttemptStarted
    <2>3. TypeOK'
      BY <2>1, <2>2, RetryType
    <2>4. QED
      BY <2>2, <2>3 DEF LivesCounted, bounds
  <1>13. ASSUME NEW l \in Lives, deliver_activity_message(l) PROVE TypeOK' /\ LivesCounted'
    <2>1. Retain(loop[l].reason = "ok", loop[l].attempt)
                  \in [result : BOOLEAN, error : BOOLEAN, attempt : Nat]
      BY <1>e, RetainType
    <2>2. LoopAt("done", 0, "none") \in Loops
      BY LoopFacts
    <2>3. loop' \in [Lives -> Loops]
      BY <1>13, <1>a, <2>2 DEF deliver_activity_message
    <2>4. retained' \in [result : BOOLEAN, error : BOOLEAN, attempt : Nat] /\ mail' \in BOOLEAN
      BY <1>13, <2>1 DEF deliver_activity_message, TypeOK
    <2>5. QED
      BY <1>13, <2>3, <2>4 DEF deliver_activity_message, TypeOK, LivesCounted, Loops, bounds
  <1>14. CASE deliver_outbox
    <2>1. retained' \in [result : BOOLEAN, error : BOOLEAN, attempt : Nat]
      BY <1>14, RetainType DEF deliver_outbox
    <2>2. QED
      BY <1>14, <2>1 DEF deliver_outbox, TypeOK, LivesCounted
  <1>15. CASE ScopeFires
    BY <1>15, <1>d, RecordFacts DEF ScopeFires, EventTypes, TypeOK, LivesCounted, bounds
  <1>16. CASE Cancel
    BY <1>16, <1>d, RecordFacts DEF Cancel, EventTypes, RunEnds, TypeOK, LivesCounted, process,
       bounds
  <1>17. CASE reopen_workflow
    <2>1. \E t \in EventTypes : Record(Event(t, 0))
      BY <1>17 DEF reopen_workflow, EventTypes
    <2>2. answers' \in {{}, answers}
      BY <1>17 DEF reopen_workflow
    <2>3. life' \in Lives /\ LivesCounted' /\ reopens' \in 0 .. MaxReopens
      BY <1>17, <1>c DEF reopen_workflow, LivesCounted, Lives
    <2>4. QED
      BY <1>17, <1>d, <2>1, <2>2, <2>3, RecordFacts DEF reopen_workflow, TypeOK
  <1>18. CASE DrainBegins
    BY <1>18 DEF DrainBegins, TypeOK, LivesCounted, process, bounds
  <1>19. CASE Restart
    <2>1. life' \in Lives /\ LivesCounted' /\ restarts' \in 0 .. MaxRestarts
      BY <1>19, <1>c DEF Restart, LivesCounted, Lives
    <2>2. Idle \in Loops
      BY LoopFacts DEF Idle
    <2>3. loop' \in [Lives -> Loops]
      BY <1>19, <2>2 DEF Restart
    <2>4. pc' \in {"none", "dispatch"}
      BY <1>19 DEF Restart
    <2>5. QED
      BY <1>19, <1>b, <1>f, <2>1, <2>3, <2>4 DEF Restart, TypeOK, Loops
  <1>20. CASE UNCHANGED vars
    BY <1>20 DEF vars, TypeOK, LivesCounted, process, bounds
  <1>21. QED
    BY <1>1, <1>2, <1>3, <1>4, <1>5, <1>6, <1>7, <1>8, <1>9, <1>10, <1>11, <1>12, <1>13,
       <1>14, <1>15, <1>16, <1>17, <1>18, <1>19, <1>20
       DEF Next, System, Process, Environment, Loop

-----------------------------------------------------------------------------
(* The history, the await and its answers.                                 *)

\* A step that records no terminal of the activity and does not re-drive it.
Neutral ==
    \/ UNCHANGED history
    \/ \E e \in Events : /\ Record(e)
                         /\ Fits(history, e)
                         /\ e.type \notin {"Completed", "Failed", "Reopened"}

LEMMA NeutralStep ==
    ASSUME TypeOK, Sound(history), AnswersStand, Neutral
    PROVE  /\ Sound(history')
           /\ Resolved(history') <=> Resolved(history)
           /\ \A a \in answers : Standing(history', a)
  <1>1. history \in Seq(Events) /\ DOMAIN history = 1 .. Len(history)
    BY TypeFacts
  <1>2. CASE UNCHANGED history
    BY <1>2 DEF AnswersStand
  <1>3. CASE ~UNCHANGED history
    <2>1. PICK e \in Events : /\ history' = Append(history, e)
                              /\ Fits(history, e)
                              /\ e.type \notin {"Completed", "Failed", "Reopened"}
      BY <1>3 DEF Neutral, Record
    <2>2. Sound(history')
      BY <1>1, <2>1, SoundAppend
    <2>3. \A a \in answers : a \in 1 .. Len(history)
      BY <1>1 DEF TypeOK
    <2>4. QED
      BY <1>1, <2>1, <2>2, <2>3, AppendStanding DEF AnswersStand
  <1>4. QED
    BY <1>2, <1>3

\* record_retry_event records behind nothing that stands.
LEMMA RetryIsNeutral ==
    ASSUME TypeOK, NEW l \in Lives, NEW e \in Events, NEW next,
           e.type \in {"Started", "Retryable"}, record_retry_event(l, e, next)
    PROVE  Neutral
  <1>1. history \in Seq(Events)
    BY TypeFacts
  <1>2. CASE activity_settled(history) \/ l # life
    BY <1>2 DEF record_retry_event, Neutral
  <1>3. CASE ~activity_settled(history) /\ l = life
    <2>1. Record(e)
      BY <1>3 DEF record_retry_event
    <2>2. \A p \in DOMAIN history : At(history, p, {"Completed", "Failed"} \cup RunEnds)
                                    => activity_reopened_after(history, p)
      BY <1>1, <1>3, SettledCases
    <2>3. ~Resolved(history)
      BY <2>2 DEF Resolved, Standing, At
    <2>4. \A p \in DOMAIN history : At(history, p, RunEnds) => activity_reopened_after(history, p)
      BY <2>2 DEF At
    <2>5. Fits(history, e)
      BY <2>3, <2>4 DEF Fits
    <2>6. QED
      BY <2>1, <2>5 DEF Neutral
  <1>4. QED
    BY <1>2, <1>3

\* Where the process saw no answer, the one it records stands.
LEMMA AnswerStands ==
    ASSUME TypeOK, Sound(history), AnswersStand, ~Resolved(history),
           NEW t \in {"Completed", "Failed"}, NEW a \in Nat, AnswerWith(t, a)
    PROVE  Sound(history') /\ AwaitIsTrue' /\ AnswersStand'
  <1> DEFINE e == Event(t, Max({a, 1}))
  <1>1. history \in Seq(Events) /\ DOMAIN history = 1 .. Len(history)
    BY TypeFacts
  <1>2. e \in Events /\ e.type = t
    BY MaxWithOne, EventFacts DEF EventTypes, Trail
  <1>3. /\ history' = Append(history, e)
        /\ answers' = answers \cup {Len(history) + 1}
        /\ pc' = "answered"
    BY DEF AnswerWith, Record
  <1> HIDE DEF e
  <1>4. Fits(history, e)
    BY <1>2 DEF Fits
  <1>5. Sound(history')
    BY <1>1, <1>2, <1>3, <1>4, SoundAppend
  <1>6. \A x \in answers : x \in 1 .. Len(history) /\ Standing(history, x)
    BY <1>1 DEF TypeOK, AnswersStand
  <1>7. /\ \A x \in 1 .. Len(history) : Standing(history, x) => Standing(history', x)
        /\ Standing(history', Len(history) + 1)
        /\ Resolved(history')
    BY <1>1, <1>2, <1>3, AppendStanding
  <1>8. AwaitIsTrue'
    BY <1>3, <1>7 DEF AwaitIsTrue
  <1>9. AnswersStand'
    BY <1>3, <1>6, <1>7 DEF AnswersStand
  <1>10. QED
    BY <1>5, <1>8, <1>9

\* How a neutral step keeps the await's part of the invariant.
LEMMA NeutralAwait ==
    ASSUME TypeOK, Sound(history), AnswersStand, AwaitIsTrue, Neutral,
           UNCHANGED answers,
           pc' \in {pc, "none", "dispatch", "await", "parked"} \/ (pc = "decide" /\ pc' = "scope")
    PROVE  Sound(history') /\ AwaitIsTrue' /\ AnswersStand'
  <1>1. /\ Sound(history')
        /\ Resolved(history') <=> Resolved(history)
        /\ \A a \in answers : Standing(history', a)
    BY NeutralStep
  <1>2. AwaitIsTrue'
    BY <1>1 DEF AwaitIsTrue
  <1>3. AnswersStand'
    BY <1>1 DEF AnswersStand
  <1>4. QED
    BY <1>1, <1>2, <1>3

LEMMA AwaitStep ==
    ASSUME TypeOK, Sound(history), AwaitIsTrue, AnswersStand, [Next]_vars
    PROVE  Sound(history') /\ AwaitIsTrue' /\ AnswersStand'
  <1>a. /\ history \in Seq(Events) /\ DOMAIN history = 1 .. Len(history) /\ Len(history) \in Nat
        /\ loop \in [Lives -> Loops]
        /\ next_delivery_attempt(history) \in Nat
        /\ latest_recorded_attempt(Snapshot) \in Nat
    BY TypeFacts
  <1>b. /\ resolve_activity(history) # 0 <=> Resolved(history)
        /\ resolve_activity(history) # 0 => Standing(history, resolve_activity(history))
    BY <1>a, ResolveIsStanding DEF Sound
  <1>c. \A t \in EventTypes : Event(t, 0) \in Events /\ Event(t, 0).type = t
    BY EventFacts
  <1>d. \A l \in Lives : loop[l].attempt \in Nat
    BY <1>a DEF Loops
  <1>1. CASE dispatch_activity
    <2>1. UNCHANGED answers /\ pc' = "await"
      BY <1>1 DEF dispatch_activity
    <2>2. Neutral
      <3>1. CASE resolve_activity(history) # 0
        BY <1>1, <3>1 DEF dispatch_activity, Neutral
      <3>2. CASE resolve_activity(history) = 0
        <4> DEFINE e == Event("Started", next_delivery_attempt(history))
        <4>1. e \in Events /\ e.type = "Started" /\ Record(e)
          BY <1>1, <1>a, <3>2, RetryEvents, EventFacts DEF dispatch_activity
        <4> HIDE DEF e
        <4>2. Fits(history, e)
          BY <1>b, <3>2, <4>1 DEF Fits
        <4>3. QED
          BY <4>1, <4>2 DEF Neutral
      <3>3. QED
        BY <3>1, <3>2
    <2>3. QED
      BY <2>1, <2>2, NeutralAwait
  <1>2. CASE await_activity_step
    <2>1. UNCHANGED history
      BY <1>2 DEF await_activity_step
    <2>2. CASE resolve_activity(history) # 0
      <3>1. answers' = answers \cup {resolve_activity(history)} /\ pc' = "answered"
        BY <1>2, <2>2 DEF await_activity_step
      <3>2. QED
        BY <1>b, <2>1, <2>2, <3>1 DEF AwaitIsTrue, AnswersStand
    <2>3. CASE resolve_activity(history) = 0
      <3>1. UNCHANGED answers /\ pc' = "decide"
        BY <1>2, <2>3 DEF await_activity_step
      <3>2. QED
        BY <1>b, <2>1, <2>3, <3>1 DEF AwaitIsTrue, AnswersStand
    <2>4. QED
      BY <2>2, <2>3
  <1>3. CASE take_runtime_completion
    <2>1. retained.attempt \in Nat
      BY DEF TypeOK
    <2>2. \E t \in {"Completed", "Failed"} : AnswerWith(t, retained.attempt)
      BY <1>3 DEF take_runtime_completion
    <2>3. ~Resolved(history)
      BY <1>3 DEF take_runtime_completion, AwaitIsTrue
    <2>4. QED
      BY <2>1, <2>2, <2>3, AnswerStands
  <1>4. CASE NothingRetained
    BY <1>4, NeutralAwait DEF NothingRetained, Neutral
  <1>5. CASE ScopeExpires
    <2>1. AnswerWith("Failed", latest_recorded_attempt(Snapshot)) /\ ~Resolved(history)
      BY <1>5 DEF ScopeExpires, AwaitIsTrue
    <2>2. QED
      BY <1>a, <2>1, AnswerStands
  <1>6. CASE Suspends
    BY <1>6, NeutralAwait DEF Suspends, Neutral
  <1>7. CASE ProcessExits
    <2>1. UNCHANGED answers /\ pc' = "none" /\ Resolved(history)
      BY <1>7 DEF ProcessExits, AwaitIsTrue
    <2>2. Neutral
      <3>1. \/ UNCHANGED history
            \/ \E t \in {"RunCompleted", "RunFailed"} : Record(Event(t, 0))
        BY <1>7 DEF ProcessExits
      <3>2. ASSUME NEW t \in {"RunCompleted", "RunFailed"}, Record(Event(t, 0)) PROVE Neutral
        <4>1. Event(t, 0) \in Events /\ Event(t, 0).type = t
          BY <1>c DEF EventTypes, RunEnds
        <4>2. Fits(history, Event(t, 0))
          BY <2>1, <4>1 DEF Fits, Trail
        <4>3. QED
          BY <3>2, <4>1, <4>2 DEF Neutral
      <3>3. QED
        BY <3>1, <3>2 DEF Neutral
    <2>3. QED
      BY <2>1, <2>2, NeutralAwait
  <1>8. CASE Kill
    BY <1>8, NeutralAwait DEF Kill, Neutral
  <1>9. ASSUME NEW l \in Lives, Return(l) PROVE Sound(history') /\ AwaitIsTrue' /\ AnswersStand'
    BY <1>9, NeutralAwait DEF Return, Neutral, process
  <1>10. ASSUME NEW l \in Lives, failure_stand_down(l)
         PROVE  Sound(history') /\ AwaitIsTrue' /\ AnswersStand'
    BY <1>10, NeutralAwait DEF failure_stand_down, Neutral, process
  <1>11. ASSUME NEW l \in Lives, AttemptFailed(l)
         PROVE  Sound(history') /\ AwaitIsTrue' /\ AnswersStand'
    <2> DEFINE e == Event("Retryable", loop[l].attempt)
    <2>1. e \in Events /\ e.type = "Retryable"
      BY <1>d, RetryEvents, EventFacts
    <2>2. record_retry_event(l, e, [loop[l] EXCEPT !.pc = "backoff"])
      BY <1>11 DEF AttemptFailed
    <2> HIDE DEF e
    <2>3. Neutral
      BY <2>1, <2>2, RetryIsNeutral
    <2>4. UNCHANGED <<pc, answers>>
      BY <1>11 DEF AttemptFailed, process
    <2>5. QED
      BY <2>3, <2>4, NeutralAwait
  <1>12. ASSUME NEW l \in Lives, AttemptStarted(l)
         PROVE  Sound(history') /\ AwaitIsTrue' /\ AnswersStand'
    <2> DEFINE e == Event("Started", loop[l].attempt + 1)
    <2>1. e \in Events /\ e.type = "Started"
      BY <1>d, RetryEvents, EventFacts
    <2>2. record_retry_event(l, e, LoopAt("call", loop[l].attempt + 1, "none"))
      BY <1>12 DEF AttemptStarted
    <2> HIDE DEF e
    <2>3. Neutral
      BY <2>1, <2>2, RetryIsNeutral
    <2>4. UNCHANGED <<pc, answers>>
      BY <1>12 DEF AttemptStarted, process
    <2>5. QED
      BY <2>3, <2>4, NeutralAwait
  <1>13. ASSUME NEW l \in Lives, deliver_activity_message(l)
         PROVE  Sound(history') /\ AwaitIsTrue' /\ AnswersStand'
    BY <1>13, NeutralAwait DEF deliver_activity_message, Neutral
  <1>14. CASE deliver_outbox
    BY <1>14, NeutralAwait DEF deliver_outbox, Neutral
  <1>15. CASE ScopeFires
    <2>1. Event("ScopeFired", 0) \in Events /\ Event("ScopeFired", 0).type = "ScopeFired"
      BY <1>c DEF EventTypes
    <2>2. Fits(history, Event("ScopeFired", 0))
      BY <2>1 DEF Fits, Trail
    <2>3. QED
      BY <1>15, <2>1, <2>2, NeutralAwait DEF ScopeFires, Neutral
  <1>16. CASE Cancel
    <2>1. Event("RunCancelled", 0) \in Events /\ Event("RunCancelled", 0).type = "RunCancelled"
      BY <1>c DEF EventTypes, RunEnds
    <2>2. Fits(history, Event("RunCancelled", 0))
      BY <2>1 DEF Fits, Trail
    <2>3. QED
      BY <1>16, <2>1, <2>2, NeutralAwait DEF Cancel, Neutral, process
  <1>17. CASE reopen_workflow
    <2> DEFINE named == /\ current_lease_terminal(history) = "RunFailed"
                        /\ reopened_failed_activities(history)
    <2>1. CASE ~named
      <3>1. Event("ReopenedOther", 0) \in Events /\ Event("ReopenedOther", 0).type = "ReopenedOther"
        BY <1>c DEF EventTypes
      <3>2. Fits(history, Event("ReopenedOther", 0))
        BY <3>1 DEF Fits, Trail
      <3>3. /\ Record(Event("ReopenedOther", 0))
            /\ UNCHANGED answers /\ pc' = "dispatch"
        BY <1>17, <2>1 DEF reopen_workflow
      <3>4. Neutral
        BY <3>1, <3>2, <3>3 DEF Neutral
      <3>5. QED
        BY <3>3, <3>4, NeutralAwait
    <2>2. CASE named
      <3> DEFINE e == Event("Reopened", 0)
      <3>1. e \in Events /\ e.type = "Reopened"
        BY <1>c DEF EventTypes
      <3>2. /\ history' = Append(history, e)
            /\ answers' = {} /\ pc' = "dispatch"
        BY <1>17, <2>2 DEF reopen_workflow, Record
      <3> HIDE DEF e
      <3>3. Fits(history, e)
        BY <1>a, <2>2, <3>1, NamedHasNotCompleted DEF Fits, Trail
      <3>4. Sound(history')
        BY <1>a, <3>1, <3>2, <3>3, SoundAppend
      <3>5. QED
        BY <3>2, <3>4 DEF AwaitIsTrue, AnswersStand
    <2>3. QED
      BY <2>1, <2>2
  <1>18. CASE DrainBegins
    BY <1>18, NeutralAwait DEF DrainBegins, Neutral, process
  <1>19. CASE Restart
    BY <1>19, NeutralAwait DEF Restart, Neutral
  <1>20. CASE UNCHANGED vars
    BY <1>20, NeutralAwait DEF vars, Neutral, process
  <1>21. QED
    BY <1>1, <1>2, <1>3, <1>4, <1>5, <1>6, <1>7, <1>8, <1>9, <1>10, <1>11, <1>12, <1>13,
       <1>14, <1>15, <1>16, <1>17, <1>18, <1>19, <1>20
       DEF Next, System, Process, Environment, Loop

-----------------------------------------------------------------------------
(* The retry loops and their attempts.                                     *)

\* The step starts no attempt.
NoStart ==
    \A p \in DOMAIN history' : At(history', p, {"Started"}) =>
        p \in DOMAIN history /\ history'[p] = history[p]

\* A step that keeps the history, or records anything but a start.
LEMMA OtherRecords ==
    ASSUME TypeOK,
           \/ UNCHANGED history
           \/ \E e \in Events : Record(e) /\ e.type # "Started"
    PROVE  NoStart
  <1>1. CASE UNCHANGED history
    BY <1>1 DEF NoStart
  <1>2. ASSUME NEW e \in Events, Record(e), e.type # "Started" PROVE NoStart
    <2>1. history \in Seq(Events) /\ history' = Append(history, e)
      BY <1>2, TypeFacts DEF Record
    <2>2. /\ DOMAIN history = 1 .. Len(history) /\ Len(history) \in Nat
          /\ DOMAIN history' = 1 .. Len(history) + 1
          /\ \A p \in 1 .. Len(history) : history'[p] = history[p]
          /\ history'[Len(history) + 1] = e
      BY <2>1, AppendFacts
    <2>3. QED
      BY <1>2, <2>2 DEF NoStart, At
  <1>3. QED
    BY <1>1, <1>2

LEMMA NoStartKeeps ==
    ASSUME AttemptsAreNew, NoStart
    PROVE  AttemptsAreNew'
  BY DEF AttemptsAreNew, NoStart, At

\* The loop of the life keeps its attempt, or is past its attempts.
LEMMA NoStartLatest ==
    ASSUME LoopIsLatest, NoStart,
           \/ loop'[life'].pc \notin {"call", "returned", "backoff"}
           \/ /\ loop[life].pc \in {"call", "returned", "backoff"}
              /\ loop'[life'].attempt = loop[life].attempt
    PROVE  LoopIsLatest'
  BY DEF LoopIsLatest, NoStart, At

\* A start above every attempt of the history.
LEMMA StartIsNew ==
    ASSUME TypeOK, AttemptsAreNew, NEW a \in Nat, Record(Event("Started", a)),
           \A p \in DOMAIN history : At(history, p, {"Started"}) => history[p].attempt < a
    PROVE  /\ AttemptsAreNew'
           /\ \A p \in DOMAIN history' : At(history', p, {"Started"}) => history'[p].attempt =< a
  <1> DEFINE e == Event("Started", a)
             n == Len(history) + 1
  <1>1. e \in Events /\ e.type = "Started" /\ e.attempt = a
    BY RetryEvents, EventFacts
  <1>2. /\ DOMAIN history = 1 .. Len(history) /\ Len(history) \in Nat
        /\ DOMAIN history' = 1 .. n
        /\ \A p \in 1 .. Len(history) : history'[p] = history[p]
        /\ history'[n] = e
    BY <1>1, TypeFacts, AppendFacts DEF Record
  <1> HIDE DEF e
  <1>3. \A p \in 1 .. Len(history) : history[p].attempt \in Nat
    <2>1. \A p \in 1 .. Len(history) : history[p] \in Events
      BY TypeFacts
    <2>2. \A x \in Events : x.attempt \in Nat
      BY DEF Events
    <2>3. QED
      BY <2>1, <2>2
  <1>4. \A p \in DOMAIN history' : At(history', p, {"Started"}) => history'[p].attempt =< a
    <2> SUFFICES ASSUME NEW p \in 1 .. n, At(history', p, {"Started"})
                 PROVE  history'[p].attempt =< a
      BY <1>2
    <2>1. CASE p = n
      BY <1>1, <1>2, <2>1
    <2>2. CASE p \in 1 .. Len(history)
      BY <1>2, <1>3, <2>2 DEF At
    <2>3. QED
      BY <1>2, <2>1, <2>2
  <1>5. AttemptsAreNew'
    <2> SUFFICES ASSUME NEW p \in 1 .. n, NEW q \in 1 .. n, p < q,
                        At(history', p, {"Started"}), At(history', q, {"Started"})
                 PROVE  history'[p].attempt < history'[q].attempt
      BY <1>2 DEF AttemptsAreNew
    <2>1. p \in 1 .. Len(history)
      BY <1>2
    <2>2. CASE q = n
      BY <1>1, <1>2, <2>1, <2>2 DEF At
    <2>3. CASE q \in 1 .. Len(history)
      BY <1>2, <2>1, <2>3 DEF AttemptsAreNew, At
    <2>4. QED
      BY <1>2, <2>2, <2>3
  <1>6. QED
    BY <1>4, <1>5

LoopsOK == LoopsAreSpawned /\ LoopIsLatest /\ AttemptsAreNew

\* The step leaves the loops, and the process no further back than it was.
LEMMA LoopsKept ==
    ASSUME TypeOK, LoopsOK, NoStart, UNCHANGED <<life, loop>>, pc' # "dispatch" \/ pc' = pc
    PROVE  LoopsOK'
  <1>1. LoopsAreSpawned'
    BY DEF LoopsOK, LoopsAreSpawned
  <1>2. LoopIsLatest'
    BY NoStartLatest DEF LoopsOK, LoopIsLatest
  <1>3. QED
    BY <1>1, <1>2, NoStartKeeps DEF LoopsOK

\* The step moves one loop on, without a new attempt.
LEMMA LoopMovesOn ==
    ASSUME TypeOK, LoopsOK, NoStart, NEW l \in Lives, NEW r \in Loops,
           loop' = [loop EXCEPT ![l] = r], UNCHANGED <<life, pc>>,
           loop[l].pc # "none",
           \/ r.pc \notin {"call", "returned", "backoff"}
           \/ loop[l].pc \in {"call", "returned", "backoff"} /\ r.attempt = loop[l].attempt
    PROVE  LoopsOK'
  <1>1. loop \in [Lives -> Loops] /\ life \in Lives
    BY TypeFacts DEF TypeOK
  <1>2. \A k \in Lives : loop'[k] = IF k = l THEN r ELSE loop[k]
    BY <1>1
  <1>3. LoopsAreSpawned'
    BY <1>1, <1>2 DEF LoopsOK, LoopsAreSpawned
  <1>4. LoopIsLatest'
    <2>1. CASE l = life
      BY <1>1, <1>2, <2>1, NoStartLatest DEF LoopsOK
    <2>2. CASE l # life
      BY <1>1, <1>2, <2>2, NoStartLatest DEF LoopsOK, LoopIsLatest
    <2>3. QED
      BY <2>1, <2>2
  <1>5. QED
    BY <1>3, <1>4, NoStartKeeps DEF LoopsOK

\* Where record_retry_event records nothing.
LEMMA RetryStands ==
    ASSUME TypeOK, LoopsOK, NEW l \in Lives, NEW e \in Events, NEW next \in Loops,
           loop[l].pc # "none",
           record_retry_event(l, e, next), UNCHANGED <<life, pc>>,
           activity_settled(history) \/ l # life
    PROVE  LoopsOK'
  <1> DEFINE Failing == LoopAt("deliver", loop[l].attempt, "retryable")
             Stood == LoopAt("stood", 0, "none")
  <1>1. loop[l].attempt \in Nat
    BY TypeFacts DEF Loops
  <1>2. /\ Failing \in Loops /\ Failing.pc = "deliver"
        /\ Stood \in Loops /\ Stood.pc = "stood"
    BY <1>1, LoopFacts DEF Reasons
  <1> HIDE DEF Failing, Stood
  <1>3. /\ \/ loop' = [loop EXCEPT ![l] = Stood]
           \/ loop' = [loop EXCEPT ![l] = Failing]
        /\ UNCHANGED history
    BY DEF record_retry_event, Stood, Failing
  <1>4. NoStart
    BY <1>3, OtherRecords
  <1>5. QED
    BY <1>2, <1>3, <1>4, LoopMovesOn

LEMMA LoopsStep ==
    ASSUME TypeOK, TypeOK', LoopsOK, [Next]_vars
    PROVE  LoopsOK'
  <1>a. /\ history \in Seq(Events) /\ DOMAIN history = 1 .. Len(history) /\ Len(history) \in Nat
        /\ loop \in [Lives -> Loops] /\ life \in Lives
        /\ next_delivery_attempt(history) \in Nat
        /\ latest_recorded_attempt(Snapshot) \in Nat
    BY TypeFacts DEF TypeOK
  <1>b. \A t \in EventTypes : Event(t, 0) \in Events /\ Event(t, 0).type = t
    BY EventFacts
  <1>c. \A l \in Lives : loop[l].attempt \in Nat
    BY <1>a DEF Loops
  <1>d. \A p \in 1 .. Len(history) : history[p].attempt \in Nat
    <2>1. \A p \in 1 .. Len(history) : history[p] \in Events
      BY <1>a
    <2>2. \A x \in Events : x.attempt \in Nat
      BY DEF Events
    <2>3. QED
      BY <2>1, <2>2
  <1>1. CASE dispatch_activity
    <2>1. CASE resolve_activity(history) # 0
      BY <1>1, <2>1, LoopsKept, OtherRecords DEF dispatch_activity
    <2>2. CASE resolve_activity(history) = 0
      <3> DEFINE a == next_delivery_attempt(history)
                 r == LoopAt("call", a, "none")
      <3>1. /\ Record(Event("Started", a))
            /\ loop' = [loop EXCEPT ![life] = r]
            /\ UNCHANGED life /\ pc' = "await"
        BY <1>1, <2>2 DEF dispatch_activity
      <3>2. r \in Loops /\ r.pc = "call" /\ r.attempt = a
        BY <1>a, LoopFacts
      <3>3. \A p \in DOMAIN history : At(history, p, {"Started"}) => history[p].attempt < a
        <4>1. \A p \in DOMAIN history : At(history, p, {"Started"}) =>
                  history[p].attempt =< latest_recorded_attempt(history)
          BY <1>a, LatestIsBound DEF At, Trail
        <4>2. latest_recorded_attempt(history) \in Nat
          BY <1>a, LatestIsBound
        <4>3. QED
          BY <1>a, <1>d, <4>1, <4>2 DEF next_delivery_attempt
      <3> HIDE DEF r, a
      <3>4. a \in Nat
        BY <1>a DEF a
      <3>5. /\ AttemptsAreNew'
            /\ \A p \in DOMAIN history' : At(history', p, {"Started"}) => history'[p].attempt =< a
        BY <3>1, <3>3, <3>4, StartIsNew DEF LoopsOK
      <3>6. \A k \in Lives : loop'[k] = IF k = life THEN r ELSE loop[k]
        BY <1>a, <3>1
      <3>7. LoopsAreSpawned'
        <4>1. \A k \in Lives : k > life => loop'[k].pc = "none"
          BY <1>a, <3>6 DEF LoopsOK, LoopsAreSpawned, Lives
        <4>2. QED
          BY <3>1, <4>1 DEF LoopsAreSpawned
      <3>8. LoopIsLatest'
        BY <1>a, <3>1, <3>2, <3>5, <3>6 DEF LoopIsLatest
      <3>9. QED
        BY <3>5, <3>7, <3>8 DEF LoopsOK
    <2>3. QED
      BY <2>1, <2>2
  <1>2. CASE await_activity_step
    BY <1>2, LoopsKept, OtherRecords DEF await_activity_step
  <1>e. ASSUME NEW t \in {"Completed", "Failed"}, NEW a \in Nat, AnswerWith(t, a),
               UNCHANGED <<life, loop>>
        PROVE  LoopsOK'
    <2>1. Event(t, Max({a, 1})) \in Events /\ Event(t, Max({a, 1})).type = t
      BY MaxWithOne, EventFacts DEF EventTypes, Trail
    <2>2. Record(Event(t, Max({a, 1}))) /\ pc' = "answered"
      BY <1>e DEF AnswerWith
    <2>3. NoStart
      BY <2>1, <2>2, OtherRecords
    <2>4. QED
      BY <1>e, <2>2, <2>3, LoopsKept
  <1>3. CASE take_runtime_completion
    <2>1. retained.attempt \in Nat
      BY DEF TypeOK
    <2>2. \E t \in {"Completed", "Failed"} : AnswerWith(t, retained.attempt)
      BY <1>3 DEF take_runtime_completion
    <2>3. QED
      BY <1>3, <1>e, <2>1, <2>2 DEF take_runtime_completion
  <1>4. CASE NothingRetained
    BY <1>4, LoopsKept, OtherRecords DEF NothingRetained
  <1>5. CASE ScopeExpires
    BY <1>5, <1>a, <1>e DEF ScopeExpires
  <1>6. CASE Suspends
    BY <1>6, LoopsKept, OtherRecords DEF Suspends
  <1>7. CASE ProcessExits
    <2>1. \/ UNCHANGED history
          \/ \E t \in EventTypes : t # "Started" /\ Record(Event(t, 0))
      BY <1>7 DEF ProcessExits, EventTypes, RunEnds
    <2>2. NoStart
      BY <1>b, <2>1, OtherRecords
    <2>3. QED
      BY <1>7, <2>2, LoopsKept DEF ProcessExits
  <1>8. CASE Kill
    BY <1>8, LoopsKept, OtherRecords DEF Kill
  <1>9. ASSUME NEW l \in Lives, Return(l) PROVE LoopsOK'
    <2>1. PICK reason \in Reasons :
           loop' = [loop EXCEPT ![l] = LoopAt("returned", loop[l].attempt, reason)]
      BY <1>9 DEF Return
    <2>2. /\ LoopAt("returned", loop[l].attempt, reason) \in Loops
          /\ LoopAt("returned", loop[l].attempt, reason).attempt = loop[l].attempt
      BY <1>c, LoopFacts
    <2>3. NoStart /\ loop[l].pc = "call" /\ UNCHANGED <<life, pc>>
      BY <1>9, OtherRecords DEF Return, process
    <2>4. QED
      BY <2>1, <2>2, <2>3, LoopMovesOn
  <1>10. ASSUME NEW l \in Lives, failure_stand_down(l) PROVE LoopsOK'
    <2>1. /\ LoopAt("parked", 0, "none") \in Loops /\ LoopAt("parked", 0, "none").pc = "parked"
          /\ [loop[l] EXCEPT !.pc = "deliver"] \in Loops
          /\ [loop[l] EXCEPT !.pc = "deliver"].pc = "deliver"
      <3>1. loop[l] \in Loops
        BY <1>a
      <3>2. LoopAt("parked", 0, "none") \in Loops /\ LoopAt("parked", 0, "none").pc = "parked"
        BY LoopFacts
      <3>3. [loop[l] EXCEPT !.pc = "deliver"] \in Loops
            /\ [loop[l] EXCEPT !.pc = "deliver"].pc = "deliver"
        BY <3>1, LoopMoves
      <3>4. QED
        BY <3>2, <3>3
    <2>2. \E r \in Loops : r.pc \in {"parked", "deliver"} /\ loop' = [loop EXCEPT ![l] = r]
      BY <1>10, <1>a, <2>1 DEF failure_stand_down
    <2>3. NoStart /\ loop[l].pc = "returned" /\ UNCHANGED <<life, pc>>
      BY <1>10, OtherRecords DEF failure_stand_down, process
    <2>4. QED
      BY <2>2, <2>3, LoopMovesOn
  <1>11. ASSUME NEW l \in Lives, AttemptFailed(l) PROVE LoopsOK'
    <2> DEFINE e == Event("Retryable", loop[l].attempt)
               r == [loop[l] EXCEPT !.pc = "backoff"]
    <2>1. e \in Events /\ e.type = "Retryable"
      BY <1>c, RetryEvents, EventFacts
    <2>2. r \in Loops /\ r.attempt = loop[l].attempt
      BY <1>a, LoopMoves
    <2>3. /\ record_retry_event(l, e, r) /\ loop[l].pc = "returned"
          /\ UNCHANGED <<life, pc>>
      BY <1>11 DEF AttemptFailed, process
    <2> HIDE DEF e, r
    <2>4. CASE activity_settled(history) \/ l # life
      BY <2>1, <2>2, <2>3, <2>4, RetryStands
    <2>5. CASE ~activity_settled(history) /\ l = life
      <3>1. loop' = [loop EXCEPT ![l] = r] /\ Record(e)
        BY <2>3, <2>5 DEF record_retry_event
      <3>2. NoStart
        BY <2>1, <3>1, OtherRecords
      <3>3. QED
        BY <2>2, <2>3, <3>1, <3>2, LoopMovesOn
    <2>6. QED
      BY <2>4, <2>5
  <1>12. ASSUME NEW l \in Lives, AttemptStarted(l) PROVE LoopsOK'
    <2> DEFINE a == loop[l].attempt + 1
               r == LoopAt("call", a, "none")
    <2>1. /\ a \in Nat /\ Event("Started", a) \in Events
          /\ r \in Loops /\ r.pc = "call" /\ r.attempt = a
      BY <1>c, RetryEvents, EventFacts, LoopFacts
    <2>2. /\ record_retry_event(l, Event("Started", a), r) /\ loop[l].pc = "backoff"
          /\ UNCHANGED <<life, pc>>
      BY <1>12 DEF AttemptStarted, process
    <2> HIDE DEF r
    <2>3. CASE activity_settled(history) \/ l # life
      BY <2>1, <2>2, <2>3, RetryStands
    <2>4. CASE ~activity_settled(history) /\ l = life
      <3>1. loop' = [loop EXCEPT ![l] = r] /\ Record(Event("Started", a))
        BY <2>2, <2>4 DEF record_retry_event
      <3>2. \A p \in DOMAIN history : At(history, p, {"Started"}) => history[p].attempt < a
        BY <1>a, <1>c, <1>d, <2>2, <2>4 DEF LoopsOK, LoopIsLatest
      <3>3. /\ AttemptsAreNew'
            /\ \A p \in DOMAIN history' : At(history', p, {"Started"}) => history'[p].attempt =< a
        BY <2>1, <3>1, <3>2, StartIsNew DEF LoopsOK
      <3>4. \A k \in Lives : loop'[k] = IF k = l THEN r ELSE loop[k]
        BY <1>a, <3>1
      <3>5. LoopsAreSpawned'
        BY <1>a, <2>2, <2>4, <3>4 DEF LoopsOK, LoopsAreSpawned
      <3>6. LoopIsLatest'
        BY <1>a, <2>1, <2>2, <2>4, <3>3, <3>4 DEF LoopIsLatest
      <3>7. QED
        BY <3>3, <3>5, <3>6 DEF LoopsOK
    <2>5. QED
      BY <2>3, <2>4
  <1>13. ASSUME NEW l \in Lives, deliver_activity_message(l) PROVE LoopsOK'
    <2>1. LoopAt("done", 0, "none") \in Loops /\ LoopAt("done", 0, "none").pc = "done"
      BY LoopFacts
    <2>2. NoStart /\ loop[l].pc = "deliver" /\ UNCHANGED <<life, pc>>
          /\ loop' = [loop EXCEPT ![l] = LoopAt("done", 0, "none")]
      BY <1>13, OtherRecords DEF deliver_activity_message
    <2>3. QED
      BY <2>1, <2>2, LoopMovesOn
  <1>14. CASE deliver_outbox
    BY <1>14, LoopsKept, OtherRecords DEF deliver_outbox
  <1>15. CASE ScopeFires
    <2>1. Event("ScopeFired", 0) \in Events /\ Event("ScopeFired", 0).type # "Started"
      BY <1>b DEF EventTypes
    <2>2. QED
      BY <1>15, <2>1, LoopsKept, OtherRecords DEF ScopeFires
  <1>16. CASE Cancel
    <2>1. Event("RunCancelled", 0) \in Events /\ Event("RunCancelled", 0).type # "Started"
      BY <1>b DEF EventTypes, RunEnds
    <2>2. QED
      BY <1>16, <2>1, LoopsKept, OtherRecords DEF Cancel, process
  <1>17. CASE reopen_workflow
    <2>1. \E t \in EventTypes : t # "Started" /\ Record(Event(t, 0))
      BY <1>17 DEF reopen_workflow, EventTypes
    <2>2. NoStart
      BY <1>b, <2>1, OtherRecords
    <2>3. life' = life + 1 /\ life' \in Lives /\ UNCHANGED loop
      BY <1>17 DEF reopen_workflow, TypeOK
    <2>4. loop'[life'].pc = "none"
      BY <1>a, <2>3 DEF LoopsOK, LoopsAreSpawned, Lives
    <2>5. LoopsAreSpawned'
      BY <1>a, <2>3, <2>4 DEF LoopsOK, LoopsAreSpawned, Lives
    <2>6. LoopIsLatest'
      BY <2>4 DEF LoopIsLatest
    <2>7. QED
      BY <2>2, <2>5, <2>6, NoStartKeeps DEF LoopsOK
  <1>18. CASE DrainBegins
    BY <1>18, LoopsKept, OtherRecords DEF DrainBegins, process
  <1>19. CASE Restart
    <2>1. \A k \in Lives : loop'[k].pc = "none"
      BY <1>19 DEF Restart, Idle, LoopAt
    <2>2. NoStart /\ life' \in Lives
      BY <1>19, OtherRecords DEF Restart, TypeOK
    <2>3. LoopsAreSpawned' /\ LoopIsLatest'
      BY <2>1, <2>2 DEF LoopsAreSpawned, LoopIsLatest
    <2>4. QED
      BY <2>2, <2>3, NoStartKeeps DEF LoopsOK
  <1>20. CASE UNCHANGED vars
    BY <1>20, LoopsKept, OtherRecords DEF vars, process
  <1>21. QED
    BY <1>1, <1>2, <1>3, <1>4, <1>5, <1>6, <1>7, <1>8, <1>9, <1>10, <1>11, <1>12, <1>13,
       <1>14, <1>15, <1>16, <1>17, <1>18, <1>19, <1>20
       DEF Next, System, Process, Environment, Loop

-----------------------------------------------------------------------------
(* Where a cancelled run is not reopened.                                  *)

\* What an append that does not reopen makes of the run's end.
LEMMA AppendLease ==
    ASSUME NEW h \in Seq(Events), NEW e \in Events, e.type \notin Reopens,
           current_lease_terminal(h) # "none"
    PROVE  current_lease_terminal(Append(h, e)) # "none"
  <1> DEFINE g == Append(h, e)
  <1>1. /\ DOMAIN h = 1 .. Len(h) /\ DOMAIN g = 1 .. Len(h) + 1 /\ Len(h) \in Nat
        /\ \A p \in 1 .. Len(h) : g[p] = h[p]
        /\ g[Len(h) + 1] = e
        /\ g \in Seq(Events)
    BY AppendFacts
  <1> HIDE DEF g
  <1>2. PICK p \in DOMAIN h : EndsLease(h, p)
    BY LeaseTerminal
  <1>3. EndsLease(g, p) /\ p \in DOMAIN g
    BY <1>1, <1>2 DEF EndsLease, At
  <1>4. QED
    BY <1>1, <1>3, LeaseTerminal DEF g

\* A cancelled run has ended for good.
LEMMA CancelledHasEnded ==
    ASSUME NEW h \in Seq(Events), CancelledStays(h),
           NEW p \in DOMAIN h, At(h, p, {"RunCancelled"})
    PROVE  current_lease_terminal(h) = "RunCancelled"
  <1>1. DOMAIN h = 1 .. Len(h) /\ Len(h) \in Nat
    OBVIOUS
  <1>2. \A q \in DOMAIN h : At(h, q, RunEnds \cup {"Reopened", "ReopenedOther"}) => q =< p
    BY <1>1 DEF CancelledStays
  <1>3. \A q \in DOMAIN h : At(h, q, Reopens) => q # p
    BY DEF At, Reopens
  <1>4. EndsLease(h, p)
    BY <1>1, <1>2, <1>3 DEF EndsLease, At, RunEnds, Reopens
  <1>5. PICK q \in DOMAIN h : /\ EndsLease(h, q)
                              /\ current_lease_terminal(h) = h[q].type
                              /\ \A r \in DOMAIN h : EndsLease(h, r) => r =< q
    BY <1>4, LeaseTerminal
  <1>6. q = p
    BY <1>1, <1>2, <1>4, <1>5 DEF EndsLease, At
  <1>7. QED
    BY <1>5, <1>6 DEF At

\* An append keeps a cancelled run cancelled unless it ends or reopens a run that
\* was cancelled.
LEMMA CancelledAppend ==
    ASSUME NEW h \in Seq(Events), NEW e \in Events, CancelledStays(h),
           \/ e.type \notin RunEnds \cup Reopens
           \/ current_lease_terminal(h) # "RunCancelled"
    PROVE  CancelledStays(Append(h, e))
  <1> DEFINE g == Append(h, e)
  <1>1. /\ DOMAIN h = 1 .. Len(h) /\ DOMAIN g = 1 .. Len(h) + 1 /\ Len(h) \in Nat
        /\ \A p \in 1 .. Len(h) : g[p] = h[p]
        /\ g[Len(h) + 1] = e
    BY AppendFacts
  <1> HIDE DEF g
  <1>2. SUFFICES ASSUME NEW p \in DOMAIN g, NEW q \in DOMAIN g, p < q, At(g, p, {"RunCancelled"}),
                        At(g, q, RunEnds \cup {"Reopened", "ReopenedOther"})
                 PROVE  FALSE
    BY DEF CancelledStays, g
  <1>3. p \in DOMAIN h /\ At(h, p, {"RunCancelled"})
    BY <1>1, <1>2 DEF At
  <1>4. CASE q \in DOMAIN h
    BY <1>1, <1>2, <1>3, <1>4 DEF CancelledStays, At
  <1>5. CASE q = Len(h) + 1
    <2>1. current_lease_terminal(h) = "RunCancelled"
      BY <1>3, CancelledHasEnded
    <2>2. e.type \in RunEnds \cup Reopens
      BY <1>1, <1>2, <1>5 DEF At, Reopens
    <2>3. QED
      BY <2>1, <2>2
  <1>6. QED
    BY <1>1, <1>4, <1>5

\* Where activity_settled says yes, the await has its answer or the run has ended.
LEMMA SettledIsSettled ==
    ASSUME TypeOK, Sound(history), CancelledStays(history), activity_settled(history)
    PROVE  Resolved(history) \/ Ended
  <1>1. history \in Seq(Events)
    BY TypeFacts
  <1>2. PICK p \in DOMAIN history : /\ At(history, p, {"Completed", "Failed"} \cup RunEnds)
                                    /\ ~activity_reopened_after(history, p)
    BY <1>1, SettledCases
  <1>3. CASE At(history, p, {"Completed", "Failed"})
    BY <1>2, <1>3 DEF Resolved, Standing
  <1>4. CASE At(history, p, {"RunCompleted", "RunFailed"})
    BY <1>2, <1>4 DEF Sound, EndIsResolved
  <1>5. CASE At(history, p, {"RunCancelled"})
    BY <1>1, <1>5, CancelledHasEnded DEF Ended
  <1>6. QED
    BY <1>2, <1>3, <1>4, <1>5 DEF At, RunEnds

\* StoodDownIsSettled in terms of the terminals that stand.
StoodDown == loop[life].pc = "stood" => Resolved(history) \/ Ended

\* A step that keeps the loop of the life, or stands it down where activity_settled
\* says yes, and does not reopen the run.
LEMMA StoodKept ==
    ASSUME TypeOK, Sound(history), CancelledStays(history), StoodDown, UNCHANGED life,
           \/ loop'[life].pc # "stood"
           \/ loop'[life] = loop[life]
           \/ activity_settled(history),
           \/ UNCHANGED history
           \/ \E e \in Events : Record(e) /\ e.type \notin Reopens
    PROVE  StoodDown'
  <1>1. history \in Seq(Events)
    BY TypeFacts
  <1>2. Resolved(history) => Resolved(history')
    <2>1. CASE UNCHANGED history
      BY <2>1
    <2>2. ASSUME NEW e \in Events, Record(e), e.type \notin Reopens
          PROVE  Resolved(history) => Resolved(history')
      BY <1>1, <2>2, AppendStanding DEF Record, Reopens
    <2>3. QED
      BY <2>1, <2>2
  <1>3. Ended => Ended'
    <2>1. CASE UNCHANGED history
      BY <2>1 DEF Ended
    <2>2. ASSUME NEW e \in Events, Record(e), e.type \notin Reopens
          PROVE  Ended => Ended'
      BY <1>1, <2>2, AppendLease DEF Record, Ended
    <2>3. QED
      BY <2>1, <2>2
  <1>4. activity_settled(history) => Resolved(history) \/ Ended
    BY SettledIsSettled
  <1>5. QED
    BY <1>2, <1>3, <1>4 DEF StoodDown

\* The step keeps the history, or records what neither reopens nor ends an ended run.
Plain ==
    \/ UNCHANGED history
    \/ \E e \in Events : /\ Record(e)
                         /\ e.type \notin Reopens
                         /\ e.type \in RunEnds => ~Ended

LEMMA PlainStep ==
    ASSUME TypeOK, Sound(history), CancelledStays(history), StoodDown, UNCHANGED life, Plain,
           \/ loop'[life].pc # "stood"
           \/ loop'[life] = loop[life]
           \/ activity_settled(history)
    PROVE  CancelledStays(history') /\ StoodDown'
  <1>1. history \in Seq(Events)
    BY TypeFacts
  <1>2. CancelledStays(history')
    <2>1. CASE UNCHANGED history
      BY <2>1
    <2>2. ASSUME NEW e \in Events, Record(e), e.type \notin Reopens, e.type \in RunEnds => ~Ended
          PROVE  CancelledStays(history')
      <3>1. e.type \notin RunEnds \cup Reopens \/ current_lease_terminal(history) # "RunCancelled"
        BY <2>2 DEF Ended
      <3>2. QED
        BY <1>1, <2>2, <3>1, CancelledAppend DEF Record
    <2>3. QED
      BY <2>1, <2>2 DEF Plain
  <1>3. StoodDown'
    BY StoodKept DEF Plain
  <1>4. QED
    BY <1>2, <1>3

\* record_retry_event stands down only where activity_settled says yes.
LEMMA RetryPlain ==
    ASSUME TypeOK, Sound(history), CancelledStays(history), StoodDown, UNCHANGED life,
           NEW l \in Lives, NEW e \in Events, NEW next \in Loops,
           next.pc # "stood", e.type \in {"Started", "Retryable"},
           record_retry_event(l, e, next)
    PROVE  CancelledStays(history') /\ StoodDown'
  <1> DEFINE Failing == LoopAt("deliver", loop[l].attempt, "retryable")
  <1>1. Failing.pc = "deliver"
    BY DEF LoopAt
  <1>2. loop \in [Lives -> Loops] /\ life \in Lives
    BY TypeFacts DEF TypeOK
  <1>3. Plain
    BY DEF record_retry_event, Plain, Reopens, RunEnds
  <1>4. CASE activity_settled(history)
    BY <1>3, <1>4, PlainStep
  <1>5. CASE ~activity_settled(history)
    <2>1. loop' = [loop EXCEPT ![l] = Failing] \/ loop' = [loop EXCEPT ![l] = next]
      BY <1>5 DEF record_retry_event
    <2> HIDE DEF Failing
    <2>2. loop'[life].pc # "stood" \/ loop'[life] = loop[life]
      BY <1>1, <1>2, <2>1
    <2>3. QED
      BY <1>3, <2>2, PlainStep
  <1>6. QED
    BY <1>4, <1>5

LEMMA UncancelledStep ==
    ASSUME "RunCancelled" \notin Reopenable, TypeOK, TypeOK', Sound(history), LoopsOK,
           CancelledStays(history), StoodDown, [Next]_vars
    PROVE  CancelledStays(history') /\ StoodDown'
  <1> DEFINE Goal == CancelledStays(history') /\ StoodDown'
  <1>a. /\ history \in Seq(Events)
        /\ loop \in [Lives -> Loops] /\ life \in Lives
        /\ next_delivery_attempt(history) \in Nat
        /\ latest_recorded_attempt(Snapshot) \in Nat
    BY TypeFacts DEF TypeOK
  <1>b. \A t \in EventTypes : Event(t, 0) \in Events /\ Event(t, 0).type = t
    BY EventFacts
  <1>c. \A l \in Lives : loop[l].attempt \in Nat
    BY <1>a DEF Loops
  <1>d. ASSUME NEW t \in EventTypes, Record(Event(t, 0)), t \notin Reopens, t \in RunEnds => ~Ended
        PROVE  Plain
    BY <1>b, <1>d DEF Plain
  <1>e. ASSUME NEW t \in {"Completed", "Failed"}, NEW a \in Nat, AnswerWith(t, a) PROVE Plain
    <2>1. Event(t, Max({a, 1})) \in Events /\ Event(t, Max({a, 1})).type = t
      BY MaxWithOne, EventFacts DEF EventTypes, Trail
    <2>2. QED
      BY <1>e, <2>1 DEF AnswerWith, Plain, Reopens, RunEnds
  <1>1. CASE dispatch_activity
    <2>1. CASE resolve_activity(history) # 0
      BY <1>1, <2>1, PlainStep DEF dispatch_activity, Plain
    <2>2. CASE resolve_activity(history) = 0
      <3> DEFINE a == next_delivery_attempt(history)
      <3>1. Event("Started", a) \in Events /\ Event("Started", a).type = "Started"
        BY <1>a, RetryEvents, EventFacts
      <3>2. Plain /\ UNCHANGED life
        BY <1>1, <2>2, <3>1 DEF dispatch_activity, Plain, Reopens, RunEnds
      <3>3. LoopAt("call", a, "none").pc = "call"
        BY DEF LoopAt
      <3>4. loop'[life].pc # "stood"
        BY <1>1, <1>a, <2>2, <3>3 DEF dispatch_activity
      <3>5. QED
        BY <3>2, <3>4, PlainStep
    <2>3. QED
      BY <2>1, <2>2
  <1>2. CASE await_activity_step
    BY <1>2, PlainStep DEF await_activity_step, Plain
  <1>3. CASE take_runtime_completion
    <2>1. retained.attempt \in Nat
      BY DEF TypeOK
    <2>2. \E t \in {"Completed", "Failed"} : AnswerWith(t, retained.attempt)
      BY <1>3 DEF take_runtime_completion
    <2>3. Plain
      BY <1>e, <2>1, <2>2
    <2>4. QED
      BY <1>3, <2>3, PlainStep DEF take_runtime_completion
  <1>4. CASE NothingRetained
    BY <1>4, PlainStep DEF NothingRetained, Plain
  <1>5. CASE ScopeExpires
    <2>1. Plain
      BY <1>5, <1>a, <1>e DEF ScopeExpires
    <2>2. QED
      BY <1>5, <2>1, PlainStep DEF ScopeExpires
  <1>6. CASE Suspends
    BY <1>6, PlainStep DEF Suspends, Plain
  <1>7. CASE ProcessExits
    <2>1. \/ UNCHANGED history
          \/ \E t \in {"RunCompleted", "RunFailed"} : ~Ended /\ Record(Event(t, 0))
      BY <1>7 DEF ProcessExits
    <2>2. Plain
      <3>1. ASSUME NEW t \in {"RunCompleted", "RunFailed"}, ~Ended, Record(Event(t, 0)) PROVE Plain
        BY <1>d, <3>1 DEF EventTypes, RunEnds, Reopens
      <3>2. QED
        BY <2>1, <3>1 DEF Plain
    <2>3. QED
      BY <1>7, <2>2, PlainStep DEF ProcessExits
  <1>8. CASE Kill
    BY <1>8, PlainStep DEF Kill, Plain
  <1>9. ASSUME NEW l \in Lives, Return(l) PROVE Goal
    <2>1. PICK reason \in Reasons :
           loop' = [loop EXCEPT ![l] = LoopAt("returned", loop[l].attempt, reason)]
      BY <1>9 DEF Return
    <2>2. LoopAt("returned", loop[l].attempt, reason).pc # "stood"
      BY DEF LoopAt
    <2>3. loop'[life].pc # "stood" \/ loop'[life] = loop[life]
      BY <1>a, <2>1, <2>2
    <2>4. QED
      BY <1>9, <2>3, PlainStep DEF Return, Plain
  <1>10. ASSUME NEW l \in Lives, failure_stand_down(l) PROVE Goal
    <2>1. LoopAt("parked", 0, "none").pc # "stood" /\ [loop[l] EXCEPT !.pc = "deliver"].pc # "stood"
      <3>1. loop[l] \in Loops
        BY <1>a
      <3>2. QED
        BY <3>1 DEF LoopAt, Loops
    <2>2. loop'[life].pc # "stood" \/ loop'[life] = loop[life]
      BY <1>10, <1>a, <2>1 DEF failure_stand_down
    <2>3. QED
      BY <1>10, <2>2, PlainStep DEF failure_stand_down, Plain
  <1>11. ASSUME NEW l \in Lives, AttemptFailed(l) PROVE Goal
    <2> DEFINE e == Event("Retryable", loop[l].attempt)
               r == [loop[l] EXCEPT !.pc = "backoff"]
    <2>1. e \in Events /\ e.type = "Retryable"
      BY <1>c, RetryEvents, EventFacts
    <2>2. r \in Loops /\ r.pc = "backoff"
      BY <1>a, LoopMoves
    <2>3. record_retry_event(l, e, r) /\ UNCHANGED life
      BY <1>11 DEF AttemptFailed
    <2> HIDE DEF e, r
    <2>4. QED
      BY <2>1, <2>2, <2>3, RetryPlain
  <1>12. ASSUME NEW l \in Lives, AttemptStarted(l) PROVE Goal
    <2> DEFINE a == loop[l].attempt + 1
               e == Event("Started", a)
               r == LoopAt("call", a, "none")
    <2>1. e \in Events /\ e.type = "Started" /\ r \in Loops /\ r.pc = "call"
      BY <1>c, RetryEvents, EventFacts, LoopFacts
    <2>2. record_retry_event(l, e, r) /\ UNCHANGED life
      BY <1>12 DEF AttemptStarted
    <2> HIDE DEF e, r
    <2>3. QED
      BY <2>1, <2>2, RetryPlain
  <1>13. ASSUME NEW l \in Lives, deliver_activity_message(l) PROVE Goal
    <2>1. LoopAt("done", 0, "none").pc # "stood"
      BY DEF LoopAt
    <2>2. loop'[life].pc # "stood" \/ loop'[life] = loop[life]
      BY <1>13, <1>a, <2>1 DEF deliver_activity_message
    <2>3. QED
      BY <1>13, <2>2, PlainStep DEF deliver_activity_message, Plain
  <1>14. CASE deliver_outbox
    BY <1>14, PlainStep DEF deliver_outbox, Plain
  <1>15. CASE ScopeFires
    <2>1. Plain
      BY <1>15, <1>d DEF ScopeFires, EventTypes, Reopens
    <2>2. QED
      BY <1>15, <2>1, PlainStep DEF ScopeFires
  <1>16. CASE Cancel
    <2>1. Plain
      BY <1>16, <1>d DEF Cancel, EventTypes, RunEnds, Reopens
    <2>2. QED
      BY <1>16, <2>1, PlainStep DEF Cancel
  <1>17. CASE reopen_workflow
    <2>1. PICK t \in Reopens : Record(Event(t, 0))
      BY <1>17 DEF reopen_workflow, Reopens
    <2>2. Event(t, 0) \in Events
      BY <1>b DEF EventTypes, Reopens
    <2>3. current_lease_terminal(history) # "RunCancelled"
      BY <1>17 DEF reopen_workflow
    <2>4. CancelledStays(history')
      BY <1>a, <2>1, <2>2, <2>3, CancelledAppend DEF Record
    <2>5. life' = life + 1 /\ life' \in Lives /\ UNCHANGED loop
      BY <1>17 DEF reopen_workflow, TypeOK
    <2>6. loop'[life'].pc = "none"
      BY <1>a, <2>5 DEF LoopsOK, LoopsAreSpawned, Lives
    <2>7. QED
      BY <2>4, <2>6 DEF StoodDown
  <1>18. CASE DrainBegins
    BY <1>18, PlainStep DEF DrainBegins, Plain
  <1>19. CASE Restart
    <2>1. \A k \in Lives : loop'[k].pc = "none"
      BY <1>19 DEF Restart, Idle, LoopAt
    <2>2. UNCHANGED history /\ life' \in Lives
      BY <1>19 DEF Restart, TypeOK
    <2>3. QED
      BY <2>1, <2>2 DEF StoodDown
  <1>20. CASE UNCHANGED vars
    BY <1>20, PlainStep DEF vars, Plain
  <1>21. QED
    BY <1>1, <1>2, <1>3, <1>4, <1>5, <1>6, <1>7, <1>8, <1>9, <1>10, <1>11, <1>12, <1>13,
       <1>14, <1>15, <1>16, <1>17, <1>18, <1>19, <1>20
       DEF Next, System, Process, Environment, Loop

-----------------------------------------------------------------------------
(* The theorems.                                                           *)

LEMMA IInvInit == Init => IInv /\ IInvUncancelled
  <1> SUFFICES ASSUME Init PROVE IInv /\ IInvUncancelled
    OBVIOUS
  <1>1. /\ history = << >> /\ DOMAIN history = {} /\ Len(history) = 0
        /\ history \in Seq(Events)
    BY DEF Init
  <1>2. Idle \in Loops /\ Idle.pc = "none"
    BY LoopFacts DEF Idle
  <1>3. \A l \in Lives : loop[l].pc = "none"
    BY <1>2 DEF Init
  <1>4. life \in Lives
    BY DEF Init, Lives
  <1>5. TypeOK
    <2>1. loop \in [Lives -> Loops]
      BY <1>2 DEF Init
    <2>2. Nothing \in [result : BOOLEAN, error : BOOLEAN, attempt : Nat]
      BY DEF Nothing
    <2>3. restarts \in 0 .. MaxRestarts /\ reopens \in 0 .. MaxReopens /\ strays \in 0 .. MaxStrays
      BY DEF Init
    <2>4. seen \in 0 .. Len(history) /\ answers \subseteq DOMAIN history
      BY <1>1 DEF Init
    <2>5. QED
      BY <1>1, <1>4, <2>1, <2>2, <2>3, <2>4 DEF Init, TypeOK, Loops, Events, EventTypes
  <1>6. Sound(history)
    BY <1>1 DEF Sound, TerminalIsLast, CompletedStands, EndIsResolved, Behind
  <1>7. LivesCounted /\ LoopsAreSpawned /\ LoopIsLatest /\ AttemptsAreNew
    BY <1>1, <1>3, <1>4 DEF Init, LivesCounted, LoopsAreSpawned, LoopIsLatest, AttemptsAreNew
  <1>8. AwaitIsTrue /\ AnswersStand
    BY DEF Init, AwaitIsTrue, AnswersStand
  <1>9. CancelledStays(history) /\ StoodDownIsSettled
    BY <1>1, <1>3, <1>4 DEF CancelledStays, StoodDownIsSettled
  <1>10. QED
    BY <1>5, <1>6, <1>7, <1>8, <1>9 DEF IInv, IInvUncancelled

LEMMA IInvStep == IInv /\ [Next]_vars => IInv'
  <1> SUFFICES ASSUME IInv, [Next]_vars PROVE IInv'
    OBVIOUS
  <1>1. TypeOK' /\ LivesCounted'
    BY TypeStep DEF IInv
  <1>2. Sound(history') /\ AwaitIsTrue' /\ AnswersStand'
    BY AwaitStep DEF IInv
  <1>3. LoopsOK'
    BY <1>1, LoopsStep DEF IInv, LoopsOK
  <1>4. QED
    BY <1>1, <1>2, <1>3 DEF IInv, LoopsOK

LEMMA Invariance == Spec => []IInv
  BY IInvInit, IInvStep, PTL DEF Spec

\* One terminal stands at a time, so the answers are one event.
LEMMA OneAnswer == IInv => ReplayAgrees
  <1> SUFFICES ASSUME IInv PROVE ReplayAgrees
    OBVIOUS
  <1>1. history \in Seq(Events) /\ DOMAIN history = 1 .. Len(history) /\ Len(history) \in Nat
    BY TypeFacts DEF IInv
  <1>2. \A a \in answers : a \in 1 .. Len(history) /\ Standing(history, a)
    BY <1>1 DEF IInv, TypeOK, AnswersStand
  <1>3. ASSUME NEW a \in answers, NEW b \in answers, a < b PROVE FALSE
    <2>1. b \in a + 1 .. Len(history) /\ At(history, b, Trail)
      BY <1>1, <1>2, <1>3 DEF Standing, At, Trail
    <2>2. QED
      BY <1>1, <1>2, <2>1
         DEF IInv, Sound, TerminalIsLast, has_later_activity_attempt_or_outcome
  <1>4. \A a, b \in answers : a = b
    BY <1>2, <1>3
  <1>5. CASE answers = {}
    BY <1>5, FS_EmptySet DEF ReplayAgrees
  <1>6. CASE answers # {}
    <2>1. PICK a \in answers : TRUE
      BY <1>6
    <2>2. answers = {a}
      BY <1>4, <2>1
    <2>3. QED
      BY <2>2, FS_Singleton DEF ReplayAgrees
  <1>7. QED
    BY <1>5, <1>6

(***************************************************************************)
(* However often the run is replayed between two reopens that re-drive the *)
(* activity, await_activity_step answers from one event: for any retry     *)
(* policy and any number of crashes, reopens and stray completions, and    *)
(* whatever the caller reopens.                                            *)
(***************************************************************************)
THEOREM AwaitReplays == Spec => []ReplayAgrees
  BY Invariance, OneAnswer, PTL

(***************************************************************************)
(* record_retry_event appends nothing behind a terminal of the activity,   *)
(* and no retryable failure behind the run's end, unless the run was       *)
(* reopened between: for every value of the constants.                     *)
(***************************************************************************)
THEOREM TerminalsAreLast == Spec => []NothingBehindTheTerminal
  <1>1. IInv => NothingBehindTheTerminal
    BY DEF IInv, Sound, Behind, NothingBehindTheTerminal
  <1>2. QED
    BY <1>1, Invariance, PTL

\* next_delivery_attempt and the retry loops never hand out an attempt twice,
\* whatever is reopened.
THEOREM AttemptsAreUnique == Spec => [](TypeOK /\ AttemptsAreNew)
  <1>1. IInv => TypeOK /\ AttemptsAreNew
    BY DEF IInv
  <1>2. QED
    BY <1>1, Invariance, PTL

(***************************************************************************)
(* Where cancelled runs are not reopened, a retry loop of the current life *)
(* that stands down (spawn_completion_task) leaves an event to answer from *)
(* or an ended run behind; with the types and the attempts.                *)
(***************************************************************************)
THEOREM StandDownsAreSafe ==
    ASSUME "RunCancelled" \notin Reopenable
    PROVE  Spec => []Inv
  <1>1. IInv => (StoodDownIsSettled <=> StoodDown)
    <2> SUFFICES ASSUME IInv PROVE StoodDownIsSettled <=> StoodDown
      OBVIOUS
    <2>1. resolve_activity(history) # 0 <=> Resolved(history)
      BY TypeFacts, ResolveIsStanding DEF IInv, Sound
    <2>2. QED
      BY <2>1 DEF StoodDownIsSettled, StoodDown
  <1>2. IInv /\ IInvUncancelled /\ [Next]_vars => IInvUncancelled'
    <2> SUFFICES ASSUME IInv, IInvUncancelled, [Next]_vars PROVE IInvUncancelled'
      OBVIOUS
    <2>1. IInv' /\ TypeOK'
      BY IInvStep DEF IInv
    <2>2. LoopsOK /\ StoodDown /\ CancelledStays(history)
      BY <1>1 DEF IInv, IInvUncancelled, LoopsOK
    <2>3. CancelledStays(history') /\ StoodDown'
      BY <2>1, <2>2, UncancelledStep DEF IInv
    <2>4. resolve_activity(history') # 0 <=> Resolved(history')
      <3>1. (history \in Seq(Events))'
        BY <2>1, TypeFacts DEF TypeOK, Events, EventTypes
      <3>2. QED
        BY <2>1, <3>1, ResolveIsStanding DEF IInv, Sound
    <2>5. StoodDownIsSettled'
      BY <2>3, <2>4 DEF StoodDownIsSettled, StoodDown
    <2>6. QED
      BY <2>3, <2>5 DEF IInvUncancelled
  <1>3. IInv /\ IInvUncancelled => Inv
    BY DEF IInv, IInvUncancelled, Inv
  <1>4. QED
    BY <1>2, <1>3, IInvInit, IInvStep, PTL DEF Spec
=============================================================================
