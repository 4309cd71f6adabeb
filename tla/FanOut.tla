------------------------------- MODULE FanOut -------------------------------
(***************************************************************************)
(* What a fan-out await promises workflow code, without processes, mailbox *)
(* markers, snapshots, redeliveries or crashes: every member is resolved   *)
(* once and for good, and once all of them are, one result is handed out,  *)
(* the one the record determines (the promise in the head of               *)
(* crates/aion/src/runtime/nif_collect.rs).  Module Collect implements it. *)
(***************************************************************************)
EXTENDS Integers

CONSTANTS
    Members,   \* the members of the fan-out, numbered in collect order
    Kind,      \* "All" or "Race"
    Results    \* the results workflow code can be handed

VARIABLES
    record,    \* per member: "Pending" or the terminal it was resolved with
    result     \* the set of results handed out: empty, or one result

vars == <<record, result>>

Resolutions == {"Completed", "Failed", "Cancelled"}

Resolved == \A m \in Members : record[m] # "Pending"

\* Every member but m was cancelled.
AloneIn(m) == \A n \in Members \ {m} : record[n] = "Cancelled"

(***************************************************************************)
(* An all-collect reports its first failure in member order, else that all *)
(* completed, else that its scope expired.  A race reports the one member  *)
(* that was not cancelled.                                                 *)
(***************************************************************************)
Justified(r) ==
    \/ /\ Kind = "All"
       /\ r.step = "AllCompleted"
       /\ \A m \in Members : record[m] = "Completed"
    \/ /\ Kind = "All"
       /\ r.step = "FailFast"
       /\ r.winner \in Members
       /\ record[r.winner] = "Failed"
       /\ \A m \in Members : m < r.winner => record[m] # "Failed"
    \/ /\ Kind = "Race"
       /\ r.step = "RaceWon"
       /\ r.winner \in Members
       /\ record[r.winner] = r.kind
       /\ r.kind # "Cancelled"
       /\ AloneIn(r.winner)
    \/ /\ Kind = "All"
       /\ r.step = "ScopeExpired"
       /\ \A m \in Members : record[m] # "Failed"
       /\ \E m \in Members : record[m] = "Cancelled"
    \/ /\ Kind = "Race"
       /\ r.step = "ScopeExpired"
       /\ \A m \in Members : record[m] = "Cancelled"

Init ==
    /\ record = [m \in Members |-> "Pending"]
    /\ result = {}

Resolve(m, how) ==
    /\ record[m] = "Pending"
    /\ record' = [record EXCEPT ![m] = how]
    /\ UNCHANGED result

HandOut(r) ==
    /\ result = {}
    /\ Resolved
    /\ Justified(r)
    /\ result' = {r}
    /\ UNCHANGED record

Next ==
    \/ \E m \in Members, how \in Resolutions : Resolve(m, how)
    \/ \E r \in Results : HandOut(r)

Spec == Init /\ [][Next]_vars

=============================================================================
