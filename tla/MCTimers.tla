------------------------------ MODULE MCTimers ------------------------------
\* Instances of Timers for TLC.
EXTENDS Timers

\* The sleep and its scope elapse together, the deadline and the named timer later.
MCFireAt == [t \in {"named", "scope", "sleep", "deadline"} |->
               IF t \in {"scope", "sleep"} THEN 1 ELSE 2]

=============================================================================
