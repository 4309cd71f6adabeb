--------------------------- MODULE MCRunLifecycle ---------------------------
(***************************************************************************)
(* RunLifecycle for TLC.  Callers are interchangeable: no action and no    *)
(* invariant names one of them, so the safety runs check one caller order  *)
(* of each kind.                                                           *)
(***************************************************************************)
EXTENDS RunLifecycle, TLC

CallerSymmetry == Permutations(Callers)

=============================================================================
