----------------------------- MODULE MCLifecycle -----------------------------
(* Two instances of the daemon and two nodes, the instances interchangeable. *)
EXTENDS Lifecycle, TLC

MCValues == {0, 1}
MCSymmetry == Permutations(Procs)
=============================================================================
