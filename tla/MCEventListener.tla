-------------------------- MODULE MCEventListener ---------------------------
(* EventListener for TLC: listeners, notifiers and wakers are alike.        *)
EXTENDS EventListener, TLC

Symmetry == Permutations(Listeners) \cup Permutations(Notifiers) \cup Permutations(Wakers)
=============================================================================
