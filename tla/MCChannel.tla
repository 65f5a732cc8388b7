----------------------------- MODULE MCChannel ------------------------------
(* Channel for TLC: senders are interchangeable, and so are receivers.      *)
EXTENDS Channel, TLC

Symmetry == Permutations(Senders) \cup Permutations(Receivers)
=============================================================================
