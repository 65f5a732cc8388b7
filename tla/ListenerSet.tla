---------------------------- MODULE ListenerSet -----------------------------
(***************************************************************************)
(* An event of util/async_channel/listener.rs as those who use it see it:  *)
(* a function e that gives each task its listener, "none", "waiting" or    *)
(* "notified".  EventListener shows that the linked list behind an Event   *)
(* does no more and no less; Channel is built on these operators.          *)
(***************************************************************************)

(* The listeners of P that wait. *)
Waiting(P, e) == {p \in P : e[p] = "waiting"}

(* The event after notify(usize::MAX): all listeners of P are notified.     *)
AllNotified(P, e) == [p \in DOMAIN e |-> IF p \in P /\ e[p] = "waiting" THEN "notified" ELSE e[p]]

(* What the event may be after notify(1): one listener of P is notified, if *)
(* none was.                                                                *)
OneNotified(P, e) ==
    IF Waiting(P, e) = {} \/ \E p \in P : e[p] = "notified"
    THEN {e}
    ELSE {[e EXCEPT ![p] = "notified"] : p \in Waiting(P, e)}
=============================================================================
