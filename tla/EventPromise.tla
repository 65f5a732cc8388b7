---------------------------- MODULE EventPromise ----------------------------
(***************************************************************************)
(* What an event promises to those who listen and to those who notify.  A  *)
(* call of notify takes effect at one moment between its start and its     *)
(* return: at that moment it leaves nobody waiting (notify(usize::MAX)),   *)
(* or leaves somebody notified if anybody listens (notify(1)).  A          *)
(* notification is never lost: a listener that goes without having heard   *)
(* its own hands it on.                                                    *)
(***************************************************************************)
EXTENDS ListenerSet

CONSTANTS Listeners, Notifiers

VARIABLES ear,      \* each listener: "none", "waiting", "notified" or "heard"
          call      \* each notifier: "idle", or the call it is in, "one" or "all"

vars == <<ear, call>>

Init == /\ ear = [l \in Listeners |-> "none"]
        /\ call = [c \in Notifiers |-> "idle"]

Listen(l) == ear[l] = "none" /\ ear' = [ear EXCEPT ![l] = "waiting"] /\ UNCHANGED call

Hear(l) == ear[l] = "notified" /\ ear' = [ear EXCEPT ![l] = "heard"] /\ UNCHANGED call

Leave(l) ==
    /\ ear[l] # "none"
    /\ LET rest == [k \in Listeners |-> IF k = l THEN "none" ELSE ear[k]] IN
       ear' \in IF ear[l] = "notified" THEN OneNotified(Listeners, rest) ELSE {rest}
    /\ UNCHANGED call

Call(c, how) == call[c] = "idle" /\ call' = [call EXCEPT ![c] = how] /\ UNCHANGED ear

Notify(c) ==
    /\ \/ call[c] = "one" /\ ear' \in OneNotified(Listeners, ear)
       \/ call[c] = "all" /\ ear' = AllNotified(Listeners, ear)
    /\ call' = [call EXCEPT ![c] = "idle"]

Next == \/ \E l \in Listeners : Listen(l) \/ Hear(l) \/ Leave(l)
        \/ \E c \in Notifiers : Notify(c) \/ Call(c, "one") \/ Call(c, "all")

Spec == Init /\ [][Next]_vars
=============================================================================
