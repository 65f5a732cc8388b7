------------------------------ MODULE FifoQueue -------------------------------
(***************************************************************************)
(* What the mailbox channel expects of its queue: calls of any number of   *)
(* threads take effect one at a time, values leave in the order in which   *)
(* they entered, and a closed queue takes no more values but hands out     *)
(* those it has.  Unbounded implements it.                                 *)
(***************************************************************************)
EXTENDS Sequences

CONSTANTS
    Threads,    \* callers of push, pop and close
    Values      \* what may be pushed

VARIABLES
    items,      \* the values in the queue, oldest first
    closed,     \* whether the queue is closed
    result      \* the outcome of each thread's last call

vars == <<items, closed, result>>

NoResult  == [is |-> "none"]
Pushed    == [is |-> "pushed"]
Refused   == [is |-> "refused"]
Empty     == [is |-> "empty"]
Closed    == [is |-> "closed"]
Got(v)    == [is |-> "got", val |-> v]

Init == items = <<>> /\ closed = FALSE /\ result = [t \in Threads |-> NoResult]

Returns(t, r) == result' = [result EXCEPT ![t] = r]

Push(t) ==
    \/ /\ closed
       /\ Returns(t, Refused)
       /\ UNCHANGED <<items, closed>>
    \/ /\ ~closed
       /\ \E v \in Values : items' = Append(items, v)
       /\ Returns(t, Pushed)
       /\ UNCHANGED closed

Pop(t) ==
    \/ /\ items # <<>>
       /\ Returns(t, Got(Head(items)))
       /\ items' = Tail(items)
       /\ UNCHANGED closed
    \/ /\ items = <<>>
       /\ Returns(t, IF closed THEN Closed ELSE Empty)
       /\ UNCHANGED <<items, closed>>

Close ==
    /\ closed' = TRUE
    /\ UNCHANGED <<items, result>>

Next == Close \/ \E t \in Threads : Push(t) \/ Pop(t)

Spec == Init /\ [][Next]_vars
=============================================================================
