---------------------------- MODULE EventListener ---------------------------
(***************************************************************************)
(* util/async_channel/listener.rs: the event that blocked senders and      *)
(* receivers of a channel listen to, a list of entries behind a lock.      *)
(*                                                                         *)
(* Whoever holds the lock is alone with the list, so that what is done     *)
(* under it is one step; it ends by publishing a copy of the counter of    *)
(* notified entries, which notify reads without the lock.  An event whose  *)
(* Inner is not allocated yet behaves as one with an empty list.           *)
(* notify_additional is left out: no code reaches it.                      *)
(***************************************************************************)
EXTENDS Naturals, Sequences, FiniteSets

CONSTANTS Listeners,    \* the EventListeners that may exist at a time
          Notifiers,    \* callers of Event::notify
          Wakers,       \* the wakers of the tasks that may poll a listener
          NoListener,   \* no entry
          NoWaker,      \* no poll yet
          All           \* usize::MAX, more than the listeners there can be

ASSUME NamesAssumption == NoListener \notin Listeners /\ NoWaker \notin Wakers
ASSUME AllAssumption == IsFiniteSet(Listeners) /\ All \in Nat /\ All > Cardinality(Listeners) + 1

VARIABLES
    list,         \* the entries, from List.head to List.tail
    start,        \* List.start
    notified,     \* List.notified
    cache_used,   \* List.cache_used
    hint,         \* Inner.notified, read without the lock
    cell,         \* where each entry is: "none", in the "cache", or in a "box"
    state,        \* the State of each entry, "none" for no entry
    waker,        \* the waker in the state Polling
    cx,           \* the waker of the latest poll
    woken,        \* the wakers called for each listener since they polled it
    call          \* where each notifier is: its place in notify(n), and n

entries == <<list, start, notified, cache_used, hint, cell>>
vars    == <<entries, state, waker, cx, woken, call>>

(* "Completed" is a listener that has heard, and has no entry any more. *)
States == {"none", "Created", "Polling", "Notified", "Completed"}

Idle == [at |-> "idle", n |-> 0]

TypeOK ==
    /\ list \in Seq(Listeners)
    /\ start \in Listeners \cup {NoListener}
    /\ notified \in 0..Cardinality(Listeners)
    /\ cache_used \in BOOLEAN
    /\ hint \in Nat
    /\ cell \in [Listeners -> {"none", "cache", "box"}]
    /\ state \in [Listeners -> States]
    /\ waker \in [Listeners -> Wakers \cup {NoWaker}]
    /\ cx \in [Listeners -> Wakers \cup {NoWaker}]
    /\ woken \in [Listeners -> SUBSET Wakers]
    /\ call \in [Notifiers -> {Idle} \cup [at : {"load", "lock"}, n : {1, All}]]

Init ==
    /\ list = <<>> /\ start = NoListener /\ notified = 0 /\ cache_used = FALSE /\ hint = All
    /\ cell = [l \in Listeners |-> "none"] /\ state = [l \in Listeners |-> "none"]
    /\ waker = [l \in Listeners |-> NoWaker] /\ cx = [l \in Listeners |-> NoWaker]
    /\ woken = [l \in Listeners |-> {}]
    /\ call = [c \in Notifiers |-> Idle]

-----------------------------------------------------------------------------
(* Where the entry of l is in the list. *)
Place(lst, l) == CHOOSE i \in 1..Len(lst) : lst[i] = l

(* The first unnotified entry and those behind it. *)
From(lst, l) == IF l = NoListener THEN <<>> ELSE SubSeq(lst, Place(lst, l), Len(lst))

First(lst) == IF lst = <<>> THEN NoListener ELSE Head(lst)

(* The copy of the counter that a guard of the lock publishes. *)
Published(count, len) == IF count < len THEN count ELSE All

(* List::notify(n) on the entries of lst, of which those from first on are  *)
(* unnotified and count are not, in the states st; then the lock is given   *)
(* up.  Nothing is done for n = 0.                                          *)
NotifyList(n, lst, first, count, st) ==
    LET ahead == From(lst, first)
        reach == IF n <= count THEN 0
                 ELSE IF n - count < Len(ahead) THEN n - count ELSE Len(ahead)
        hit   == {ahead[i] : i \in 1..reach}
    IN  /\ list' = lst
        /\ start' = First(SubSeq(ahead, reach + 1, Len(ahead)))
        /\ notified' = count + reach
        /\ hint' = Published(count + reach, Len(lst))
        /\ state' = [l \in Listeners |-> IF l \in hit THEN "Notified" ELSE st[l]]
        /\ woken' = [l \in Listeners |->
                        IF l \in hit /\ st[l] = "Polling" THEN woken[l] \cup {waker[l]} ELSE woken[l]]

-----------------------------------------------------------------------------
(* Mutant: the cached entry is not marked as used.                          *)
ListenCacheFree(l) ==
    /\ state[l] = "none"
    /\ cell' = [cell EXCEPT ![l] = IF cache_used THEN "box" ELSE "cache"]
    /\ NotifyList(0, Append(list, l), IF start = NoListener THEN l ELSE start, notified,
                  [state EXCEPT ![l] = "Created"])
    /\ UNCHANGED <<cache_used, waker, cx, call>>

(* Event::listen, with List::insert.                                        *)
Listen(l) ==
    /\ state[l] = "none"
    /\ cell' = [cell EXCEPT ![l] = IF cache_used THEN "box" ELSE "cache"]
    /\ cache_used' = TRUE
    /\ NotifyList(0, Append(list, l), IF start = NoListener THEN l ELSE start, notified,
                  [state EXCEPT ![l] = "Created"])
    /\ UNCHANGED <<waker, cx, call>>

(* Mutant of List::remove: the pointer to the first unnotified entry is     *)
(* lost with it.                                                            *)
StartLost(l) == IF start = l THEN NoListener ELSE start

(* The list once the entries around that of l are linked to each other. *)
Unlinked(lst, l) ==
    SubSeq(lst, 1, Place(lst, l) - 1) \o SubSeq(lst, Place(lst, l) + 1, Len(lst))

(* The pointer and the counter without the entry of l. *)
StartWithout(l) ==
    IF start = l THEN First(Tail(From(list, l))) ELSE start

CountWithout(l) == IF state[l] = "Notified" THEN notified - 1 ELSE notified

(* List::remove, then List::notify(n) under the same lock. *)
Remove(l, n, after) ==
    /\ cell' = [cell EXCEPT ![l] = "none"]
    /\ cache_used' = (cache_used /\ cell[l] # "cache")
    /\ NotifyList(n, Unlinked(list, l), StartWithout(l), CountWithout(l),
                  [state EXCEPT ![l] = after])
    /\ waker' = [waker EXCEPT ![l] = NoWaker] /\ cx' = [cx EXCEPT ![l] = NoWaker]
    /\ UNCHANGED call

(* EventListener::poll of a notified entry: the listener has completed.     *)
PollReady(l) == state[l] = "Notified" /\ Remove(l, 0, "Completed")

(* Mutant: the waker of the first poll is kept.                             *)
PollPendingFirst(l, w) ==
    /\ state[l] \in {"Created", "Polling"}
    /\ state' = [state EXCEPT ![l] = "Polling"]
    /\ waker' = IF state[l] = "Created" THEN [waker EXCEPT ![l] = w] ELSE waker
    /\ cx' = [cx EXCEPT ![l] = w]
    /\ woken' = [woken EXCEPT ![l] = @ \ {w}]
    /\ UNCHANGED <<entries, call>>

(* A poll of any other: the entry keeps the waker w.                        *)
PollPending(l, w) ==
    /\ state[l] \in {"Created", "Polling"}
    /\ state' = [state EXCEPT ![l] = "Polling"]
    /\ waker' = [waker EXCEPT ![l] = w]
    /\ cx' = [cx EXCEPT ![l] = w]
    /\ woken' = [woken EXCEPT ![l] = @ \ {w}]
    /\ UNCHANGED <<entries, call>>

(* Mutant: a notification goes with the listener that did not hear it.      *)
DropSilent(l) == state[l] \in {"Created", "Polling", "Notified"} /\ Remove(l, 0, "none")

(* Drop of a listener that has not completed: it passes its notification on.*)
Drop(l) == /\ state[l] \in {"Created", "Polling", "Notified"}
           /\ Remove(l, IF state[l] = "Notified" THEN 1 ELSE 0, "none")

DropCompleted(l) ==
    /\ state[l] = "Completed"
    /\ state' = [state EXCEPT ![l] = "none"]
    /\ UNCHANGED <<entries, waker, cx, woken, call>>

-----------------------------------------------------------------------------
(* Event::notify(n): a look at the published counter, then the lock.        *)
NotifyStart(c, n) ==
    /\ call[c] = Idle
    /\ call' = [call EXCEPT ![c] = [at |-> "load", n |-> n]]
    /\ UNCHANGED <<entries, state, waker, cx, woken>>

NotifyLoad(c) ==
    /\ call[c].at = "load"
    /\ call' = [call EXCEPT ![c] = IF hint < @.n THEN [@ EXCEPT !.at = "lock"] ELSE Idle]
    /\ UNCHANGED <<entries, state, waker, cx, woken>>

NotifyLocked(c) ==
    /\ call[c].at = "lock"
    /\ NotifyList(call[c].n, list, start, notified, state)
    /\ call' = [call EXCEPT ![c] = Idle]
    /\ UNCHANGED <<cache_used, cell, waker, cx>>

-----------------------------------------------------------------------------
Next ==
    \/ \E l \in Listeners : \/ Listen(l) \/ PollReady(l) \/ Drop(l) \/ DropCompleted(l)
                            \/ \E w \in Wakers : PollPending(l, w)
    \/ \E c \in Notifiers : \/ NotifyLoad(c) \/ NotifyLocked(c)
                            \/ \E n \in {1, All} : NotifyStart(c, n)

Spec == Init /\ [][Next]_vars

-----------------------------------------------------------------------------
(* The list is in order: the notified entries come first, start points to   *)
(* the first of the others, and the counter counts them, whatever is        *)
(* removed from anywhere in the list.                                       *)
NotifiedFirst ==
    /\ notified <= Len(list)
    /\ \A i \in 1..Len(list) : state[list[i]] = "Notified" <=> i <= notified
    /\ start = First(SubSeq(list, notified + 1, Len(list)))
    /\ \A l \in Listeners : state[l] \in {"Created", "Polling", "Notified"} <=> \E i \in 1..Len(list) : list[i] = l

(* Two listeners never share the entry that is part of the event: the       *)
(* unsafe write in List::insert overwrites no live entry.                   *)
CacheUnshared == \A k, l \in Listeners : cell[k] = "cache" /\ cell[l] = "cache" => k = l

(* A listener that returned Pending and is notified since has had the waker *)
(* of its latest poll called, even if a task other than its first polls it. *)
LatestWakerCalled ==
    \A l \in Listeners : state[l] = "Notified" /\ cx[l] # NoWaker => cx[l] \in woken[l]

(* What the listeners and the notifiers of the promise are here. *)
Ears  == [l \in Listeners |-> CASE state[l] = "none" -> "none"
                                [] state[l] = "Notified" -> "notified"
                                [] state[l] = "Completed" -> "heard"
                                [] OTHER -> "waiting"]
Calls == [c \in Notifiers |-> IF call[c] = Idle THEN "idle"
                              ELSE IF call[c].n = All THEN "all" ELSE "one"]

(* The list and the counter read without its lock lose no notification:     *)
(* the event does what Channel takes it to do.                              *)
Promise == INSTANCE EventPromise WITH ear <- Ears, call <- Calls

(* Every use of the list keeps the promise of an event.                     *)
PromiseKept == Promise!Spec
=============================================================================
