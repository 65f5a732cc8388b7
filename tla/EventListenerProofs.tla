------------------------- MODULE EventListenerProofs ------------------------
(***************************************************************************)
(* Proofs about EventListener, whatever the number of listeners, wakers    *)
(* and notifiers.  First what does not depend on the order of the list:    *)
(* the cached entry is never shared and the latest waker is the one that   *)
(* is called.  Then the list: its notified entries come first, whichever   *)
(* entry is removed, and by that the event keeps its promise.              *)
(***************************************************************************)
EXTENDS EventListener, FiniteSetTheorems, SequenceTheorems, TLAPS

(* The types of the functions the two invariants are about. *)
Typed ==
    /\ cache_used \in BOOLEAN
    /\ cell \in [Listeners -> {"none", "cache", "box"}]
    /\ state \in [Listeners -> States]
    /\ waker \in [Listeners -> Wakers \cup {NoWaker}]
    /\ cx \in [Listeners -> Wakers \cup {NoWaker}]
    /\ woken \in [Listeners -> SUBSET Wakers]

(* An entry in the cache marks it as used, and there is one at most. *)
CacheInv == (\E l \in Listeners : cell[l] = "cache") => cache_used

(* A listener that was polled has an entry that keeps the waker of its      *)
(* latest poll, until it is notified: then that waker was called.           *)
WakerInv ==
    \A l \in Listeners :
        /\ state[l] \in {"none", "Created", "Completed"} => cx[l] = NoWaker
        /\ state[l] = "Polling" => cx[l] = waker[l] /\ cx[l] # NoWaker
        /\ state[l] = "Notified" /\ cx[l] # NoWaker => cx[l] \in woken[l]

ListenerInv == Typed /\ CacheInv /\ CacheUnshared /\ WakerInv

-----------------------------------------------------------------------------
(* What List::notify does to an entry, apart from its place: it leaves it,  *)
(* or notifies it and calls its waker if it has been polled.                *)
LEMMA Notifying ==
    ASSUME NEW n, NEW lst, NEW first, NEW count, NEW st \in [Listeners -> States],
           Typed, \A l \in Listeners : st[l] = "Polling" => waker[l] \in Wakers,
           NotifyList(n, lst, first, count, st)
    PROVE  /\ state' \in [Listeners -> States]
           /\ woken' \in [Listeners -> SUBSET Wakers]
           /\ \A l \in Listeners :
                 \/ state'[l] = st[l] /\ woken'[l] = woken[l]
                 \/ /\ state'[l] = "Notified"
                    /\ woken'[l] = IF st[l] = "Polling" THEN woken[l] \cup {waker[l]} ELSE woken[l]
  <1> DEFINE ahead == From(lst, first)
             reach == IF n <= count THEN 0
                      ELSE IF n - count < Len(ahead) THEN n - count ELSE Len(ahead)
             hit   == {ahead[i] : i \in 1..reach}
  <1>1. /\ state' = [l \in Listeners |-> IF l \in hit THEN "Notified" ELSE st[l]]
        /\ woken' = [l \in Listeners |->
                        IF l \in hit /\ st[l] = "Polling" THEN woken[l] \cup {waker[l]} ELSE woken[l]]
    BY DEF NotifyList
  <1> HIDE DEF hit
  <1> QED
    BY <1>1 DEF Typed, States

(* The invariant on the entry that a step leaves to List::notify.           *)
LEMMA Settling ==
    ASSUME ListenerInv, NEW st \in [Listeners -> States],
           state' \in [Listeners -> States],
           \A l \in Listeners :
              \/ state'[l] = st[l] /\ woken'[l] = woken[l]
              \/ /\ state'[l] = "Notified"
                 /\ woken'[l] = IF st[l] = "Polling" THEN woken[l] \cup {waker[l]} ELSE woken[l],
           NEW k \in Listeners, st[k] \in {"none", "Created", "Completed"}, cx'[k] = NoWaker,
           \A l \in Listeners \ {k} : st[l] = state[l] /\ cx'[l] = cx[l] /\ waker'[l] = waker[l]
    PROVE  WakerInv'
  <1> SUFFICES ASSUME NEW l \in Listeners
               PROVE  /\ state'[l] \in {"none", "Created", "Completed"} => cx'[l] = NoWaker
                      /\ state'[l] = "Polling" => cx'[l] = waker'[l] /\ cx'[l] # NoWaker
                      /\ state'[l] = "Notified" /\ cx'[l] # NoWaker => cx'[l] \in woken'[l]
    BY DEF WakerInv
  <1>1. CASE l = k
    BY <1>1 DEF States
  <1>2. CASE l # k
    <2>1. /\ st[l] = state[l] /\ cx'[l] = cx[l] /\ waker'[l] = waker[l]
          /\ state[l] \in States
      BY <1>2 DEF ListenerInv, Typed
    <2>2. /\ state[l] \in {"none", "Created", "Completed"} => cx[l] = NoWaker
          /\ state[l] = "Polling" => cx[l] = waker[l] /\ cx[l] # NoWaker
          /\ state[l] = "Notified" /\ cx[l] # NoWaker => cx[l] \in woken[l]
      BY DEF ListenerInv, WakerInv
    <2>3. CASE state'[l] = st[l] /\ woken'[l] = woken[l]
      BY <2>1, <2>2, <2>3
    <2>4. CASE /\ state'[l] = "Notified"
               /\ woken'[l] = IF st[l] = "Polling" THEN woken[l] \cup {waker[l]} ELSE woken[l]
      BY <2>1, <2>2, <2>4 DEF States
    <2> QED
      BY <2>3, <2>4
  <1> QED
    BY <1>1, <1>2

LEMMA PollingWakers == ListenerInv => \A l \in Listeners : state[l] = "Polling" => waker[l] \in Wakers
  BY DEF ListenerInv, Typed, WakerInv

-----------------------------------------------------------------------------
LEMMA ListenKeeps ==
    ASSUME ListenerInv, NEW l \in Listeners, Listen(l)
    PROVE  ListenerInv'
  <1> DEFINE st == [state EXCEPT ![l] = "Created"]
  <1>1. /\ st \in [Listeners -> States] /\ st[l] = "Created"
        /\ \A k \in Listeners \ {l} : st[k] = state[k]
    BY DEF ListenerInv, Typed, States
  <1>2. \A k \in Listeners : st[k] = "Polling" => waker[k] \in Wakers
    BY <1>1, PollingWakers
  <1>3. NotifyList(0, Append(list, l), IF start = NoListener THEN l ELSE start, notified, st)
    BY DEF Listen
  <1> HIDE DEF st
  <1>4. /\ state' \in [Listeners -> States]
        /\ woken' \in [Listeners -> SUBSET Wakers]
        /\ \A k \in Listeners :
              \/ state'[k] = st[k] /\ woken'[k] = woken[k]
              \/ /\ state'[k] = "Notified"
                 /\ woken'[k] = IF st[k] = "Polling" THEN woken[k] \cup {waker[k]} ELSE woken[k]
    BY <1>1, <1>2, <1>3, Notifying DEF ListenerInv
  <1>5. WakerInv'
    BY <1>1, <1>4, Settling DEF Listen, ListenerInv, WakerInv
  <1>6. Typed' /\ CacheInv' /\ CacheUnshared'
    BY <1>4 DEF Listen, ListenerInv, Typed, CacheInv, CacheUnshared
  <1> QED
    BY <1>5, <1>6 DEF ListenerInv

LEMMA RemoveKeeps ==
    ASSUME ListenerInv, NEW l \in Listeners, NEW n, NEW after \in {"none", "Completed"},
           Remove(l, n, after)
    PROVE  ListenerInv'
  <1> DEFINE st == [state EXCEPT ![l] = after]
  <1>1. /\ st \in [Listeners -> States] /\ st[l] = after
        /\ \A k \in Listeners \ {l} : st[k] = state[k]
    BY DEF ListenerInv, Typed, States
  <1>2. \A k \in Listeners : st[k] = "Polling" => waker[k] \in Wakers
    BY <1>1, PollingWakers
  <1>3. \E lst : NotifyList(n, lst, StartWithout(l), CountWithout(l), st)
    BY DEF Remove
  <1> HIDE DEF st
  <1>4. /\ state' \in [Listeners -> States]
        /\ woken' \in [Listeners -> SUBSET Wakers]
        /\ \A k \in Listeners :
              \/ state'[k] = st[k] /\ woken'[k] = woken[k]
              \/ /\ state'[k] = "Notified"
                 /\ woken'[k] = IF st[k] = "Polling" THEN woken[k] \cup {waker[k]} ELSE woken[k]
    <2>1. PICK lst : NotifyList(n, lst, StartWithout(l), CountWithout(l), st)
      BY <1>3
    <2> QED
      BY <1>1, <1>2, <2>1, Notifying DEF ListenerInv
  <1>5. /\ cx'[l] = NoWaker
        /\ \A k \in Listeners \ {l} : cx'[k] = cx[k] /\ waker'[k] = waker[k]
    BY DEF Remove, ListenerInv, Typed
  <1>6. WakerInv'
    BY <1>1, <1>4, <1>5, Settling
  <1>7. Typed' /\ CacheInv' /\ CacheUnshared'
    BY <1>4 DEF Remove, ListenerInv, Typed, CacheInv, CacheUnshared
  <1> QED
    BY <1>6, <1>7 DEF ListenerInv

LEMMA PollKeeps ==
    ASSUME ListenerInv, NEW l \in Listeners, NEW w \in Wakers, PollPending(l, w)
    PROVE  ListenerInv'
  <1> USE NamesAssumption
  <1>1. Typed' /\ CacheInv' /\ CacheUnshared'
    BY DEF PollPending, ListenerInv, Typed, CacheInv, CacheUnshared, States, entries
  <1>2. WakerInv'
    BY DEF PollPending, ListenerInv, Typed, WakerInv
  <1> QED
    BY <1>1, <1>2 DEF ListenerInv

LEMMA DropCompletedKeeps ==
    ASSUME ListenerInv, NEW l \in Listeners, DropCompleted(l)
    PROVE  ListenerInv'
  <1>1. Typed' /\ CacheInv' /\ CacheUnshared'
    BY DEF DropCompleted, ListenerInv, Typed, CacheInv, CacheUnshared, States, entries
  <1>2. WakerInv'
    BY DEF DropCompleted, ListenerInv, Typed, WakerInv
  <1> QED
    BY <1>1, <1>2 DEF ListenerInv

LEMMA NotifyKeeps ==
    ASSUME ListenerInv, NEW c \in Notifiers, NotifyLocked(c)
    PROVE  ListenerInv'
  <1>1. NotifyList(call[c].n, list, start, notified, state)
    BY DEF NotifyLocked
  <1>2. state \in [Listeners -> States]
    BY DEF ListenerInv, Typed
  <1>3. /\ state' \in [Listeners -> States]
        /\ woken' \in [Listeners -> SUBSET Wakers]
        /\ \A l \in Listeners :
              \/ state'[l] = state[l] /\ woken'[l] = woken[l]
              \/ /\ state'[l] = "Notified"
                 /\ woken'[l] = IF state[l] = "Polling" THEN woken[l] \cup {waker[l]} ELSE woken[l]
    BY <1>1, <1>2, PollingWakers, Notifying DEF ListenerInv
  <1>4. WakerInv'
    BY <1>2, <1>3 DEF NotifyLocked, ListenerInv, WakerInv, States
  <1>5. Typed' /\ CacheInv' /\ CacheUnshared'
    BY <1>3 DEF NotifyLocked, ListenerInv, Typed, CacheInv, CacheUnshared
  <1> QED
    BY <1>4, <1>5 DEF ListenerInv

LEMMA ListenerInvariance == Spec => []ListenerInv
  <1>1. Init => ListenerInv
    BY DEF Init, ListenerInv, Typed, CacheInv, CacheUnshared, WakerInv, States
  <1>2. ListenerInv /\ [Next]_vars => ListenerInv'
    <2> SUFFICES ASSUME ListenerInv, [Next]_vars PROVE ListenerInv'
      OBVIOUS
    <2>1. ASSUME NEW l \in Listeners, Listen(l) \/ PollReady(l) \/ Drop(l) \/ DropCompleted(l)
          PROVE  ListenerInv'
      BY <2>1, ListenKeeps, RemoveKeeps, DropCompletedKeeps DEF PollReady, Drop
    <2>2. ASSUME NEW l \in Listeners, NEW w \in Wakers, PollPending(l, w)
          PROVE  ListenerInv'
      BY <2>2, PollKeeps
    <2>3. ASSUME NEW c \in Notifiers, NotifyLocked(c)
          PROVE  ListenerInv'
      BY <2>3, NotifyKeeps
    <2>4. CASE UNCHANGED <<cell, cache_used, state, waker, cx, woken>>
      BY <2>4 DEF ListenerInv, Typed, CacheInv, CacheUnshared, WakerInv
    <2>5. ASSUME NEW c \in Notifiers, NEW n \in {1, All}, NotifyStart(c, n) \/ NotifyLoad(c)
          PROVE  UNCHANGED <<cell, cache_used, state, waker, cx, woken>>
      BY <2>5 DEF NotifyStart, NotifyLoad, entries
    <2> QED
      BY <2>1, <2>2, <2>3, <2>4, <2>5 DEF Next, vars, entries
  <1> QED
    BY <1>1, <1>2, PTL DEF Spec

(* The entry that is part of the event belongs to one listener at a time:   *)
(* List::insert never overwrites a live one.                                *)
THEOREM CacheOwnedOnce == Spec => []CacheUnshared
  <1>1. ListenerInv => CacheUnshared
    BY DEF ListenerInv
  <1> QED
    BY <1>1, ListenerInvariance, PTL

(* A notified listener that had returned Pending had the waker of its       *)
(* latest poll called.                                                      *)
THEOREM LatestPollWoken == Spec => []LatestWakerCalled
  <1>1. ListenerInv => LatestWakerCalled
    BY DEF ListenerInv, WakerInv, LatestWakerCalled
  <1> QED
    BY <1>1, ListenerInvariance, PTL
-----------------------------------------------------------------------------
(* The list lst is in order in the states st: nobody is in it twice, the    *)
(* first count of its entries are notified, first is the one behind them,   *)
(* and it holds those who listen.                                           *)
Listening == {"Created", "Polling", "Notified"}

Linked(lst, st, first, count) ==
    /\ lst \in Seq(Listeners)
    /\ \A i, j \in 1..Len(lst) : lst[i] = lst[j] => i = j
    /\ count \in 0..Len(lst)
    /\ \A i \in 1..Len(lst) : st[lst[i]] = "Notified" <=> i <= count
    /\ first = IF count < Len(lst) THEN lst[count + 1] ELSE NoListener
    /\ \A l \in Listeners : st[l] \in Listening <=> \E i \in 1..Len(lst) : lst[i] = l

(* What notify(n) leaves of a counter, in a list of len entries. *)
Raised(n, count, len) == IF n <= count THEN count ELSE IF n < len THEN n ELSE len

LEMMA FirstOf ==
    ASSUME NEW lst \in Seq(Listeners), NEW k \in 0..Len(lst)
    PROVE  First(SubSeq(lst, k + 1, Len(lst))) = IF k < Len(lst) THEN lst[k + 1] ELSE NoListener
  <1>1. CASE k < Len(lst)
    <2>1. k + 1 \in 1..Len(lst) /\ Len(lst) \in (k + 1)..Len(lst)
      BY <1>1
    <2>2. Head(SubSeq(lst, k + 1, Len(lst))) = lst[k + 1]
      BY <2>1, HeadTailOfSubSeq
    <2>3. SubSeq(lst, k + 1, Len(lst)) # <<>>
      <3>1. \A i \in (k + 1)..Len(lst) : lst[i] \in Listeners
        OBVIOUS
      <3>2. Len(SubSeq(lst, k + 1, Len(lst))) = IF k + 1 <= Len(lst) THEN Len(lst) - (k + 1) + 1 ELSE 0
        BY <3>1, SubSeqProperties
      <3>3. Len(SubSeq(lst, k + 1, Len(lst))) # 0
        BY <1>1, <3>2
      <3> QED
        BY <3>3, EmptySeq
    <2> QED
      BY <1>1, <2>2, <2>3 DEF First
  <1>2. CASE k = Len(lst)
    BY <1>2, SubSeqEmpty DEF First
  <1> QED
    BY <1>1, <1>2

LEMMA PlaceOf ==
    ASSUME NEW lst \in Seq(Listeners), \A i, j \in 1..Len(lst) : lst[i] = lst[j] => i = j,
           NEW k \in 1..Len(lst)
    PROVE  Place(lst, lst[k]) = k
  BY DEF Place

(* The entries from the first unnotified one on. *)
LEMMA FromFirst ==
    ASSUME NEW lst, NEW st, NEW first, NEW count, Linked(lst, st, first, count)
    PROVE  /\ From(lst, first) \in Seq(Listeners)
           /\ Len(From(lst, first)) = Len(lst) - count
           /\ \A i \in 1..(Len(lst) - count) : From(lst, first)[i] = lst[count + i]
           /\ From(lst, first) = SubSeq(lst, count + 1, Len(lst))
  <1>1. /\ lst \in Seq(Listeners) /\ count \in 0..Len(lst)
        /\ \A i, j \in 1..Len(lst) : lst[i] = lst[j] => i = j
        /\ first = IF count < Len(lst) THEN lst[count + 1] ELSE NoListener
    BY DEF Linked
  <1>2. From(lst, first) = SubSeq(lst, count + 1, Len(lst))
    <2>1. CASE count < Len(lst)
      <3>1. count + 1 \in 1..Len(lst) /\ first = lst[count + 1] /\ first \in Listeners
        BY <1>1, <2>1
      <3>2. Place(lst, first) = count + 1
        BY <1>1, <3>1, PlaceOf
      <3> QED
        BY <3>1, <3>2, NamesAssumption DEF From
    <2>2. CASE count = Len(lst)
      BY <1>1, <2>2, SubSeqEmpty DEF From
    <2> QED
      BY <1>1, <2>1, <2>2
  <1>3. \A i \in (count + 1)..Len(lst) : lst[i] \in Listeners
    BY <1>1
  <1>4. /\ SubSeq(lst, count + 1, Len(lst)) \in Seq(Listeners)
        /\ Len(SubSeq(lst, count + 1, Len(lst))) =
              IF count + 1 <= Len(lst) THEN Len(lst) - (count + 1) + 1 ELSE 0
        /\ \A i \in 1..(Len(lst) - (count + 1) + 1) :
              SubSeq(lst, count + 1, Len(lst))[i] = lst[(count + 1) + i - 1]
    BY <1>1, <1>3, SubSeqProperties
  <1> DEFINE rest == SubSeq(lst, count + 1, Len(lst))
  <1>5. /\ rest \in Seq(Listeners)
        /\ Len(rest) = IF count + 1 <= Len(lst) THEN Len(lst) - (count + 1) + 1 ELSE 0
        /\ \A i \in 1..(Len(lst) - (count + 1) + 1) : rest[i] = lst[(count + 1) + i - 1]
    BY <1>4
  <1>6. From(lst, first) = rest
    BY <1>2
  <1> HIDE DEF rest
  <1>7. Len(rest) = Len(lst) - count
    BY <1>1, <1>5
  <1>8. ASSUME NEW i \in 1..(Len(lst) - count) PROVE rest[i] = lst[count + i]
    BY <1>1, <1>5
  <1> QED
    BY <1>2, <1>5, <1>6, <1>7, <1>8

(* List::notify(n) on a list in order: the counter rises to n or to the     *)
(* length, the entries it passes are notified, and nothing else changes.    *)
LEMMA NotifyInOrder ==
    ASSUME NEW lst, NEW st, NEW first, NEW count, NEW n \in Nat, Linked(lst, st, first, count),
           NotifyList(n, lst, first, count, st)
    PROVE  /\ list' = lst
           /\ notified' = Raised(n, count, Len(lst))
           /\ notified' \in count..Len(lst)
           /\ start' = IF notified' < Len(lst) THEN lst[notified' + 1] ELSE NoListener
           /\ hint' = Published(notified', Len(list'))
           /\ state' = [l \in Listeners |->
                  IF \E i \in (count + 1)..notified' : lst[i] = l THEN "Notified" ELSE st[l]]
  <1> DEFINE ahead == From(lst, first)
             reach == IF n <= count THEN 0
                      ELSE IF n - count < Len(ahead) THEN n - count ELSE Len(ahead)
             hit   == {ahead[i] : i \in 1..reach}
  <1>1. /\ list' = lst
        /\ start' = First(SubSeq(ahead, reach + 1, Len(ahead)))
        /\ notified' = count + reach
        /\ hint' = Published(count + reach, Len(lst))
        /\ state' = [l \in Listeners |-> IF l \in hit THEN "Notified" ELSE st[l]]
    BY DEF NotifyList
  <1>2. /\ lst \in Seq(Listeners) /\ count \in 0..Len(lst) /\ Len(lst) \in Nat
    BY DEF Linked
  <1>3. /\ ahead \in Seq(Listeners) /\ Len(ahead) = Len(lst) - count
        /\ \A i \in 1..(Len(lst) - count) : ahead[i] = lst[count + i]
    BY FromFirst
  <1> HIDE DEF ahead
  <1>4. /\ reach \in 0..Len(ahead) /\ count + reach = Raised(n, count, Len(lst))
        /\ count + reach \in count..Len(lst)
    BY <1>2, <1>3 DEF Raised
  <1> HIDE DEF reach
  <1>5. First(SubSeq(ahead, reach + 1, Len(ahead))) =
           IF reach < Len(ahead) THEN ahead[reach + 1] ELSE NoListener
    BY <1>3, <1>4, FirstOf
  <1>6. ASSUME reach < Len(ahead)
        PROVE  ahead[reach + 1] = lst[count + reach + 1]
    <2>1. reach + 1 \in 1..(Len(lst) - count)
      BY <1>2, <1>3, <1>4, <1>6
    <2> QED
      BY <1>2, <1>3, <1>4, <2>1
  <1>7. hit = {lst[i] : i \in (count + 1)..(count + reach)}
    <2>1. ASSUME NEW i \in 1..reach PROVE ahead[i] \in {lst[j] : j \in (count + 1)..(count + reach)}
      <3>1. /\ i \in 1..(Len(lst) - count) /\ count + i \in (count + 1)..(count + reach)
        BY <1>2, <1>3, <1>4
      <3> QED
        BY <1>3, <3>1
    <2>2. ASSUME NEW j \in (count + 1)..(count + reach) PROVE lst[j] \in hit
      <3>1. /\ j - count \in 1..(Len(lst) - count) /\ j - count \in 1..reach
            /\ count + (j - count) = j
        BY <1>2, <1>3, <1>4
      <3>2. ahead[j - count] = lst[j]
        BY <1>3, <3>1
      <3> QED
        BY <3>1, <3>2
    <2> QED
      BY <2>1, <2>2
  <1> HIDE DEF hit
  <1>8. start' = IF notified' < Len(lst) THEN lst[notified' + 1] ELSE NoListener
    <2>1. reach < Len(ahead) <=> notified' < Len(lst)
      BY <1>1, <1>2, <1>3, <1>4
    <2> QED
      BY <1>1, <1>5, <1>6, <2>1
  <1>9. state' = [l \in Listeners |->
           IF \E i \in (count + 1)..notified' : lst[i] = l THEN "Notified" ELSE st[l]]
    <2>1. \A l \in Listeners : l \in hit <=> \E i \in (count + 1)..notified' : lst[i] = l
      BY <1>1, <1>7
    <2> QED
      BY <1>1, <2>1
  <1> QED
    BY <1>1, <1>4, <1>8, <1>9

(* Hence it leaves a list in order. *)
LEMMA NotifyKeepsOrder ==
    ASSUME NEW lst, NEW st \in [Listeners -> States], NEW first, NEW count, NEW n \in Nat,
           Linked(lst, st, first, count), NotifyList(n, lst, first, count, st)
    PROVE  Linked(list', state', start', notified')
  <1>1. /\ lst \in Seq(Listeners)
        /\ \A i, j \in 1..Len(lst) : lst[i] = lst[j] => i = j
        /\ count \in 0..Len(lst)
        /\ \A i \in 1..Len(lst) : st[lst[i]] = "Notified" <=> i <= count
        /\ \A l \in Listeners : st[l] \in Listening <=> \E i \in 1..Len(lst) : lst[i] = l
    BY DEF Linked
  <1>2. /\ list' = lst /\ notified' \in count..Len(lst)
        /\ start' = IF notified' < Len(lst) THEN lst[notified' + 1] ELSE NoListener
        /\ state' = [l \in Listeners |->
              IF \E i \in (count + 1)..notified' : lst[i] = l THEN "Notified" ELSE st[l]]
    BY NotifyInOrder
  <1>3. ASSUME NEW i \in 1..Len(lst) PROVE state'[lst[i]] = "Notified" <=> i <= notified'
    <2>1. lst[i] \in Listeners
      BY <1>1
    <2>2. (\E j \in (count + 1)..notified' : lst[j] = lst[i]) <=> i \in (count + 1)..notified'
      BY <1>1, <1>2
    <2> QED
      BY <1>1, <1>2, <2>1, <2>2
  <1>4. ASSUME NEW l \in Listeners
        PROVE  state'[l] \in Listening <=> \E i \in 1..Len(lst) : lst[i] = l
    <2>1. CASE \E i \in (count + 1)..notified' : lst[i] = l
      BY <1>1, <1>2, <2>1 DEF Listening
    <2>2. CASE ~ \E i \in (count + 1)..notified' : lst[i] = l
      BY <1>1, <1>2, <2>2
    <2> QED
      BY <2>1, <2>2
  <1>5. notified' \in 0..Len(lst)
    BY <1>1, <1>2
  <1> QED
    BY <1>1, <1>2, <1>3, <1>4, <1>5 DEF Linked

(* List::insert. *)
LEMMA InsertKeepsOrder ==
    ASSUME NEW lst, NEW st \in [Listeners -> States], NEW first, NEW count,
           Linked(lst, st, first, count), NEW l \in Listeners, st[l] = "none"
    PROVE  Linked(Append(lst, l), [st EXCEPT ![l] = "Created"],
                  IF first = NoListener THEN l ELSE first, count)
  <1> DEFINE after == [st EXCEPT ![l] = "Created"]
             more  == Append(lst, l)
  <1>1. /\ lst \in Seq(Listeners)
        /\ \A i, j \in 1..Len(lst) : lst[i] = lst[j] => i = j
        /\ count \in 0..Len(lst)
        /\ \A i \in 1..Len(lst) : st[lst[i]] = "Notified" <=> i <= count
        /\ first = IF count < Len(lst) THEN lst[count + 1] ELSE NoListener
        /\ \A k \in Listeners : st[k] \in Listening <=> \E i \in 1..Len(lst) : lst[i] = k
    BY DEF Linked
  <1>2. /\ more \in Seq(Listeners) /\ Len(more) = Len(lst) + 1 /\ Len(lst) \in Nat
        /\ \A i \in 1..Len(lst) : more[i] = lst[i]
        /\ more[Len(lst) + 1] = l
    BY <1>1, AppendProperties
  <1>3. \A i \in 1..Len(lst) : lst[i] # l /\ lst[i] \in Listeners
    BY <1>1 DEF Listening
  <1>4. /\ after[l] = "Created" /\ \A k \in Listeners \ {l} : after[k] = st[k]
    OBVIOUS
  <1> HIDE DEF after, more
  <1>5. \A i \in 1..Len(more) : i \in 1..Len(lst) \/ i = Len(lst) + 1
    BY <1>2
  <1>6. \A i, j \in 1..Len(more) : more[i] = more[j] => i = j
    BY <1>1, <1>2, <1>3, <1>5
  <1>7. ASSUME NEW i \in 1..Len(more) PROVE after[more[i]] = "Notified" <=> i <= count
    <2>1. CASE i \in 1..Len(lst)
      BY <1>1, <1>2, <1>3, <1>4, <2>1
    <2>2. CASE i = Len(lst) + 1
      BY <1>1, <1>2, <1>4, <2>2
    <2> QED
      BY <1>5, <2>1, <2>2
  <1>8. ASSUME NEW k \in Listeners
        PROVE  after[k] \in Listening <=> \E i \in 1..Len(more) : more[i] = k
    <2>1. CASE k = l
      BY <1>2, <1>4, <2>1 DEF Listening
    <2>2. CASE k # l
      BY <1>1, <1>2, <1>4, <1>5, <2>2
    <2> QED
      BY <2>1, <2>2
  <1>9. (IF first = NoListener THEN l ELSE first) =
           IF count < Len(more) THEN more[count + 1] ELSE NoListener
    <2>1. CASE count < Len(lst)
      BY <1>1, <1>2, <2>1, NamesAssumption
    <2>2. CASE count = Len(lst)
      BY <1>1, <1>2, <2>2
    <2> QED
      BY <1>1, <2>1, <2>2
  <1>10. count \in 0..Len(more)
    BY <1>1, <1>2
  <1> QED
    BY <1>2, <1>6, <1>7, <1>8, <1>9, <1>10 DEF Linked, after, more

(* What is at each place once the entry of lst[k] is unlinked. *)
LEMMA UnlinkedProperties ==
    ASSUME NEW lst \in Seq(Listeners), \A i, j \in 1..Len(lst) : lst[i] = lst[j] => i = j,
           NEW k \in 1..Len(lst)
    PROVE  /\ Unlinked(lst, lst[k]) \in Seq(Listeners)
           /\ Len(Unlinked(lst, lst[k])) = Len(lst) - 1
           /\ \A i \in 1..(Len(lst) - 1) :
                 Unlinked(lst, lst[k])[i] = lst[IF i < k THEN i ELSE i + 1]
  <1> DEFINE s == SubSeq(lst, 1, k - 1)
             t == SubSeq(lst, k + 1, Len(lst))
  <1>1. Unlinked(lst, lst[k]) = s \o t
    BY PlaceOf DEF Unlinked
  <1>2. \A i \in 1..Len(lst) : lst[i] \in Listeners
    OBVIOUS
  <1>3. /\ s \in Seq(Listeners) /\ Len(s) = k - 1
        /\ \A i \in 1..(k - 1) : s[i] = lst[i]
    <2>1. /\ s \in Seq(Listeners) /\ Len(s) = IF 1 <= k - 1 THEN k - 1 - 1 + 1 ELSE 0
          /\ \A i \in 1..(k - 1 - 1 + 1) : s[i] = lst[1 + i - 1]
      BY <1>2, SubSeqProperties
    <2> HIDE DEF s
    <2> QED
      BY <2>1
  <1>4. /\ t \in Seq(Listeners) /\ Len(t) = Len(lst) - k
        /\ \A i \in 1..(Len(lst) - k) : t[i] = lst[k + i]
    <2>1. /\ t \in Seq(Listeners) /\ Len(t) = IF k + 1 <= Len(lst) THEN Len(lst) - (k + 1) + 1 ELSE 0
          /\ \A i \in 1..(Len(lst) - (k + 1) + 1) : t[i] = lst[(k + 1) + i - 1]
      BY <1>2, SubSeqProperties
    <2> HIDE DEF t
    <2> QED
      BY <2>1
  <1> HIDE DEF s, t
  <1>5. /\ s \o t \in Seq(Listeners) /\ Len(s \o t) = Len(s) + Len(t)
        /\ \A i \in 1..(Len(s) + Len(t)) :
              (s \o t)[i] = IF i <= Len(s) THEN s[i] ELSE t[i - Len(s)]
    <2>1. s \in Seq(Listeners) /\ t \in Seq(Listeners)
      BY <1>3, <1>4
    <2> QED
      BY <2>1, ConcatProperties
  <1>6. ASSUME NEW i \in 1..(Len(lst) - 1)
        PROVE  (s \o t)[i] = lst[IF i < k THEN i ELSE i + 1]
    <2>1. CASE i < k
      BY <1>3, <1>4, <1>5, <2>1
    <2>2. CASE ~(i < k)
      <3>1. /\ i - Len(s) \in 1..(Len(lst) - k) /\ ~(i <= Len(s)) /\ k + (i - Len(s)) = i + 1
            /\ i \in 1..(Len(s) + Len(t))
        BY <1>3, <1>4, <2>2
      <3>2. (s \o t)[i] = t[i - Len(s)]
        BY <1>5, <3>1, Zenon
      <3> QED
        BY <1>4, <2>2, <3>1, <3>2
    <2> QED
      BY <2>1, <2>2
  <1> QED
    BY <1>1, <1>3, <1>4, <1>5, <1>6

(* List::remove, whichever entry it is. *)
LEMMA RemoveKeepsOrder ==
    ASSUME state \in [Listeners -> States], Linked(list, state, start, notified),
           NEW l \in Listeners, state[l] \in Listening, NEW after \in {"none", "Completed"}
    PROVE  Linked(Unlinked(list, l), [state EXCEPT ![l] = after], StartWithout(l), CountWithout(l))
  <1> DEFINE st    == [state EXCEPT ![l] = after]
             rest  == Unlinked(list, l)
             count == CountWithout(l)
  <1>1. /\ list \in Seq(Listeners) /\ Len(list) \in Nat
        /\ \A i, j \in 1..Len(list) : list[i] = list[j] => i = j
        /\ notified \in 0..Len(list)
        /\ \A i \in 1..Len(list) : state[list[i]] = "Notified" <=> i <= notified
        /\ start = IF notified < Len(list) THEN list[notified + 1] ELSE NoListener
        /\ \A k \in Listeners : state[k] \in Listening <=> \E i \in 1..Len(list) : list[i] = k
    BY DEF Linked
  <1>2. PICK p \in 1..Len(list) : list[p] = l
    BY <1>1
  <1>3. Place(list, l) = p
    BY <1>1, <1>2, PlaceOf
  <1>4. /\ rest \in Seq(Listeners) /\ Len(rest) = Len(list) - 1
        /\ \A i \in 1..(Len(list) - 1) : rest[i] = list[IF i < p THEN i ELSE i + 1]
    <2>1. /\ Unlinked(list, list[p]) \in Seq(Listeners)
          /\ Len(Unlinked(list, list[p])) = Len(list) - 1
          /\ \A i \in 1..(Len(list) - 1) :
                Unlinked(list, list[p])[i] = list[IF i < p THEN i ELSE i + 1]
      BY <1>1, UnlinkedProperties
    <2> QED
      BY <1>2, <2>1
  <1>5. /\ st[l] = after /\ after \notin Listening /\ after # "Notified"
        /\ \A k \in Listeners \ {l} : st[k] = state[k]
    BY DEF Listening
  <1>6. count = IF p <= notified THEN notified - 1 ELSE notified
    BY <1>1, <1>2 DEF CountWithout
  <1>7. \A i \in 1..(Len(list) - 1) :
           LET o == IF i < p THEN i ELSE i + 1 IN o \in 1..Len(list) /\ o # p
    BY <1>1
  <1>8. count \in 0..Len(rest)
    BY <1>1, <1>4, <1>6
  <1> HIDE DEF st, rest, count
  <1>9. ASSUME NEW i \in 1..Len(rest), NEW j \in 1..Len(rest), rest[i] = rest[j]
        PROVE  i = j
    <2> DEFINE oi == IF i < p THEN i ELSE i + 1
               oj == IF j < p THEN j ELSE j + 1
    <2>1. oi \in 1..Len(list) /\ oj \in 1..Len(list) /\ rest[i] = list[oi] /\ rest[j] = list[oj]
      BY <1>4, <1>7
    <2>2. oi = oj => i = j
      BY <1>4
    <2> HIDE DEF oi, oj
    <2> QED
      BY <1>1, <1>9, <2>1, <2>2
  <1>10. ASSUME NEW i \in 1..Len(rest) PROVE st[rest[i]] = "Notified" <=> i <= count
    <2> DEFINE o == IF i < p THEN i ELSE i + 1
    <2>1. o \in 1..Len(list) /\ o # p /\ rest[i] = list[o]
      BY <1>4, <1>7
    <2>2. list[o] \in Listeners \ {l}
      BY <1>1, <1>2, <2>1
    <2>3. st[rest[i]] = "Notified" <=> o <= notified
      BY <1>1, <1>5, <2>1, <2>2
    <2>4. o <= notified <=> i <= count
      BY <1>1, <1>2, <1>4, <1>6
    <2> QED
      BY <2>3, <2>4
  <1>11. ASSUME NEW k \in Listeners
         PROVE  st[k] \in Listening <=> \E i \in 1..Len(rest) : rest[i] = k
    <2>1. CASE k = l
      <3>1. ASSUME NEW i \in 1..Len(rest) PROVE rest[i] # l
        <4> DEFINE o == IF i < p THEN i ELSE i + 1
        <4>1. o \in 1..Len(list) /\ o # p /\ rest[i] = list[o]
          BY <1>4, <1>7
        <4> HIDE DEF o
        <4> QED
          BY <1>1, <1>2, <4>1
      <3> QED
        BY <1>5, <2>1, <3>1
    <2>2. ASSUME k # l, NEW j \in 1..Len(list), list[j] = k
          PROVE  \E i \in 1..Len(rest) : rest[i] = k
      <3>1. j # p
        BY <1>2, <2>2
      <3>2. CASE j < p
        <4>1. j \in 1..(Len(list) - 1) /\ j \in 1..Len(rest)
          BY <1>1, <1>4, <3>2
        <4> QED
          BY <1>4, <2>2, <3>2, <4>1
      <3>3. CASE j > p
        <4>1. /\ j - 1 \in 1..(Len(list) - 1) /\ ~(j - 1 < p) /\ (j - 1) + 1 = j
          BY <1>1, <3>3
        <4> QED
          BY <1>4, <2>2, <4>1
      <3> QED
        BY <1>1, <3>1, <3>2, <3>3
    <2>3. ASSUME k # l, NEW i \in 1..Len(rest), rest[i] = k
          PROVE  \E j \in 1..Len(list) : list[j] = k
      BY <1>4, <1>7, <2>3
    <2> QED
      BY <1>1, <1>5, <2>1, <2>2, <2>3
  <1>12. StartWithout(l) = IF count < Len(rest) THEN rest[count + 1] ELSE NoListener
    <2>1. CASE p = notified + 1
      <3>1. /\ start = l /\ count = notified /\ notified < Len(list)
        BY <1>1, <1>2, <1>6, <2>1
      <3>2. From(list, l) = SubSeq(list, p, Len(list))
        BY <1>3, NamesAssumption DEF From
      <3>3. Tail(From(list, l)) = SubSeq(list, p + 1, Len(list))
        BY <1>1, <3>2, HeadTailOfSubSeq
      <3>4. First(SubSeq(list, p + 1, Len(list))) =
               IF p < Len(list) THEN list[p + 1] ELSE NoListener
        BY <1>1, FirstOf
      <3>5. p < Len(list) => rest[p] = list[p + 1]
        BY <1>1, <1>4
      <3>6. StartWithout(l) = IF p < Len(list) THEN rest[p] ELSE NoListener
        BY <3>1, <3>3, <3>4, <3>5 DEF StartWithout
      <3>7. count + 1 = p /\ (count < Len(rest) <=> p < Len(list))
        BY <1>1, <1>4, <2>1, <3>1
      <3> QED
        BY <3>6, <3>7
    <2>2. CASE p # notified + 1
      <3>1. start # l
        BY <1>1, <1>2, <2>2, NamesAssumption
      <3>2. CASE notified < Len(list)
        <4>1. count + 1 \in 1..(Len(list) - 1) /\ count < Len(rest)
          BY <1>1, <1>4, <1>6, <2>2, <3>2
        <4>2. (IF count + 1 < p THEN count + 1 ELSE (count + 1) + 1) = notified + 1
          BY <1>1, <1>6, <2>2
        <4>3. rest[count + 1] = list[notified + 1]
          BY <1>4, <4>1, <4>2
        <4> QED
          BY <1>1, <3>1, <3>2, <4>1, <4>3 DEF StartWithout
      <3>3. CASE notified = Len(list)
        BY <1>1, <1>2, <1>4, <1>6, <3>1, <3>3 DEF StartWithout
      <3> QED
        BY <1>1, <3>2, <3>3
    <2> QED
      BY <2>1, <2>2
  <1> QED
    BY <1>4, <1>8, <1>9, <1>10, <1>11, <1>12 DEF Linked, st, rest, count

-----------------------------------------------------------------------------
(* The list is in order and what notify reads without the lock is right     *)
(* about it.                                                                *)
CallTyped == call \in [Notifiers -> {Idle} \cup [at : {"load", "lock"}, n : {1, All}]]

OrderInv ==
    /\ Linked(list, state, start, notified)
    /\ hint = Published(notified, Len(list))
    /\ CallTyped

(* A notification of an order, to prove the same of several actions. *)
LEMMA OrderAfter ==
    ASSUME NEW lst, NEW st \in [Listeners -> States], NEW first, NEW count, NEW n \in Nat,
           Linked(lst, st, first, count), NotifyList(n, lst, first, count, st), CallTyped'
    PROVE  OrderInv'
  <1>1. Linked(list', state', start', notified')
    BY NotifyKeepsOrder
  <1>2. hint' = Published(notified', Len(list'))
    BY NotifyInOrder
  <1> QED
    BY <1>1, <1>2 DEF OrderInv, Linked, Published

LEMMA OrderInvariance == Spec => []OrderInv
  <1> USE AllAssumption
  <1>1. Init => OrderInv
    <2> SUFFICES ASSUME Init PROVE OrderInv
      OBVIOUS
    <2>1. list = <<>> /\ list \in Seq(Listeners) /\ Len(list) = 0
      BY EmptySeq DEF Init
    <2> QED
      BY <2>1 DEF Init, OrderInv, Linked, Published, CallTyped, Listening
  <1>2. OrderInv /\ ListenerInv /\ [Next]_vars => OrderInv'
    <2> SUFFICES ASSUME OrderInv, ListenerInv, [Next]_vars PROVE OrderInv'
      OBVIOUS
    <2>1. /\ Linked(list, state, start, notified) /\ CallTyped
          /\ state \in [Listeners -> States]
      BY DEF OrderInv, ListenerInv, Typed
    <2>2. ASSUME NEW l \in Listeners, Listen(l) PROVE OrderInv'
      <3> DEFINE st == [state EXCEPT ![l] = "Created"]
      <3>1. Linked(Append(list, l), st, IF start = NoListener THEN l ELSE start, notified)
        BY <2>1, <2>2, InsertKeepsOrder DEF Listen
      <3>2. st \in [Listeners -> States]
        BY <2>1 DEF States
      <3>3. NotifyList(0, Append(list, l), IF start = NoListener THEN l ELSE start, notified, st)
        BY <2>2 DEF Listen
      <3>4. CallTyped'
        BY <2>1, <2>2 DEF Listen, CallTyped
      <3> HIDE DEF st
      <3> QED
        BY <3>1, <3>2, <3>3, <3>4, OrderAfter
    <2>3. ASSUME NEW l \in Listeners, NEW n \in Nat, NEW after \in {"none", "Completed"},
                 state[l] \in Listening, Remove(l, n, after)
          PROVE  OrderInv'
      <3> DEFINE st == [state EXCEPT ![l] = after]
      <3>1. Linked(Unlinked(list, l), st, StartWithout(l), CountWithout(l))
        BY <2>1, <2>3, RemoveKeepsOrder
      <3>2. st \in [Listeners -> States]
        BY <2>1 DEF States
      <3>3. NotifyList(n, Unlinked(list, l), StartWithout(l), CountWithout(l), st)
        BY <2>3 DEF Remove
      <3>4. CallTyped'
        BY <2>1, <2>3 DEF Remove, CallTyped
      <3> HIDE DEF st
      <3> QED
        BY <3>1, <3>2, <3>3, <3>4, OrderAfter
    <2>4. ASSUME NEW l \in Listeners, PollReady(l) PROVE OrderInv'
      BY <2>3, <2>4 DEF PollReady, Listening
    <2>5. ASSUME NEW l \in Listeners, Drop(l) PROVE OrderInv'
      BY <2>3, <2>5 DEF Drop, Listening
    <2>6. ASSUME NEW l \in Listeners, NEW to \in {"none", "Polling"},
                 \/ state[l] = "Completed" /\ to = "none"
                 \/ state[l] \in {"Created", "Polling"} /\ to = "Polling",
                 state' = [state EXCEPT ![l] = to], UNCHANGED <<entries, call>>
          PROVE  OrderInv'
      <3>1. /\ state'[l] # "Notified" /\ (state'[l] \in Listening <=> state[l] \in Listening)
            /\ state[l] # "Notified"
            /\ \A k \in Listeners \ {l} : state'[k] = state[k]
        BY <2>1, <2>6 DEF Listening
      <3>2. UNCHANGED <<list, start, notified, hint, call>>
        BY <2>6 DEF entries
      <3>3. \A k \in Listeners : (state'[k] \in Listening <=> state[k] \in Listening)
                               /\ (state'[k] = "Notified" <=> state[k] = "Notified")
        BY <3>1
      <3>4. list \in Seq(Listeners)
        BY <2>1 DEF Linked
      <3>5. ASSUME NEW i \in 1..Len(list)
            PROVE  state'[list[i]] = "Notified" <=> i <= notified
        <4>1. list[i] \in Listeners
          BY <3>4
        <4>2. state[list[i]] = "Notified" <=> i <= notified
          BY <2>1 DEF Linked
        <4>3. state'[list[i]] = "Notified" <=> state[list[i]] = "Notified"
          BY <3>3, <4>1
        <4> QED
          BY <4>2, <4>3
      <3>6. ASSUME NEW k \in Listeners
            PROVE  state'[k] \in Listening <=> \E i \in 1..Len(list) : list[i] = k
        <4>1. state[k] \in Listening <=> \E i \in 1..Len(list) : list[i] = k
          BY <2>1 DEF Linked
        <4>2. state'[k] \in Listening <=> state[k] \in Listening
          BY <3>3
        <4> QED
          BY <4>1, <4>2
      <3>7. Linked(list, state', start, notified)
        BY <2>1, <3>5, <3>6 DEF Linked
      <3>8. Linked(list', state', start', notified')
        BY <3>2, <3>7
      <3> QED
        BY <3>2, <3>8 DEF OrderInv, CallTyped
    <2>7. ASSUME NEW l \in Listeners, NEW w \in Wakers, PollPending(l, w) PROVE OrderInv'
      <3>1. state[l] \in {"Created", "Polling"} /\ state' = [state EXCEPT ![l] = "Polling"]
            /\ UNCHANGED <<entries, call>>
        BY <2>7 DEF PollPending
      <3> QED
        BY <2>6, <3>1
    <2>8. ASSUME NEW l \in Listeners, DropCompleted(l) PROVE OrderInv'
      BY <2>6, <2>8 DEF DropCompleted
    <2>9. ASSUME NEW c \in Notifiers, NotifyLocked(c) PROVE OrderInv'
      <3>1. call[c].n \in Nat
        BY <2>1, <2>9 DEF NotifyLocked, CallTyped, Idle
      <3>2. CallTyped'
        BY <2>1, <2>9 DEF NotifyLocked, CallTyped
      <3>3. NotifyList(call[c].n, list, start, notified, state)
        BY <2>9 DEF NotifyLocked
      <3> QED
        BY <2>1, <3>1, <3>2, <3>3, OrderAfter
    <2>10. ASSUME UNCHANGED <<list, start, notified, hint, state>>, CallTyped' PROVE OrderInv'
      BY <2>10 DEF OrderInv, Linked
    <2>11. ASSUME NEW c \in Notifiers, NotifyLoad(c) PROVE OrderInv'
      <3>1. CallTyped'
        BY <2>1, <2>11 DEF NotifyLoad, CallTyped, Idle
      <3> QED
        BY <2>10, <2>11, <3>1 DEF NotifyLoad, entries
    <2>12. ASSUME NEW c \in Notifiers, NEW n \in {1, All}, NotifyStart(c, n) PROVE OrderInv'
      <3>1. CallTyped'
        BY <2>1, <2>12 DEF NotifyStart, CallTyped
      <3> QED
        BY <2>10, <2>12, <3>1 DEF NotifyStart, entries
    <2>13. CASE UNCHANGED vars
      <3>1. CallTyped'
        BY <2>1, <2>13 DEF vars, CallTyped
      <3> QED
        BY <2>10, <2>13, <3>1 DEF vars, entries
    <2> QED
      BY <2>2, <2>4, <2>5, <2>7, <2>8, <2>9, <2>11, <2>12, <2>13 DEF Next
  <1> QED
    BY <1>1, <1>2, ListenerInvariance, PTL DEF Spec

(* Whichever entry is removed and however notifications meet, the notified  *)
(* entries are the first of the list, start is the one behind them, and     *)
(* the list holds exactly those who listen.                                 *)
THEOREM NotifiedStayFirst == Spec => []NotifiedFirst
  <1>1. OrderInv => NotifiedFirst
    <2> SUFFICES ASSUME OrderInv PROVE NotifiedFirst
      OBVIOUS
    <2>1. /\ list \in Seq(Listeners) /\ notified \in 0..Len(list)
          /\ \A i \in 1..Len(list) : state[list[i]] = "Notified" <=> i <= notified
          /\ start = IF notified < Len(list) THEN list[notified + 1] ELSE NoListener
          /\ \A l \in Listeners : state[l] \in Listening <=> \E i \in 1..Len(list) : list[i] = l
      BY DEF OrderInv, Linked
    <2>2. start = First(SubSeq(list, notified + 1, Len(list)))
      BY <2>1, FirstOf
    <2> QED
      BY <2>1, <2>2 DEF NotifiedFirst, Listening
  <1> QED
    BY <1>1, OrderInvariance, PTL

-----------------------------------------------------------------------------
(* What the listeners with the states st are in the promise. *)
EarsOf(st) == [l \in Listeners |-> CASE st[l] = "none" -> "none"
                                      [] st[l] = "Notified" -> "notified"
                                      [] st[l] = "Completed" -> "heard"
                                      [] OTHER -> "waiting"]

LEMMA EarsOfProperties ==
    ASSUME NEW st \in [Listeners -> States], NEW l \in Listeners
    PROVE  /\ EarsOf(st)[l] = "none" <=> st[l] = "none"
           /\ EarsOf(st)[l] = "notified" <=> st[l] = "Notified"
           /\ EarsOf(st)[l] = "heard" <=> st[l] = "Completed"
           /\ EarsOf(st)[l] = "waiting" <=> st[l] \in {"Created", "Polling"}
  BY DEF EarsOf, States

LEMMA EarsNow == Ears = EarsOf(state) /\ Ears' = EarsOf(state')
  BY DEF Ears, EarsOf

(* One entry changed. *)
LEMMA EarChanged ==
    ASSUME NEW st \in [Listeners -> States], NEW l \in Listeners, NEW to \in States
    PROVE  EarsOf([st EXCEPT ![l] = to]) =
              [EarsOf(st) EXCEPT ![l] = CASE to = "none" -> "none" [] to = "Notified" -> "notified"
                                          [] to = "Completed" -> "heard" [] OTHER -> "waiting"]
  BY DEF EarsOf, States

(* A list has at most as many entries as there are listeners. *)
LEMMA ListFits ==
    ASSUME NEW lst, NEW st, NEW first, NEW count, Linked(lst, st, first, count)
    PROVE  Len(lst) < All /\ All \in Nat /\ All # 1 /\ Len(lst) \in Nat
  <1>1. /\ lst \in [1..Len(lst) -> Listeners] /\ Len(lst) \in Nat
        /\ \A i, j \in 1..Len(lst) : lst[i] = lst[j] => i = j
    BY LenProperties DEF Linked
  <1>2. lst \in Injection(1..Len(lst), Listeners)
    BY <1>1 DEF Injection, IsInjective
  <1>3. Cardinality(1..Len(lst)) <= Cardinality(Listeners)
    BY <1>2, FS_Injection, AllAssumption
  <1>4. Cardinality(1..Len(lst)) = Len(lst)
    <2>1. ASSUME NEW m \in Nat PROVE Cardinality(1..m) = m
      <3>1. 1 \in Int /\ m \in Int
        OBVIOUS
      <3>2. Cardinality(1..m) = IF 1 > m THEN 0 ELSE m - 1 + 1
        BY <3>1, FS_Interval
      <3> QED
        BY <3>2
    <2> QED
      BY <1>1, <2>1
  <1>5. Cardinality(Listeners) \in Nat
    BY FS_CardinalityType, AllAssumption
  <1> QED
    BY <1>1, <1>3, <1>4, <1>5, AllAssumption

(* notify(0): nothing but the publication of the counter. *)
LEMMA NotifyNone ==
    ASSUME NEW lst, NEW st \in [Listeners -> States], NEW first, NEW count,
           Linked(lst, st, first, count), NotifyList(0, lst, first, count, st)
    PROVE  state' = st
  <1>0. count \in 0..Len(lst) /\ Len(lst) \in Nat
    BY DEF Linked
  <1>1. /\ notified' = Raised(0, count, Len(lst))
        /\ state' = [l \in Listeners |->
              IF \E i \in (count + 1)..notified' : lst[i] = l THEN "Notified" ELSE st[l]]
    <2>1. 0 \in Nat
      OBVIOUS
    <2> QED
      BY <2>1, NotifyInOrder
  <1>2. notified' = count
    BY <1>0, <1>1 DEF Raised
  <1>3. (count + 1)..notified' = {}
    BY <1>0, <1>2
  <1> QED
    BY <1>1, <1>3

(* notify(1): somebody is notified already or, if anybody listens, becomes so. *)
LEMMA NotifyOne ==
    ASSUME NEW lst, NEW st \in [Listeners -> States], NEW first, NEW count,
           Linked(lst, st, first, count), NotifyList(1, lst, first, count, st)
    PROVE  EarsOf(state') \in Promise!OneNotified(Listeners, EarsOf(st))
  <1>1. /\ notified' = Raised(1, count, Len(lst))
        /\ state' = [l \in Listeners |->
              IF \E i \in (count + 1)..notified' : lst[i] = l THEN "Notified" ELSE st[l]]
    BY NotifyInOrder
  <1>2. /\ lst \in Seq(Listeners) /\ count \in 0..Len(lst) /\ Len(lst) \in Nat
        /\ \A i \in 1..Len(lst) : st[lst[i]] = "Notified" <=> i <= count
        /\ \A l \in Listeners : st[l] \in Listening <=> \E i \in 1..Len(lst) : lst[i] = l
    BY DEF Linked
  <1>3. CASE count > 0 \/ Len(lst) = 0
    <2>1. notified' = count
      BY <1>1, <1>2, <1>3 DEF Raised
    <2>2. (count + 1)..notified' = {}
      BY <1>2, <2>1
    <2>3. state' = st
      BY <1>1, <2>2
    <2>4. CASE count > 0
      <3>1. lst[1] \in Listeners /\ st[lst[1]] = "Notified"
        BY <1>2, <2>4
      <3>2. EarsOf(st)[lst[1]] = "notified"
        BY <3>1, EarsOfProperties
      <3> QED
        BY <2>3, <3>1, <3>2 DEF Promise!OneNotified
    <2>5. CASE Len(lst) = 0
      <3>1. \A l \in Listeners : st[l] \notin {"Created", "Polling"}
        BY <1>2, <2>5 DEF Listening
      <3>2. Promise!Waiting(Listeners, EarsOf(st)) = {}
        BY <3>1, EarsOfProperties DEF Promise!Waiting
      <3> QED
        BY <2>3, <3>2 DEF Promise!OneNotified
    <2> QED
      BY <1>3, <2>4, <2>5
  <1>4. CASE count = 0 /\ Len(lst) > 0
    <2>1. notified' = 1
      <3>1. Raised(1, 0, Len(lst)) = 1
        <4>1. ASSUME NEW m \in Nat, m > 0 PROVE Raised(1, 0, m) = 1
          BY <4>1 DEF Raised
        <4> QED
          BY <1>2, <1>4, <4>1
      <3> QED
        BY <1>1, <1>4, <3>1
    <2>2. lst[1] \in Listeners /\ st[lst[1]] \in {"Created", "Polling"}
      <3>1. lst[1] \in Listeners /\ 1 \in 1..Len(lst)
        BY <1>2, <1>4
      <3> QED
        BY <1>2, <1>4, <3>1 DEF Listening
    <2>3. \A i \in (count + 1)..notified' : i = 1
      BY <1>4, <2>1
    <2>4. 1 \in (count + 1)..notified'
      BY <1>4, <2>1
    <2>5. state' = [st EXCEPT ![lst[1]] = "Notified"]
      BY <1>1, <2>2, <2>3, <2>4
    <2>6. EarsOf(state') = [EarsOf(st) EXCEPT ![lst[1]] = "notified"]
      BY <2>2, <2>5, EarChanged DEF States
    <2>7. \A l \in Listeners : EarsOf(st)[l] # "notified"
      <3>1. \A l \in Listeners : st[l] # "Notified"
        BY <1>2, <1>4 DEF Listening
      <3> QED
        BY <3>1, EarsOfProperties
    <2>8. lst[1] \in Promise!Waiting(Listeners, EarsOf(st))
      BY <2>2, EarsOfProperties DEF Promise!Waiting
    <2> QED
      BY <2>6, <2>7, <2>8 DEF Promise!OneNotified
  <1> QED
    BY <1>2, <1>3, <1>4

(* notify(usize::MAX): nobody waits any more. *)
LEMMA NotifyAll ==
    ASSUME NEW lst, NEW st \in [Listeners -> States], NEW first, NEW count,
           Linked(lst, st, first, count), NotifyList(All, lst, first, count, st)
    PROVE  EarsOf(state') = Promise!AllNotified(Listeners, EarsOf(st))
  <1>1. Len(lst) < All /\ All \in Nat /\ Len(lst) \in Nat
    BY ListFits
  <1>2. /\ notified' = Raised(All, count, Len(lst))
        /\ state' = [l \in Listeners |->
              IF \E i \in (count + 1)..notified' : lst[i] = l THEN "Notified" ELSE st[l]]
    BY <1>1, NotifyInOrder
  <1>3. /\ lst \in Seq(Listeners) /\ count \in 0..Len(lst)
        /\ \A i \in 1..Len(lst) : st[lst[i]] = "Notified" <=> i <= count
        /\ \A l \in Listeners : st[l] \in Listening <=> \E i \in 1..Len(lst) : lst[i] = l
    BY DEF Linked
  <1>4. notified' = Len(lst)
    BY <1>1, <1>2, <1>3 DEF Raised
  <1>5. ASSUME NEW l \in Listeners
        PROVE  (\E i \in (count + 1)..notified' : lst[i] = l) <=> st[l] \in {"Created", "Polling"}
    BY <1>1, <1>3, <1>4 DEF Listening
  <1>6. state' = [l \in Listeners |-> IF st[l] \in {"Created", "Polling"} THEN "Notified" ELSE st[l]]
    BY <1>2, <1>5
  <1>7. EarsOf(state') = [l \in Listeners |->
           IF EarsOf(st)[l] = "waiting" THEN "notified" ELSE EarsOf(st)[l]]
    BY <1>6 DEF EarsOf, States
  <1>8. DOMAIN EarsOf(st) = Listeners
    BY DEF EarsOf
  <1> QED
    BY <1>7, <1>8 DEF Promise!AllNotified

(* A call that finds the published counter high enough has nothing to do.   *)
LEMMA EnoughPublished ==
    ASSUME OrderInv, state \in [Listeners -> States], NEW n \in {1, All}, ~(hint < n)
    PROVE  /\ n = 1 => Ears \in Promise!OneNotified(Listeners, Ears)
           /\ n = All => Ears = Promise!AllNotified(Listeners, Ears)
  <1>1. /\ list \in Seq(Listeners) /\ notified \in 0..Len(list)
        /\ \A i \in 1..Len(list) : state[list[i]] = "Notified" <=> i <= notified
        /\ \A l \in Listeners : state[l] \in Listening <=> \E i \in 1..Len(list) : list[i] = l
        /\ hint = Published(notified, Len(list))
    BY DEF OrderInv, Linked
  <1>2. Len(list) < All /\ All \in Nat /\ All # 1 /\ Len(list) \in Nat
    BY ListFits DEF OrderInv
  <1>3. CASE notified = Len(list)
    <2>1. \A l \in Listeners : state[l] \notin {"Created", "Polling"}
      BY <1>1, <1>3 DEF Listening
    <2>2. \A l \in Listeners : Ears[l] # "waiting"
      BY <2>1, EarsOfProperties, EarsNow
    <2>3. Promise!Waiting(Listeners, Ears) = {}
      BY <2>2 DEF Promise!Waiting
    <2>4. Ears = Promise!AllNotified(Listeners, Ears)
      BY <2>2 DEF Promise!AllNotified, Ears
    <2> QED
      BY <2>3, <2>4 DEF Promise!OneNotified
  <1>4. CASE notified < Len(list)
    <2>1. n = 1 /\ notified > 0
      BY <1>1, <1>2, <1>4 DEF Published
    <2>2. list[1] \in Listeners /\ state[list[1]] = "Notified"
      BY <1>1, <1>4, <2>1
    <2>3. Ears[list[1]] = "notified"
      BY <2>2, EarsOfProperties, EarsNow
    <2> QED
      BY <1>2, <2>1, <2>2, <2>3 DEF Promise!OneNotified
  <1> QED
    BY <1>1, <1>2, <1>3, <1>4

-----------------------------------------------------------------------------
(* Each step is one of the promise or none. *)
LEMMA ListenPromised ==
    ASSUME OrderInv, state \in [Listeners -> States], NEW l \in Listeners, Listen(l)
    PROVE  Promise!Listen(l)
  <1> DEFINE st == [state EXCEPT ![l] = "Created"]
  <1>1. /\ Linked(Append(list, l), st, IF start = NoListener THEN l ELSE start, notified)
        /\ st \in [Listeners -> States]
    BY InsertKeepsOrder DEF OrderInv, Listen, States
  <1>2. NotifyList(0, Append(list, l), IF start = NoListener THEN l ELSE start, notified, st)
    BY DEF Listen
  <1>3. EarsOf(st) = [EarsOf(state) EXCEPT ![l] = "waiting"]
    BY EarChanged DEF States
  <1> HIDE DEF st
  <1>4. state' = st
    BY <1>1, <1>2, NotifyNone
  <1>5. Ears[l] = "none" /\ Calls' = Calls
    BY EarsNow, EarsOfProperties DEF Listen, Calls
  <1> QED
    BY <1>3, <1>4, <1>5, EarsNow DEF Promise!Listen

LEMMA ReadyPromised ==
    ASSUME OrderInv, state \in [Listeners -> States], NEW l \in Listeners, PollReady(l)
    PROVE  Promise!Hear(l)
  <1> DEFINE st == [state EXCEPT ![l] = "Completed"]
  <1>1. /\ Linked(Unlinked(list, l), st, StartWithout(l), CountWithout(l))
        /\ st \in [Listeners -> States]
    BY RemoveKeepsOrder DEF OrderInv, PollReady, States, Listening
  <1>2. NotifyList(0, Unlinked(list, l), StartWithout(l), CountWithout(l), st)
    BY DEF PollReady, Remove
  <1>3. EarsOf(st) = [EarsOf(state) EXCEPT ![l] = "heard"]
    BY EarChanged DEF States
  <1> HIDE DEF st
  <1>4. state' = st
    BY <1>1, <1>2, NotifyNone
  <1>5. Ears[l] = "notified" /\ Calls' = Calls
    BY EarsNow, EarsOfProperties DEF PollReady, Remove, Calls
  <1> QED
    BY <1>3, <1>4, <1>5, EarsNow DEF Promise!Hear

LEMMA DropPromised ==
    ASSUME OrderInv, state \in [Listeners -> States], NEW l \in Listeners, Drop(l)
    PROVE  Promise!Leave(l)
  <1> DEFINE st   == [state EXCEPT ![l] = "none"]
             rest == [k \in Listeners |-> IF k = l THEN "none" ELSE Ears[k]]
             n    == IF state[l] = "Notified" THEN 1 ELSE 0
  <1>1. /\ Linked(Unlinked(list, l), st, StartWithout(l), CountWithout(l))
        /\ st \in [Listeners -> States]
    BY RemoveKeepsOrder DEF OrderInv, Drop, States, Listening
  <1>2. NotifyList(n, Unlinked(list, l), StartWithout(l), CountWithout(l), st)
    BY DEF Drop, Remove
  <1>3. EarsOf(st) = rest
    BY DEF EarsOf, Ears
  <1>4. /\ Ears[l] # "none" /\ Calls' = Calls
        /\ Ears[l] = "notified" <=> state[l] = "Notified"
    BY EarsNow, EarsOfProperties DEF Drop, Remove, Calls
  <1> HIDE DEF st, rest
  <1>5. Ears' \in IF Ears[l] = "notified" THEN Promise!OneNotified(Listeners, rest) ELSE {rest}
    <2>1. CASE state[l] = "Notified"
      BY <1>1, <1>2, <1>3, <1>4, <2>1, NotifyOne, EarsNow
    <2>2. CASE state[l] # "Notified"
      <3>1. state' = st
        BY <1>1, <1>2, <2>2, NotifyNone
      <3> QED
        BY <1>3, <1>4, <2>2, <3>1, EarsNow
    <2> QED
      BY <2>1, <2>2
  <1> QED
    BY <1>4, <1>5 DEF Promise!Leave, rest

LEMMA NotifyPromised ==
    ASSUME OrderInv, state \in [Listeners -> States], NEW c \in Notifiers,
           call[c] # Idle, call' = [call EXCEPT ![c] = Idle],
           call[c].n = 1 => Ears' \in Promise!OneNotified(Listeners, Ears),
           call[c].n = All => Ears' = Promise!AllNotified(Listeners, Ears)
    PROVE  Promise!Notify(c)
  <1>1. All # 1
    BY ListFits DEF OrderInv
  <1>2. CallTyped
    BY DEF OrderInv
  <1>3. call[c].n \in {1, All}
    BY <1>2 DEF CallTyped
  <1>4. Calls' = [Calls EXCEPT ![c] = "idle"]
    BY <1>2 DEF Calls, CallTyped
  <1>5. Calls[c] = IF call[c].n = All THEN "all" ELSE "one"
    BY DEF Calls
  <1> QED
    BY <1>1, <1>3, <1>4, <1>5 DEF Promise!Notify

LEMMA StepPromised ==
    ASSUME OrderInv, ListenerInv, [Next]_vars
    PROVE  [Promise!Next]_(Promise!vars)
  <1>1. /\ state \in [Listeners -> States] /\ CallTyped
        /\ Linked(list, state, start, notified)
    BY DEF OrderInv, ListenerInv, Typed
  <1>2. ASSUME NEW l \in Listeners, Listen(l) \/ PollReady(l) \/ Drop(l)
        PROVE  Promise!Next
    BY <1>1, <1>2, ListenPromised, ReadyPromised, DropPromised DEF Promise!Next
  <1>3. ASSUME NEW l \in Listeners, DropCompleted(l)
        PROVE  Promise!Next
    <2>1. /\ state[l] = "Completed" /\ state' = [state EXCEPT ![l] = "none"] /\ Calls' = Calls
      BY <1>3 DEF DropCompleted, Calls
    <2>2. Ears[l] = "heard"
      BY <1>1, <2>1, EarsNow, EarsOfProperties
    <2>3. Ears' = [k \in Listeners |-> IF k = l THEN "none" ELSE Ears[k]]
      BY <1>1, <2>1 DEF Ears
    <2> QED
      BY <2>1, <2>2, <2>3 DEF Promise!Next, Promise!Leave
  <1>4. ASSUME NEW l \in Listeners, NEW w \in Wakers, PollPending(l, w)
        PROVE  UNCHANGED Promise!vars
    <2>1. /\ state[l] \in {"Created", "Polling"} /\ state' = [state EXCEPT ![l] = "Polling"]
          /\ Calls' = Calls
      BY <1>4 DEF PollPending, Calls
    <2>2. Ears' = Ears
      BY <1>1, <2>1 DEF Ears
    <2> QED
      BY <2>1, <2>2 DEF Promise!vars
  <1>5. ASSUME NEW c \in Notifiers, NEW n \in {1, All}, NotifyStart(c, n)
        PROVE  Promise!Next
    <2>1. Calls[c] = "idle" /\ Calls' = [Calls EXCEPT ![c] = IF n = All THEN "all" ELSE "one"]
      BY <1>1, <1>5 DEF NotifyStart, Calls, Idle, CallTyped
    <2>2. Ears' = Ears
      BY <1>5 DEF NotifyStart, Ears
    <2> QED
      BY <2>1, <2>2 DEF Promise!Next, Promise!Call
  <1>6. ASSUME NEW c \in Notifiers, NotifyLoad(c)
        PROVE  [Promise!Next]_(Promise!vars)
    <2>1. Ears' = Ears
      BY <1>6 DEF NotifyLoad, Ears
    <2>2. call[c].n \in {1, All} /\ call[c] # Idle /\ call[c].at = "load"
      BY <1>1, <1>6 DEF NotifyLoad, CallTyped, Idle
    <2>3. CASE hint < call[c].n
      <3>1. call' = [call EXCEPT ![c].at = "lock"]
        BY <1>6, <2>3 DEF NotifyLoad
      <3>2. Calls' = Calls
        BY <1>1, <2>2, <3>1 DEF Calls, CallTyped, Idle
      <3> QED
        BY <2>1, <3>2 DEF Promise!vars
    <2>4. CASE ~(hint < call[c].n)
      <3>1. call' = [call EXCEPT ![c] = Idle]
        BY <1>6, <2>4 DEF NotifyLoad
      <3>2. /\ call[c].n = 1 => Ears' \in Promise!OneNotified(Listeners, Ears)
            /\ call[c].n = All => Ears' = Promise!AllNotified(Listeners, Ears)
        BY <1>1, <2>1, <2>2, <2>4, EnoughPublished
      <3>3. Promise!Notify(c)
        BY <1>1, <2>2, <3>1, <3>2, NotifyPromised
      <3> QED
        BY <3>3 DEF Promise!Next
    <2> QED
      BY <2>3, <2>4
  <1>7. ASSUME NEW c \in Notifiers, NotifyLocked(c)
        PROVE  Promise!Next
    <2>1. /\ call[c] # Idle /\ call' = [call EXCEPT ![c] = Idle]
          /\ NotifyList(call[c].n, list, start, notified, state)
      BY <1>7 DEF NotifyLocked, Idle
    <2>2. /\ call[c].n = 1 => Ears' \in Promise!OneNotified(Listeners, Ears)
          /\ call[c].n = All => Ears' = Promise!AllNotified(Listeners, Ears)
      BY <1>1, <2>1, NotifyOne, NotifyAll, EarsNow
    <2>3. Promise!Notify(c)
      BY <1>1, <2>1, <2>2, NotifyPromised
    <2> QED
      BY <2>3 DEF Promise!Next
  <1>8. CASE UNCHANGED vars
    BY <1>8 DEF vars, Ears, Calls, Promise!vars
  <1> QED
    BY <1>2, <1>3, <1>4, <1>5, <1>6, <1>7, <1>8 DEF Next

LEMMA InitPromised == Init => Promise!Init
  <1> SUFFICES ASSUME Init PROVE Promise!Init
    OBVIOUS
  <1>1. Ears = [l \in Listeners |-> "none"]
    BY DEF Init, Ears
  <1>2. Calls = [c \in Notifiers |-> "idle"]
    BY DEF Init, Calls
  <1> QED
    BY <1>1, <1>2 DEF Promise!Init

(* The linked list, its start pointer and the counter that notify reads     *)
(* without the lock do what an event promises: a call of notify takes       *)
(* effect at one moment, and no notification is lost with its listener.     *)
THEOREM EventPromised == Spec => PromiseKept
  <1>1. OrderInv /\ ListenerInv /\ [Next]_vars => [Promise!Next]_(Promise!vars)
    BY StepPromised
  <1> QED
    BY InitPromised, <1>1, OrderInvariance, ListenerInvariance, PTL
    DEF Spec, PromiseKept, Promise!Spec
=============================================================================
