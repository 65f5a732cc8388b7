------------------------- MODULE ContextFutureProofs ------------------------
(***************************************************************************)
(* Theorems about ContextFuture, for any sets of messages, any size hint   *)
(* and any interleaving of the actor, its senders, wakers and timers.      *)
(***************************************************************************)
EXTENDS ContextFuture, FiniteSetTheorems, TLAPS

-----------------------------------------------------------------------------
(* The kinds of messages: who is sent is not scheduled, and NoMsg is none.  *)
LEMMA Kinds ==
  /\ Mail \subseteq Bodies \cup Stops /\ Laters \subseteq Bodies
  /\ Mail \cap Laters = {}
  /\ \A m \in Mail \cup Laters : m \in Refs \/ m \in Muts \/ m \in Stops
  /\ \A m \in Refs : m \in Bodies /\ m \notin Muts /\ m \notin Stops
  /\ \A m \in Muts : m \in Bodies /\ m \notin Refs /\ m \notin Stops
  /\ NoMsg \notin Refs /\ NoMsg \notin Muts /\ NoMsg \notin Stops /\ NoMsg \notin Laters
  BY KindsAssumption DEF Mail, Bodies, Stops, Laters

(* What the operators shared by the actions do to the types.                *)
LEMMA NotifyTypes ==
  ASSUME TypeOK, NotifyReceiver
  PROVE  woken' \in BOOLEAN /\ rx_listening' \in BOOLEAN
  BY DEF TypeOK, NotifyReceiver

LEMMA ClosedTypes ==
  ASSUME TypeOK, NEW M
  PROVE  Closed(M) \in [Mail -> {"unsent", "waiting", "ok", "closed", "refused"}]
  BY DEF TypeOK, Closed

LEMMA CallsTypes ==
  ASSUME TypeOK, NEW stops, Calls(stops)
  PROVE  /\ sched' \in [Laters -> {"none", "armed", "looked", "watched", "gone"}]
         /\ due' \subseteq Laters /\ canceled' \subseteq Laters
         /\ looking' \in Laters \cup {NoMsg} /\ polled' \subseteq Laters
         /\ mailbox' \in Seq(Mail) /\ alive' \in BOOLEAN
         /\ woken' \in BOOLEAN /\ rx_listening' \in BOOLEAN /\ rx_closed' \in BOOLEAN
  <1>1. sched' \in [Laters -> {"none", "armed", "looked", "watched", "gone"}]
    BY DEF TypeOK, Calls
  <1>2. woken' \in BOOLEAN /\ rx_listening' \in BOOLEAN /\ rx_closed' \in BOOLEAN
    BY NotifyTypes DEF TypeOK, Calls
  <1> QED
    BY <1>1, <1>2 DEF TypeOK, Calls

LEMMA PollHandlerTypes ==
  ASSUME TypeOK, NEW m \in Bodies, NEW ends \in BOOLEAN, PollHandler(m, ends)
  PROVE  /\ body' \in [Bodies -> {"new", "blocked", "ready", "done"}]
         /\ reply' \in [Mail -> {"unsent", "waiting", "ok", "closed", "refused"}]
         /\ abandoned' \subseteq Mail
         /\ ctx_state' \in {"Running", "Stop", "StopGraceful"}
         /\ sched' \in [Laters -> {"none", "armed", "looked", "watched", "gone"}]
         /\ due' \subseteq Laters /\ canceled' \subseteq Laters
         /\ looking' \in Laters \cup {NoMsg} /\ polled' \subseteq Laters
         /\ mailbox' \in Seq(Mail) /\ alive' \in BOOLEAN
         /\ woken' \in BOOLEAN /\ rx_listening' \in BOOLEAN /\ rx_closed' \in BOOLEAN
  <1>1. /\ body' \in [Bodies -> {"new", "blocked", "ready", "done"}]
        /\ reply' \in [Mail -> {"unsent", "waiting", "ok", "closed", "refused"}]
        /\ abandoned' \subseteq Mail
    BY DEF TypeOK, PollHandler, Finish, answers
  <1>2. ctx_state' \in {"Running", "Stop", "StopGraceful"}
    BY DEF TypeOK, PollHandler
  <1>3. (\E stops \in StopChoices : Calls(stops)) \/ UNCHANGED <<woken, mail, later>>
    BY DEF PollHandler
  <1>4. CASE \E stops \in StopChoices : Calls(stops)
    BY <1>1, <1>2, <1>4, CallsTypes
  <1>5. CASE UNCHANGED <<woken, mail, later>>
    BY <1>1, <1>2, <1>5 DEF TypeOK, mail, later
  <1> QED
    BY <1>3, <1>4, <1>5

LEMMA AppendType ==
  ASSUME NEW S, NEW q \in Seq(S), NEW x \in S
  PROVE  Append(q, x) \in Seq(S)
  OBVIOUS

LEMMA HandleTypes ==
  ASSUME TypeOK, NEW m \in Mail \cup Laters, Handle(m),
         UNCHANGED <<rx_closed, rx_listening, alive, due>>, woken' \in BOOLEAN,
         canceled' \subseteq Laters, looking' \in Laters \cup {NoMsg}, polled' \subseteq Laters,
         mailbox' \in Seq(Mail),
         sched' \in [Laters -> {"none", "armed", "looked", "watched", "gone"}]
  PROVE  TypeOK'
  <1>1. /\ act' = "loop" /\ tasks' \subseteq Refs /\ wake_queue' \in Seq(Refs)
        /\ task_mut' \in Muts \cup {NoMsg} /\ notify' \in Stops \cup {NoMsg}
        /\ ctx_state' \in {"Running", "Stop", "StopGraceful"}
    <2>1. CASE m \in Refs
      <3>1. tasks' = tasks \cup {m} /\ wake_queue' = Append(wake_queue, m)
            /\ act' = "loop" /\ UNCHANGED <<task_mut, ctx_state, notify>>
        BY <2>1, Kinds DEF Handle
      <3>2. wake_queue \in Seq(Refs)
        BY DEF TypeOK
      <3> QED
        BY <2>1, <3>1, <3>2, AppendType DEF TypeOK
    <2>2. CASE m \in Muts
      BY <2>2, Kinds DEF TypeOK, Handle
    <2>3. CASE m \in Stops
      BY <2>3, Kinds DEF TypeOK, Handle
    <2> QED
      BY <2>1, <2>2, <2>3 DEF Handle
  <1>2. UNCHANGED <<parked, exclusive, select, waking, answers>>
    BY DEF Handle
  <1>3. waking' = waking /\ body' = body /\ reply' = reply /\ abandoned' = abandoned
        /\ parked' = parked /\ exclusive' = exclusive
        /\ rx_arm' = rx_arm /\ left' = left /\ draining' = draining
    BY <1>2 DEF select, answers
  <1>4. {parked, woken, rx_closed, rx_listening, alive, rx_arm, draining}' \subseteq BOOLEAN
    BY <1>3 DEF TypeOK
  <1> QED
    BY <1>1, <1>3, <1>4 DEF TypeOK

-----------------------------------------------------------------------------
LEMMA InitTypeOK == Init => TypeOK
  <1> SUFFICES ASSUME Init PROVE TypeOK
    OBVIOUS
  <1>1. mailbox \in Seq(Mail) /\ wake_queue \in Seq(Refs)
    BY DEF Init
  <1>2. /\ waking \in [Refs -> {"no", "called", "locked", "pushed"}]
        /\ body \in [Bodies -> {"new", "blocked", "ready", "done"}]
        /\ reply \in [Mail -> {"unsent", "waiting", "ok", "closed", "refused"}]
        /\ sched \in [Laters -> {"none", "armed", "looked", "watched", "gone"}]
    BY DEF Init
  <1> QED
    BY <1>1, <1>2 DEF Init, TypeOK

(* The actions of those outside the actor.                                  *)
LEMMA EnvironmentTypeOK == TypeOK /\ Environment => TypeOK'
  <1> SUFFICES ASSUME TypeOK, Environment PROVE TypeOK'
    OBVIOUS
  <1> USE DEF work, select, mail, wakes, answers, later
  <1>1. ASSUME NEW m \in Mail, Send(m) PROVE TypeOK'
    <2>1. woken' \in BOOLEAN /\ rx_listening' \in BOOLEAN
      BY <1>1, NotifyTypes DEF Send, TypeOK
    <2>2. mailbox' \in Seq(Mail)
      <3>1. mailbox' = mailbox \/ mailbox' = Append(mailbox, m)
        BY <1>1 DEF Send
      <3>2. mailbox \in Seq(Mail)
        BY DEF TypeOK
      <3> QED
        BY <1>1, <3>1, <3>2, AppendType
    <2>3. reply' \in [Mail -> {"unsent", "waiting", "ok", "closed", "refused"}]
      BY <1>1 DEF Send, TypeOK
    <2>4. UNCHANGED <<act, parked, ctx_state, work, select, rx_closed, alive, wakes, body, abandoned, later>>
      BY <1>1 DEF Send
    <2> QED
      BY <2>1, <2>2, <2>3, <2>4 DEF TypeOK
  <1>2. ASSUME NEW m \in Mail, Abandon(m) PROVE TypeOK'
    BY <1>2 DEF Abandon, TypeOK
  <1>3. CASE DropAddrs
    <2>1. woken' \in BOOLEAN /\ rx_listening' \in BOOLEAN
      BY <1>3, NotifyTypes DEF DropAddrs
    <2>2. /\ alive' = FALSE /\ rx_closed' = TRUE
          /\ UNCHANGED <<act, parked, ctx_state, work, select, mailbox, wakes, answers, later>>
      BY <1>3 DEF DropAddrs
    <2>3. {parked, woken, rx_closed, rx_listening, alive, rx_arm, draining}' \subseteq BOOLEAN
      BY <2>1, <2>2 DEF TypeOK
    <2> QED
      BY <2>2, <2>3 DEF TypeOK
  <1>4. CASE FreeChannel
    BY <1>4, ClosedTypes DEF FreeChannel, TypeOK
  <1>5. ASSUME NEW m \in Bodies, Event(m) PROVE TypeOK'
    BY <1>5 DEF Event, TypeOK
  <1>6. ASSUME NEW m \in Refs, SpuriousWake(m) \/ WakeLock(m) \/ WakePush(m) \/ WakeFuture(m)
        PROVE  TypeOK'
    <2>1. /\ waking' \in [Refs -> {"no", "called", "locked", "pushed"}]
          /\ woken' \in BOOLEAN /\ wake_queue' \in Seq(Refs)
          /\ UNCHANGED <<act, parked, ctx_state, work, select, mail, answers, later>>
      <3>1. CASE SpuriousWake(m)  BY <3>1 DEF SpuriousWake, TypeOK
      <3>2. CASE WakeLock(m)      BY <3>2 DEF WakeLock, TypeOK
      <3>3. CASE WakePush(m)      BY <3>3, AppendType DEF WakePush, TypeOK
      <3>4. CASE WakeFuture(m)    BY <3>4 DEF WakeFuture, TypeOK
      <3> QED                     BY <1>6, <3>1, <3>2, <3>3, <3>4
    <2> QED
      BY <2>1 DEF TypeOK
  <1>7. ASSUME NEW t \in Laters, Fire(t) \/ Cancel(t) PROVE TypeOK'
    BY <1>7 DEF Fire, Cancel, TypeOK
  <1> QED
    BY <1>1, <1>2, <1>3, <1>4, <1>5, <1>6, <1>7 DEF Environment

(* The actions of run() at the head of the loop and in the mailbox arm.     *)
LEMMA LoopTypeOK ==
  ASSUME TypeOK,
         \/ OnStart \/ LoopGraceful \/ LoopStop \/ LoopExclusive \/ LoopSelect
         \/ RxMessage \/ RxClosed \/ RxPending
  PROVE  TypeOK'
  <1> USE DEF work, select, mail, wakes, answers, later
  <1>1. CASE OnStart
    BY <1>1, CallsTypes DEF OnStart, TypeOK
  <1>2. CASE LoopGraceful
    BY <1>2 DEF LoopGraceful, TypeOK
  <1>3. CASE LoopStop
    BY <1>3, ClosedTypes DEF LoopStop, TypeOK
  <1>4. CASE LoopExclusive
    BY <1>4 DEF LoopExclusive, TypeOK
  <1>5. CASE LoopSelect
    <2>1. rx_arm' \in BOOLEAN
      BY <1>5 DEF LoopSelect
    <2> QED
      BY <1>5, <2>1 DEF LoopSelect, TypeOK
  <1>6. CASE RxMessage
    <2>1. Head(mailbox) \in Mail /\ Tail(mailbox) \in Seq(Mail)
      BY <1>6 DEF RxMessage, TypeOK
    <2> QED
      BY <1>6, <2>1, HandleTypes DEF RxMessage, TypeOK
  <1>7. CASE RxClosed
    BY <1>7 DEF RxClosed, TypeOK
  <1>8. CASE RxPending
    BY <1>8 DEF RxPending, TypeOK
  <1> QED
    BY <1>1, <1>2, <1>3, <1>4, <1>5, <1>6, <1>7, <1>8

(* The tasks.                                                               *)
LEMMA TasksTypeOK ==
  ASSUME TypeOK,
         \/ PollTask \/ (\E m \in Refs : RunTask(m)) \/ RunStale \/ TasksYield \/ TasksPending
  PROVE  TypeOK'
  <1> USE DEF work, select, mail, wakes, answers, later
  <1>1. CASE PollTask
    <2>1. IsFiniteSet(tasks)
      BY RefsAssumption, FS_Subset DEF TypeOK
    <2>2. Cardinality(tasks) \in Nat
      BY <2>1, FS_CardinalityType
    <2> QED
      BY <1>1, <2>2 DEF PollTask, TypeOK
  <1>2. ASSUME TaskPop PROVE left' \in Nat /\ wake_queue' \in Seq(Refs)
    BY <1>2 DEF TaskPop, TypeOK
  <1>3. ASSUME NEW m \in Refs, RunTask(m) PROVE TypeOK'
    <2>1. PICK ends \in BOOLEAN : PollHandler(m, ends) /\ tasks' = IF ends THEN tasks \ {m} ELSE tasks
      BY <1>3 DEF RunTask
    <2>2. m \in Bodies /\ tasks' \subseteq Refs
      BY <2>1, Kinds DEF TypeOK
    <2> QED
      BY <1>2, <1>3, <2>1, <2>2, PollHandlerTypes DEF RunTask, TaskPop, TypeOK
  <1>4. CASE RunStale
    BY <1>2, <1>4 DEF RunStale, TaskPop, TypeOK
  <1>5. CASE TasksYield
    BY <1>5 DEF TasksYield, TypeOK
  <1>6. CASE TasksPending
    BY <1>6 DEF TasksPending, TypeOK
  <1> QED
    BY <1>1, <1>3, <1>4, <1>5, <1>6

(* Streams and timers.                                                      *)
LEMMA LaterTypeOK ==
  ASSUME TypeOK, PollStream \/ PollFuture
  PROVE  TypeOK'
  <1> USE DEF work, select, mail, wakes, answers, later
  <1>1. ASSUME NEW S \in SUBSET Laters, LookLater(S) PROVE TypeOK'
    BY <1>1 DEF LookLater, Unpolled, TypeOK
  <1>2. ASSUME NEW S \in SUBSET Laters, TakeLater(S) PROVE TypeOK'
    <2>1. looking \in Laters /\ Again(looking) \subseteq Laters
      BY <1>2 DEF TakeLater, Again, Laters
    <2>2. /\ sched' \in [Laters -> {"none", "armed", "looked", "watched", "gone"}]
          /\ woken' \in BOOLEAN /\ canceled' \subseteq Laters
          /\ looking' \in Laters \cup {NoMsg} /\ polled' \subseteq Laters
      BY <1>2, <2>1 DEF TakeLater, TypeOK
    <2>3. Handle(looking) /\ UNCHANGED <<mail, due>>
      BY <1>2 DEF TakeLater
    <2> QED
      BY <2>1, <2>2, <2>3, HandleTypes DEF TypeOK
  <1>3. ASSUME NEW S \in SUBSET Laters, LaterPending(S) PROVE TypeOK'
    BY <1>3 DEF LaterPending, TypeOK
  <1>4. ASSUME NEW S, PassDone(S), act' \in {"poll_future", "poll_rx"}, parked' \in BOOLEAN
        PROVE  TypeOK'
    BY <1>4 DEF PassDone, TypeOK
  <1>5. Streamed \subseteq Laters /\ Timers \subseteq Laters
    BY DEF Laters
  <1>6. CASE PollStream
    BY <1>1, <1>2, <1>3, <1>4, <1>5, <1>6 DEF PollStream, TypeOK
  <1>7. CASE PollFuture
    BY <1>1, <1>2, <1>3, <1>4, <1>5, <1>7 DEF PollFuture
  <1> QED
    BY <1>6, <1>7

(* Exclusive messages and the end of run().                                 *)
LEMMA EndTypeOK ==
  ASSUME TypeOK, RunExclusive \/ End \/ OnStop \/ Acknowledge \/ DropFuture \/ Poll
  PROVE  TypeOK'
  <1> USE DEF work, select, mail, wakes, answers, later
  <1>1. CASE RunExclusive
    <2>1. PICK ends \in BOOLEAN :
             /\ PollHandler(exclusive, ends)
             /\ parked' = ~ends
             /\ IF ends THEN exclusive' = NoMsg /\ act' = IF draining THEN "on_stop" ELSE "loop"
                        ELSE UNCHANGED <<exclusive, act>>
      BY <1>1 DEF RunExclusive
    <2>2. exclusive \in Bodies
      BY <1>1, Kinds DEF RunExclusive, At, TypeOK
    <2> QED
      BY <1>1, <2>1, <2>2, PollHandlerTypes DEF RunExclusive, TypeOK
  <1>2. CASE End
    BY <1>2 DEF End, TypeOK
  <1>3. CASE OnStop
    BY <1>3, CallsTypes DEF OnStop, TypeOK
  <1>4. CASE Acknowledge
    BY <1>4 DEF Acknowledge, TypeOK
  <1>5. CASE DropFuture
    BY <1>5, ClosedTypes DEF DropFuture, TypeOK
  <1>6. CASE Poll
    BY <1>6 DEF Poll, TypeOK
  <1> QED
    BY <1>1, <1>2, <1>3, <1>4, <1>5, <1>6

LEMMA NextTypeOK == TypeOK /\ [Next]_vars => TypeOK'
  <1>1. TypeOK /\ UNCHANGED vars => TypeOK'
    BY DEF TypeOK, vars, work, select, mail, wakes, answers, later
  <1> QED
    BY <1>1, EnvironmentTypeOK, LoopTypeOK, TasksTypeOK, LaterTypeOK, EndTypeOK DEF Next, Run

(* The state of the actor keeps its types; in particular the count of polls *)
(* left to poll_task never goes below zero.                                 *)
THEOREM TypeCorrect == Spec => []TypeOK
  BY InitTypeOK, NextTypeOK, PTL DEF Spec

-----------------------------------------------------------------------------
(* The invariant behind the order of messages.  An exclusive message is the *)
(* business of one place of run(), which is reached without tasks; within   *)
(* one select the mailbox arm, once there, keeps its reasons, since tasks   *)
(* only end there; what is still scheduled is not taken yet; and what a     *)
(* pass looks at is scheduled.                                              *)
Selecting == {"poll_rx", "poll_task", "run_tasks", "poll_stream", "poll_future"}
Draining  == {"resolve", "run_tasks", "end", "exclusive", "on_stop", "ack", "drop", "gone"}

ExclusivePlace == exclusive # NoMsg => act = "exclusive"
EndsAlone      == act = "end" => tasks = {}
DrainingPlaces == (draining => act \in Draining) /\ (act = "resolve" => draining)
ArmHolds       == act \in Selecting /\ ~draining /\ rx_arm =>
                      task_mut = NoMsg /\ Cardinality(tasks) < SizeHint
NotTaken       == \A t \in Laters : sched[t] # "gone" => t \notin tasks /\ t # task_mut
LooksScheduled == looking # NoMsg => Scheduled(looking)

OrderInv == /\ TypeOK
            /\ ExclusiveAlone /\ ExclusivePlace /\ EndsAlone
            /\ DrainingPlaces /\ ArmHolds /\ MailTasksBounded /\ NotTaken /\ LooksScheduled

(* Lemmas: a step that ends tasks keeps the bounds on their number, a step  *)
(* of user code schedules only what was not taken, and a step that leaves   *)
(* the loop alone keeps the invariant.                                      *)
LEMMA FewerTasks ==
  ASSUME TypeOK, tasks' \subseteq tasks
  PROVE  /\ Cardinality(tasks') <= Cardinality(tasks)
         /\ Cardinality(tasks' \ Laters) <= Cardinality(tasks \ Laters)
         /\ Cardinality(tasks) \in Nat /\ Cardinality(tasks \ Laters) \in Nat
         /\ Cardinality(tasks') \in Nat /\ Cardinality(tasks' \ Laters) \in Nat
  <1>1. IsFiniteSet(tasks) /\ IsFiniteSet(tasks \ Laters)
    BY RefsAssumption, FS_Subset DEF TypeOK
  <1>2. IsFiniteSet(tasks') /\ IsFiniteSet(tasks' \ Laters) /\ tasks' \ Laters \subseteq tasks \ Laters
    BY <1>1, FS_Subset
  <1> QED
    BY <1>1, <1>2, FS_Subset, FS_CardinalityType

LEMMA FewerTasksBounded ==
  ASSUME OrderInv, tasks' \subseteq tasks
  PROVE  /\ MailTasksBounded'
         /\ Cardinality(tasks) < SizeHint => Cardinality(tasks') < SizeHint
  BY FewerTasks, SizeHintAssumption DEF OrderInv, MailTasksBounded

LEMMA CallsSchedule ==
  ASSUME TypeOK, (\E stops \in StopChoices : Calls(stops)) \/ UNCHANGED <<woken, mail, later>>
  PROVE  /\ \A t \in Laters : sched'[t] # "gone" => sched[t] # "gone"
         /\ LooksScheduled => LooksScheduled'
  BY DEF TypeOK, Calls, later, LooksScheduled, Scheduled, First

LEMMA LoopAlone ==
  ASSUME OrderInv, TypeOK', UNCHANGED <<act, exclusive, task_mut, tasks, draining, rx_arm, sched, looking>>
  PROVE  OrderInv'
  BY DEF OrderInv, ExclusiveAlone, ExclusivePlace, EndsAlone, DrainingPlaces, ArmHolds,
         MailTasksBounded, NotTaken, LooksScheduled, Scheduled

LEMMA InitOrder == Init => OrderInv
  <1> SUFFICES ASSUME Init PROVE OrderInv
    OBVIOUS
  <1>1. MailTasksBounded
    <2>1. tasks \ Laters = {}
      BY DEF Init
    <2> QED
      BY <2>1, FS_EmptySet, SizeHintAssumption DEF MailTasksBounded
  <1>2. ExclusiveAlone /\ ExclusivePlace /\ EndsAlone /\ DrainingPlaces /\ ArmHolds
    BY DEF Init, ExclusiveAlone, ExclusivePlace, EndsAlone, DrainingPlaces, ArmHolds
  <1>3. NotTaken /\ LooksScheduled
    BY KindsAssumption DEF Init, NotTaken, LooksScheduled, Laters, Bodies
  <1> QED
    BY <1>1, <1>2, <1>3, InitTypeOK DEF OrderInv

LEMMA LoopUntouched ==
  ASSUME Environment \/ Poll \/ UNCHANGED vars
  PROVE  UNCHANGED <<act, exclusive, task_mut, tasks, draining, rx_arm, sched, looking, notify>>
  <1> USE DEF work, select, mail, wakes, answers, later
  <1> DEFINE Same == UNCHANGED <<act, exclusive, task_mut, tasks, draining, rx_arm, sched, looking, notify>>
  <1>1. ASSUME NEW m \in Mail, Send(m) \/ Abandon(m) PROVE Same
    BY <1>1 DEF Send, Abandon
  <1>2. ASSUME DropAddrs \/ FreeChannel \/ Poll PROVE Same
    BY <1>2 DEF DropAddrs, FreeChannel, Poll
  <1>3. ASSUME NEW m \in Bodies, Event(m) PROVE Same
    BY <1>3 DEF Event
  <1>4. ASSUME NEW m \in Refs, SpuriousWake(m) \/ WakeLock(m) \/ WakePush(m) \/ WakeFuture(m)
        PROVE  Same
    BY <1>4 DEF SpuriousWake, WakeLock, WakePush, WakeFuture
  <1>5. ASSUME NEW t \in Laters, Fire(t) \/ Cancel(t) PROVE Same
    BY <1>5 DEF Fire, Cancel
  <1>6. ASSUME UNCHANGED vars PROVE Same
    BY <1>6 DEF vars
  <1> QED
    BY <1>1, <1>2, <1>3, <1>4, <1>5, <1>6 DEF Environment

LEMMA EnvironmentOrder ==
  ASSUME OrderInv, TypeOK', Environment \/ Poll \/ UNCHANGED vars
  PROVE  OrderInv'
  BY LoopUntouched, LoopAlone

(* Taking a message: the mailbox gives one only while there is room.        *)
LEMMA HandleOrder ==
  ASSUME OrderInv, TypeOK', NEW m \in Mail \cup Laters, Handle(m),
         act \in {"poll_rx", "poll_stream", "poll_future"}, task_mut = NoMsg,
         m \in Mail => Cardinality(tasks) < SizeHint,
         \A t \in Laters : sched'[t] # "gone" => sched[t] # "gone" /\ t # m,
         LooksScheduled'
  PROVE  OrderInv'
  <1>1. act' = "loop" /\ exclusive' = exclusive /\ draining' = draining /\ rx_arm' = rx_arm
    BY DEF Handle, select
  <1>2. exclusive' = NoMsg /\ ~draining'
    BY <1>1 DEF OrderInv, ExclusivePlace, DrainingPlaces, Draining
  <1>3. tasks' \subseteq tasks \cup {m} /\ task_mut' \in {NoMsg, m}
    BY DEF Handle
  <1>4. NotTaken'
    BY <1>3, Kinds DEF OrderInv, NotTaken
  <1>5. MailTasksBounded'
    <2>1. CASE tasks' \subseteq tasks
      BY <2>1, FewerTasksBounded
    <2>2. CASE tasks' = tasks \cup {m} /\ m \in Laters
      <3>1. tasks' \ Laters = tasks \ Laters
        BY <2>2
      <3> QED
        BY <3>1 DEF OrderInv, MailTasksBounded
    <2>3. CASE tasks' = tasks \cup {m} /\ m \notin Laters
      <3>1. Cardinality(tasks) < SizeHint /\ Cardinality(tasks) \in Nat
        BY <2>3, FS_Subset, FS_CardinalityType, RefsAssumption DEF OrderInv, TypeOK
      <3>2. IsFiniteSet(tasks) /\ IsFiniteSet(tasks')
        BY FS_Subset, RefsAssumption DEF OrderInv, TypeOK
      <3>3. Cardinality(tasks') <= Cardinality(tasks) + 1
        BY <2>3, <3>1, <3>2, FS_AddElement
      <3>4. Cardinality(tasks' \ Laters) <= Cardinality(tasks')
        BY <3>2, FS_Subset
      <3>5. Cardinality(tasks') \in Nat /\ Cardinality(tasks' \ Laters) \in Nat
        BY <3>2, FS_Subset, FS_CardinalityType
      <3> QED
        BY <3>1, <3>3, <3>4, <3>5, SizeHintAssumption DEF MailTasksBounded
    <2> QED
      BY <2>1, <2>2, <2>3 DEF Handle
  <1> QED
    BY <1>1, <1>2, <1>4, <1>5
       DEF OrderInv, ExclusiveAlone, ExclusivePlace, EndsAlone, DrainingPlaces, ArmHolds, Selecting

LEMMA LoopOrder ==
  ASSUME OrderInv, TypeOK',
         \/ OnStart \/ LoopGraceful \/ LoopStop \/ LoopExclusive \/ LoopSelect
         \/ RxMessage \/ RxClosed \/ RxPending
  PROVE  OrderInv'
  <1> USE DEF work, select, mail, wakes, answers, later, At
  <1> USE DEF OrderInv, ExclusiveAlone, ExclusivePlace, EndsAlone, DrainingPlaces, Draining,
              ArmHolds, Selecting
  <1>0. /\ tasks' = tasks => MailTasksBounded'
        /\ UNCHANGED <<tasks, task_mut, sched>> => NotTaken'
        /\ UNCHANGED <<sched, looking>> => LooksScheduled'
    BY DEF MailTasksBounded, NotTaken, LooksScheduled, Scheduled
  <1>1. CASE OnStart
    <2>1. NotTaken' /\ LooksScheduled'
      BY <1>1, CallsSchedule DEF OnStart, NotTaken
    <2> QED
      BY <1>0, <1>1, <2>1 DEF OnStart
  <1>2. CASE LoopGraceful
    BY <1>0, <1>2 DEF LoopGraceful
  <1>3. CASE LoopStop
    <2>1. MailTasksBounded' /\ NotTaken'
      BY <1>3, FewerTasksBounded DEF LoopStop, NotTaken
    <2> QED
      BY <1>0, <1>3, <2>1 DEF LoopStop
  <1>4. CASE LoopExclusive
    <2>1. NotTaken'
      BY <1>4, Kinds DEF LoopExclusive, NotTaken
    <2> QED
      BY <1>0, <1>4, <2>1 DEF LoopExclusive
  <1>5. CASE LoopSelect
    BY <1>0, <1>5 DEF LoopSelect
  <1>6. CASE RxMessage
    <2>1. Head(mailbox) \in Mail
      BY <1>6 DEF RxMessage, TypeOK
    <2>2. task_mut = NoMsg /\ Cardinality(tasks) < SizeHint
      BY <1>6 DEF RxMessage
    <2>3. /\ \A t \in Laters : sched'[t] # "gone" => sched[t] # "gone" /\ t # Head(mailbox)
          /\ LooksScheduled'
      BY <1>0, <1>6, <2>1, Kinds DEF RxMessage
    <2> QED
      BY <1>6, <2>1, <2>2, <2>3, HandleOrder DEF RxMessage
  <1>7. CASE RxClosed
    BY <1>0, <1>7 DEF RxClosed
  <1>8. CASE RxPending
    BY <1>0, <1>8 DEF RxPending
  <1> QED
    BY <1>1, <1>2, <1>3, <1>4, <1>5, <1>6, <1>7, <1>8

LEMMA TasksOrder ==
  ASSUME OrderInv, TypeOK',
         \/ PollTask \/ (\E m \in Refs : RunTask(m)) \/ RunStale \/ TasksYield \/ TasksPending
  PROVE  OrderInv'
  <1> USE DEF work, select, mail, wakes, answers, later, At
  <1> USE DEF OrderInv, ExclusiveAlone, ExclusivePlace, EndsAlone, DrainingPlaces, Draining,
              ArmHolds, Selecting
  <1>0. /\ tasks' = tasks => MailTasksBounded'
        /\ UNCHANGED <<tasks, task_mut, sched>> => NotTaken'
        /\ UNCHANGED <<sched, looking>> => LooksScheduled'
    BY DEF MailTasksBounded, NotTaken, LooksScheduled, Scheduled
  <1>1. CASE PollTask
    BY <1>0, <1>1 DEF PollTask
  <1>2. ASSUME NEW m \in Refs, RunTask(m) PROVE OrderInv'
    <2>1. PICK ends \in BOOLEAN : PollHandler(m, ends) /\ tasks' = IF ends THEN tasks \ {m} ELSE tasks
      BY <1>2 DEF RunTask
    <2>2. tasks' \subseteq tasks
      BY <2>1
    <2>3. (\A t \in Laters : sched'[t] # "gone" => sched[t] # "gone") /\ LooksScheduled'
      <3>1. (\E stops \in StopChoices : Calls(stops)) \/ UNCHANGED <<woken, mail, later>>
        BY <2>1 DEF PollHandler
      <3> QED
        BY <3>1, CallsSchedule
    <2>4. UNCHANGED <<act, exclusive, task_mut, draining, rx_arm>> /\ act = "run_tasks"
      BY <1>2 DEF RunTask, TaskPop
    <2>5. NotTaken'
      BY <2>2, <2>3, <2>4 DEF NotTaken
    <2>6. MailTasksBounded' /\ (Cardinality(tasks) < SizeHint => Cardinality(tasks') < SizeHint)
      BY <2>2, FewerTasksBounded
    <2>7. ExclusiveAlone' /\ ExclusivePlace' /\ EndsAlone' /\ DrainingPlaces'
      BY <2>2, <2>4
    <2>8. ArmHolds'
      BY <2>4, <2>6
    <2> QED
      BY <2>3, <2>5, <2>6, <2>7, <2>8
  <1>3. CASE RunStale
    BY <1>0, <1>3 DEF RunStale, TaskPop
  <1>4. CASE TasksYield
    BY <1>0, <1>4 DEF TasksYield
  <1>5. CASE TasksPending
    BY <1>0, <1>5 DEF TasksPending
  <1> QED
    BY <1>1, <1>2, <1>3, <1>4, <1>5

LEMMA LaterOrder ==
  ASSUME OrderInv, TypeOK', PollStream \/ PollFuture
  PROVE  OrderInv'
  <1> USE DEF work, select, mail, wakes, answers, later, At
  <1>0. act \in {"poll_stream", "poll_future"}
    BY DEF PollStream, PollFuture
  <1>1. ASSUME NEW S \in SUBSET Laters, LookLater(S) \/ LaterPending(S) PROVE OrderInv'
    <2>1. UNCHANGED <<act, exclusive, task_mut, tasks, draining, rx_arm>>
      BY <1>1 DEF LookLater, LaterPending
    <2>2. \A t \in Laters : sched'[t] # "gone" => sched[t] # "gone"
      <3>1. CASE LookLater(S)
        BY <3>1 DEF LookLater, Unpolled, Scheduled, OrderInv, TypeOK
      <3>2. CASE LaterPending(S)
        BY <3>2, Kinds DEF LaterPending, OrderInv, TypeOK, LooksScheduled, Scheduled
      <3> QED
        BY <1>1, <3>1, <3>2
    <2>3. LooksScheduled'
      <3>1. CASE LookLater(S)
        BY <3>1, Kinds DEF LookLater, Unpolled, Scheduled, OrderInv, TypeOK, LooksScheduled
      <3>2. CASE LaterPending(S)
        BY <3>2 DEF LaterPending, LooksScheduled
      <3> QED
        BY <1>1, <3>1, <3>2
    <2> QED
      BY <2>1, <2>2, <2>3 DEF OrderInv, ExclusiveAlone, ExclusivePlace, EndsAlone, DrainingPlaces,
                              ArmHolds, MailTasksBounded, NotTaken
  <1>2. ASSUME NEW S \in SUBSET Laters, TakeLater(S) PROVE OrderInv'
    <2>1. looking \in Laters /\ looking \notin Mail /\ task_mut = NoMsg /\ Handle(looking)
      BY <1>2, Kinds DEF TakeLater
    <2>2. \A u \in Laters : sched'[u] # "gone" => sched[u] # "gone" /\ u # looking
      BY <1>2 DEF TakeLater, Again
    <2>3. LooksScheduled'
      BY <1>2 DEF TakeLater, LooksScheduled
    <2> QED
      BY <1>0, <2>1, <2>2, <2>3, HandleOrder
  <1>3. ASSUME NEW S, PassDone(S), act' \in {"poll_future", "poll_rx"}
        PROVE  OrderInv'
    <2>1. UNCHANGED <<exclusive, task_mut, tasks, draining, rx_arm, sched, looking>>
      BY <1>3 DEF PassDone
    <2> QED
      BY <1>0, <1>3, <2>1
         DEF OrderInv, ExclusiveAlone, ExclusivePlace, EndsAlone, DrainingPlaces, Draining,
             ArmHolds, Selecting, MailTasksBounded, NotTaken, LooksScheduled, Scheduled
  <1>4. Streamed \subseteq Laters /\ Timers \subseteq Laters
    BY DEF Laters
  <1>5. CASE PollStream
    BY <1>1, <1>2, <1>3, <1>4, <1>5 DEF PollStream
  <1>6. CASE PollFuture
    BY <1>1, <1>2, <1>3, <1>4, <1>6 DEF PollFuture
  <1> QED
    BY <1>5, <1>6

LEMMA EndOrder ==
  ASSUME OrderInv, TypeOK', RunExclusive \/ End \/ OnStop \/ Acknowledge \/ DropFuture
  PROVE  OrderInv'
  <1> USE DEF work, select, mail, wakes, answers, later, At
  <1> USE DEF OrderInv, ExclusiveAlone, ExclusivePlace, EndsAlone, DrainingPlaces, Draining,
              ArmHolds, Selecting
  <1>0. /\ tasks' = tasks => MailTasksBounded'
        /\ UNCHANGED <<tasks, task_mut, sched>> => NotTaken'
        /\ UNCHANGED <<sched, looking>> => LooksScheduled'
    BY DEF MailTasksBounded, NotTaken, LooksScheduled, Scheduled
  <1>1. CASE RunExclusive
    <2>1. PICK ends \in BOOLEAN :
             /\ PollHandler(exclusive, ends)
             /\ IF ends THEN exclusive' = NoMsg /\ act' = IF draining THEN "on_stop" ELSE "loop"
                        ELSE UNCHANGED <<exclusive, act>>
      BY <1>1 DEF RunExclusive
    <2>2. (\A t \in Laters : sched'[t] # "gone" => sched[t] # "gone") /\ LooksScheduled'
      <3>1. (\E stops \in StopChoices : Calls(stops)) \/ UNCHANGED <<woken, mail, later>>
        BY <2>1 DEF PollHandler
      <3> QED
        BY <3>1, CallsSchedule
    <2>3. UNCHANGED <<task_mut, tasks, draining, rx_arm>> /\ act = "exclusive"
      BY <1>1 DEF RunExclusive
    <2>4. NotTaken'
      BY <2>2, <2>3 DEF NotTaken
    <2> QED
      BY <1>0, <2>1, <2>2, <2>3, <2>4
  <1>2. CASE End
    <2>1. NotTaken'
      BY <1>2, Kinds DEF End, NotTaken
    <2> QED
      BY <1>0, <1>2, <2>1 DEF End
  <1>3. CASE OnStop
    <2>1. NotTaken' /\ LooksScheduled'
      BY <1>3, CallsSchedule DEF OnStop, NotTaken
    <2> QED
      BY <1>0, <1>3, <2>1 DEF OnStop
  <1>4. CASE Acknowledge
    BY <1>0, <1>4 DEF Acknowledge
  <1>5. CASE DropFuture
    <2>1. tasks' = {} /\ NotTaken' /\ LooksScheduled'
      BY <1>5 DEF DropFuture, NotTaken, LooksScheduled
    <2>2. MailTasksBounded'
      BY <2>1, FewerTasksBounded
    <2> QED
      BY <1>5, <2>1, <2>2 DEF DropFuture
  <1> QED
    BY <1>1, <1>2, <1>3, <1>4, <1>5

LEMMA NextOrder == OrderInv /\ [Next]_vars => OrderInv'
  <1>1. TypeOK /\ [Next]_vars => TypeOK'
    BY NextTypeOK
  <1> QED
    BY <1>1, EnvironmentOrder, LoopOrder, TasksOrder, LaterOrder, EndOrder DEF Next, Run, OrderInv

LEMMA OrderInvariance == Spec => []OrderInv
  BY InitOrder, NextOrder, PTL DEF Spec

(* An exclusive message runs alone, in every order of messages, wakes and   *)
(* polls, and also after a graceful stop.                                   *)
THEOREM RunsAlone == Spec => []ExclusiveAlone
  <1>1. OrderInv => ExclusiveAlone
    BY DEF OrderInv
  <1> QED
    BY <1>1, OrderInvariance, PTL

(* The tasks of messages from the mailbox never exceed size_hint.           *)
THEOREM SizeHintKept == Spec => []MailTasksBounded
  <1>1. OrderInv => MailTasksBounded
    BY DEF OrderInv
  <1> QED
    BY <1>1, OrderInvariance, PTL

-----------------------------------------------------------------------------
(* What every step does while an exclusive message waits or runs, and to    *)
(* what was canceled: nothing is taken, or something else.                  *)
LEMMA HandleSteps ==
  ASSUME OrderInv, NEW m \in Mail \cup Laters, Handle(m),
         act \in {"poll_rx", "poll_stream", "poll_future"}, task_mut = NoMsg
  PROVE  /\ BarrierStep
         /\ \A t \in Laters : Scheduled(t) /\ t # m => t \notin tasks' /\ t # task_mut'
  <1>1. exclusive = NoMsg
    BY DEF OrderInv, ExclusivePlace
  <1>2. tasks' \subseteq tasks \cup {m} /\ task_mut' \in {NoMsg, m}
    BY DEF Handle
  <1>3. \A t \in Laters : Scheduled(t) /\ t # m => t \notin tasks' /\ t # task_mut'
    BY <1>2, Kinds DEF Scheduled, OrderInv, NotTaken, TypeOK
  <1> QED
    BY <1>1, <1>3 DEF BarrierStep

LEMMA TasksEnd ==
  ASSUME OrderInv, tasks' \subseteq tasks, task_mut' \in {task_mut, NoMsg},
         exclusive' \in {exclusive, task_mut, NoMsg}, notify' \in {notify, NoMsg}
  PROVE  /\ BarrierStep
         /\ \A t \in Laters : Scheduled(t) => t \notin tasks' /\ t # task_mut'
  BY Kinds DEF BarrierStep, Scheduled, OrderInv, NotTaken, TypeOK

(* A step that takes nothing: it looks at no canceled item, and what is     *)
(* looked at is not done with.                                              *)
LEMMA CanceledKept ==
  ASSUME OrderInv, tasks' \subseteq tasks, task_mut' \in {task_mut, NoMsg},
         exclusive' \in {exclusive, task_mut, NoMsg}, notify' \in {notify, NoMsg},
         looking' \in {looking, NoMsg} \/ looking' \notin canceled,
         act' = "gone" \/ \A t \in Laters : Scheduled(t) => sched'[t] # "gone" \/ looking = NoMsg
  PROVE  BarrierStep /\ CanceledStep
  <1>1. canceled \subseteq Laters /\ NoMsg \notin canceled
    BY Kinds DEF OrderInv, TypeOK
  <1>2. \A t \in canceled \ {looking} : looking' # t
    BY <1>1
  <1>3. looking \in canceled /\ act' # "gone" => sched'[looking] # "gone"
    BY <1>1 DEF OrderInv, LooksScheduled
  <1> QED
    BY <1>1, <1>2, <1>3, TasksEnd DEF CanceledStep

LEMMA EveryStep ==
  ASSUME OrderInv, [Next]_vars
  PROVE  BarrierStep /\ CanceledStep
  <1> USE DEF work, select, mail, wakes, answers, later, At
  <1> DEFINE Ends == /\ tasks' \subseteq tasks /\ task_mut' \in {task_mut, NoMsg}
                     /\ exclusive' \in {exclusive, task_mut, NoMsg}
                     /\ notify' \in {notify, NoMsg}
             Looks == /\ looking' \in {looking, NoMsg}
                      /\ act' = "gone" \/ \A t \in Laters : Scheduled(t) => sched'[t] # "gone"
  <1>0. ASSUME Calls(TRUE) \/ Calls(FALSE) \/ UNCHANGED later PROVE Looks
    BY <1>0 DEF Calls, Scheduled, First, OrderInv, TypeOK
  <1>1. CASE Environment \/ Poll \/ UNCHANGED vars
    <2>1. Ends /\ Looks
      BY <1>1, LoopUntouched DEF Scheduled
    <2> QED
      BY <2>1, CanceledKept
  <1>2. ASSUME \/ OnStart \/ LoopGraceful \/ LoopStop \/ LoopExclusive \/ LoopSelect
               \/ RxClosed \/ RxPending
        PROVE  Ends /\ Looks
    <2>1. Ends
      BY <1>2 DEF OnStart, LoopGraceful, LoopStop, LoopExclusive, LoopSelect, RxClosed, RxPending
    <2>2. Calls(TRUE) \/ Calls(FALSE) \/ UNCHANGED later
      BY <1>2 DEF OnStart, LoopGraceful, LoopStop, LoopExclusive, LoopSelect, RxClosed, RxPending,
                  StopChoices
    <2> QED
      BY <1>0, <2>1, <2>2
  <1>3. CASE RxMessage
    <2>1. Head(mailbox) \in Mail /\ task_mut = NoMsg
      BY <1>3 DEF RxMessage, OrderInv, TypeOK, ArmHolds, Selecting, DrainingPlaces, Draining
    <2>2. \A t \in canceled : t # Head(mailbox) /\ t \in Laters
      BY <2>1, Kinds DEF OrderInv, TypeOK
    <2>3. BarrierStep /\ \A t \in canceled : Scheduled(t) => t \notin tasks' /\ t # task_mut'
      BY <1>3, <2>1, <2>2, HandleSteps DEF RxMessage
    <2>4. UNCHANGED <<sched, looking>>
      BY <1>3 DEF RxMessage
    <2> QED
      BY <2>2, <2>3, <2>4, Kinds DEF CanceledStep, OrderInv, LooksScheduled, Scheduled
  <1>4. ASSUME PollTask \/ (\E m \in Refs : RunTask(m)) \/ RunStale \/ TasksYield \/ TasksPending
        PROVE  Ends /\ Looks
    <2>1. Ends
      BY <1>4 DEF PollTask, RunTask, RunStale, TaskPop, TasksYield, TasksPending
    <2>2. Calls(TRUE) \/ Calls(FALSE) \/ UNCHANGED later
      BY <1>4 DEF PollTask, RunTask, RunStale, TaskPop, TasksYield, TasksPending, PollHandler,
                  StopChoices
    <2> QED
      BY <1>0, <2>1, <2>2
  <1>5. CASE PollStream \/ PollFuture
    <2>1. act \in {"poll_stream", "poll_future"}
      BY <1>5 DEF PollStream, PollFuture
    <2>2. ASSUME NEW S \in SUBSET Laters, LookLater(S) PROVE BarrierStep /\ CanceledStep
      <3>1. Ends /\ looking = NoMsg /\ (looking' = looking \/ looking' \notin canceled)
        BY <2>2 DEF LookLater
      <3> QED
        BY <3>1, CanceledKept
    <2>3. ASSUME NEW S \in SUBSET Laters, LaterPending(S) PROVE Ends /\ Looks
      BY <2>3 DEF LaterPending, Scheduled, OrderInv, TypeOK
    <2>4. ASSUME NEW S, PassDone(S) PROVE Ends /\ Looks
      BY <2>4 DEF PassDone, Scheduled
    <2>5. ASSUME NEW S \in SUBSET Laters, TakeLater(S) PROVE BarrierStep /\ CanceledStep
      <3>1. looking \in Laters /\ task_mut = NoMsg /\ Handle(looking) /\ looking' = NoMsg
        BY <2>5 DEF TakeLater
      <3>2. BarrierStep /\ \A t \in Laters : Scheduled(t) /\ t # looking => t \notin tasks' /\ t # task_mut'
        BY <2>1, <3>1, HandleSteps
      <3>3. canceled \subseteq Laters /\ NoMsg \notin Laters
        BY Kinds DEF OrderInv, TypeOK
      <3>4. looking \in canceled => Again(looking) \subseteq canceled'
        BY <2>5 DEF TakeLater
      <3> QED
        BY <3>1, <3>2, <3>3, <3>4 DEF CanceledStep
    <2>6. Streamed \subseteq Laters /\ Timers \subseteq Laters
      BY DEF Laters
    <2>7. ASSUME Ends /\ Looks PROVE BarrierStep /\ CanceledStep
      BY <2>7, CanceledKept
    <2> QED
      BY <1>5, <2>2, <2>3, <2>4, <2>5, <2>6, <2>7 DEF PollStream, PollFuture
  <1>6. ASSUME RunExclusive \/ End \/ OnStop \/ Acknowledge
        PROVE  Ends /\ Looks
    <2>1. Ends
      BY <1>6 DEF RunExclusive, End, OnStop, Acknowledge
    <2>2. Calls(TRUE) \/ Calls(FALSE) \/ UNCHANGED later
      BY <1>6 DEF RunExclusive, End, OnStop, Acknowledge, PollHandler, StopChoices
    <2> QED
      BY <1>0, <2>1, <2>2
  <1>7. ASSUME DropFuture PROVE Ends /\ Looks
    BY <1>7 DEF DropFuture
  <1>8. ASSUME Ends /\ Looks PROVE BarrierStep /\ CanceledStep
    BY <1>8, CanceledKept
  <1> QED
    BY <1>1, <1>2, <1>3, <1>4, <1>5, <1>6, <1>7, <1>8 DEF Next, Run

(* An exclusive message is a barrier to every other message.                *)
THEOREM BarrierKept == Spec => Barrier
  <1>1. OrderInv /\ [Next]_vars => [BarrierStep]_vars
    BY EveryStep
  <1> QED
    BY <1>1, OrderInvariance, PTL DEF Spec, Barrier

(* What was canceled before the look at its handle is never taken.          *)
THEOREM CancelKept == Spec => CanceledNeverRuns
  <1>1. OrderInv /\ [Next]_vars => [CanceledStep]_vars
    BY EveryStep
  <1> QED
    BY <1>1, OrderInvariance, PTL DEF Spec, CanceledNeverRuns

-----------------------------------------------------------------------------
(* Nothing that arrives is overlooked.  From the mailbox arm of a poll to   *)
(* the next poll the receiver listens, or its future was woken since; who   *)
(* listens has seen an empty, open mailbox; and when the arms of streams    *)
(* and timers were passed, each item has the waker of the future.           *)
ParkedPlaces  == parked => act \in {"loop", "poll_rx", "resolve", "exclusive"}
ListenerQuiet == rx_listening => mailbox = <<>> /\ ~rx_closed
ArmListens ==
    /\ \/ act \in {"poll_task", "run_tasks", "poll_stream", "poll_future"} /\ ~draining
       \/ parked /\ act = "poll_rx"
    /\ rx_arm /\ ~woken
    => rx_listening
Awaited(t) == sched[t] \notin {"armed", "looked"} /\ (t \in due \cup canceled /\ ~woken => ~Scheduled(t))
StreamsAwaited == act = "poll_future" /\ task_mut = NoMsg => \A t \in Streamed : Awaited(t)
AllAwaited == parked /\ act = "poll_rx" /\ task_mut = NoMsg => \A t \in Laters : Awaited(t)

(* A pass belongs to one poll; what it has polled waits, and a cancel of    *)
(* what it looks at has woken the future.                                   *)
PassPlace     == looking # NoMsg \/ polled # {} => act \in {"poll_stream", "poll_future"} /\ ~parked
LookingWoken  == looking # NoMsg => sched[looking] # "armed" /\ (looking \in canceled => woken)
PolledAwaited == \A t \in polled : Awaited(t)
PassParts     == PassPlace /\ LookingWoken /\ PolledAwaited

InboxParts == ParkedPlaces /\ ListenerQuiet /\ ArmListens /\ StreamsAwaited /\ AllAwaited /\ PassParts
InboxInv   == OrderInv /\ InboxParts

LEMMA InboxKept ==
  ASSUME InboxInv, UNCHANGED <<mailbox, rx_closed, rx_listening>>,
         UNCHANGED <<act, parked, draining, rx_arm, task_mut, sched, due, canceled, looking, polled>>,
         woken => woken'
  PROVE  InboxParts'
  BY DEF InboxInv, InboxParts, ParkedPlaces, ListenerQuiet, ArmListens, StreamsAwaited, AllAwaited, Awaited,
         Scheduled, PassParts, PassPlace, LookingWoken, PolledAwaited

(* A push or a close: the listener is used up, and the future is woken.     *)
LEMMA InboxNotified ==
  ASSUME InboxInv, NotifyReceiver,
         UNCHANGED <<act, parked, draining, rx_arm, task_mut, sched, due, canceled, looking, polled>>
  PROVE  InboxParts'
  BY DEF InboxInv, InboxParts, ParkedPlaces, ListenerQuiet, ArmListens, StreamsAwaited, AllAwaited, Awaited,
         Scheduled, PassParts, PassPlace, LookingWoken, PolledAwaited, NotifyReceiver

LEMMA EnvironmentInbox ==
  ASSUME InboxInv, Environment \/ Poll \/ UNCHANGED vars
  PROVE  InboxParts'
  <1> USE DEF work, select, mail, wakes, answers, later
  <1>1. ASSUME NEW m \in Mail, Send(m) PROVE InboxParts'
    <2>1. CASE rx_closed
      BY <1>1, <2>1, InboxKept DEF Send
    <2>2. CASE ~rx_closed
      BY <1>1, <2>2, InboxNotified DEF Send
    <2> QED
      BY <2>1, <2>2
  <1>2. ASSUME NEW m \in Mail, Abandon(m) PROVE InboxParts'
    BY <1>2, InboxKept DEF Abandon
  <1>3. CASE DropAddrs
    BY <1>3, InboxNotified DEF DropAddrs
  <1>4. CASE FreeChannel
    BY <1>4 DEF FreeChannel, InboxInv, InboxParts, ParkedPlaces, ListenerQuiet, ArmListens, StreamsAwaited,
                AllAwaited, Awaited, Scheduled, PassParts, PassPlace, LookingWoken, PolledAwaited
  <1>5. ASSUME NEW m \in Bodies, Event(m) PROVE InboxParts'
    BY <1>5, InboxKept DEF Event
  <1>6. ASSUME NEW m \in Refs, SpuriousWake(m) \/ WakeLock(m) \/ WakePush(m) \/ WakeFuture(m)
        PROVE  InboxParts'
    BY <1>6, InboxKept DEF SpuriousWake, WakeLock, WakePush, WakeFuture
  <1>7. ASSUME NEW t \in Laters, Fire(t) \/ Cancel(t) PROVE InboxParts'
    <2>1. /\ UNCHANGED <<mailbox, rx_closed, rx_listening>>
          /\ UNCHANGED <<act, parked, draining, rx_arm, task_mut, sched, looking, polled>>
          /\ \A u \in due' \cup canceled' : u = t \/ u \in due \cup canceled
          /\ woken \/ sched[t] = "watched" => woken'
      BY <1>7 DEF Fire, Cancel
    <2>2. ASSUME NEW u \in Laters, Awaited(u) PROVE Awaited(u)'
      BY <2>1, <2>2 DEF Awaited, Scheduled
    <2>3. PolledAwaited' /\ PassPlace'
      BY <2>1, <2>2 DEF InboxInv, InboxParts, PassParts, PassPlace, PolledAwaited, OrderInv, TypeOK
    <2>4. LookingWoken'
      <3>1. CASE Fire(t)
        BY <3>1 DEF Fire, LookingWoken, InboxInv, InboxParts, PassParts
      <3>2. CASE Cancel(t)
        BY <3>2 DEF Cancel, LookingWoken, InboxInv, InboxParts, PassParts
      <3> QED
        BY <1>7, <3>1, <3>2
    <2>5. Streamed \subseteq Laters
      BY DEF Laters
    <2> QED
      BY <2>1, <2>2, <2>3, <2>4, <2>5
         DEF InboxInv, InboxParts, ParkedPlaces, ListenerQuiet, ArmListens, StreamsAwaited, AllAwaited,
             PassParts
  <1>8. CASE Poll
    BY <1>8 DEF Poll, InboxInv, InboxParts, ParkedPlaces, ListenerQuiet, ArmListens, StreamsAwaited, AllAwaited,
                PassParts, PassPlace, LookingWoken, PolledAwaited, OrderInv, Awaited, Scheduled, DrainingPlaces, Draining
  <1>9. CASE UNCHANGED vars
    BY <1>9, InboxKept DEF vars
  <1> QED
    BY <1>1, <1>2, <1>3, <1>4, <1>5, <1>6, <1>7, <1>8, <1>9 DEF Environment

LEMMA LoopInbox ==
  ASSUME InboxInv,
         \/ OnStart \/ LoopGraceful \/ LoopStop \/ LoopExclusive \/ LoopSelect
         \/ RxMessage \/ RxClosed \/ RxPending
  PROVE  InboxParts'
  <1> USE DEF work, select, mail, wakes, answers, later, At
  <1> USE DEF InboxInv, InboxParts, ParkedPlaces, ListenerQuiet, ArmListens, StreamsAwaited, AllAwaited,
              PassParts, PassPlace, LookingWoken, PolledAwaited
  <1>1. CASE OnStart
    <2>1. ListenerQuiet' /\ UNCHANGED <<looking, polled>>
      BY <1>1 DEF OnStart, Calls, NotifyReceiver
    <2> QED
      BY <1>1, <2>1 DEF OnStart
  <1>2. CASE LoopGraceful \/ LoopStop \/ LoopExclusive \/ LoopSelect \/ RxClosed
    BY <1>2 DEF LoopGraceful, LoopStop, LoopExclusive, LoopSelect, RxClosed
  <1>3. CASE RxMessage
    BY <1>3 DEF RxMessage, Handle
  <1>4. CASE RxPending
    BY <1>4 DEF RxPending
  <1> QED
    BY <1>1, <1>2, <1>3, <1>4

LEMMA TasksInbox ==
  ASSUME InboxInv,
         \/ PollTask \/ (\E m \in Refs : RunTask(m)) \/ RunStale \/ TasksYield \/ TasksPending
  PROVE  InboxParts'
  <1> USE DEF work, select, mail, wakes, answers, later, At
  <1> USE DEF InboxInv, InboxParts, ParkedPlaces, ListenerQuiet, ArmListens, StreamsAwaited, AllAwaited,
              PassParts, PassPlace, LookingWoken, PolledAwaited
  <1>1. CASE PollTask
    BY <1>1 DEF PollTask, OrderInv, DrainingPlaces, Draining
  <1>2. ASSUME NEW m \in Refs, RunTask(m) PROVE InboxParts'
    <2>1. PICK ends \in BOOLEAN : PollHandler(m, ends)
      BY <1>2 DEF RunTask
    <2>2. act = "run_tasks" /\ ~parked /\ UNCHANGED <<act, parked, draining, rx_arm>>
      BY <1>2 DEF RunTask, TaskPop
    <2>3. CASE UNCHANGED <<woken, mail, later>>
      BY <2>2, <2>3
    <2>4. CASE \E stops \in StopChoices : Calls(stops)
      BY <2>2, <2>4 DEF Calls, NotifyReceiver
    <2> QED
      BY <2>1, <2>3, <2>4 DEF PollHandler
  <1>3. CASE RunStale
    BY <1>3 DEF RunStale, TaskPop
  <1>4. CASE TasksYield
    BY <1>4 DEF TasksYield
  <1>5. CASE TasksPending
    BY <1>5 DEF TasksPending
  <1> QED
    BY <1>1, <1>2, <1>3, <1>4, <1>5

LEMMA LaterInbox ==
  ASSUME InboxInv, PollStream \/ PollFuture
  PROVE  InboxParts'
  <1> USE DEF work, select, mail, wakes, answers, later, At
  <1> USE DEF InboxInv, InboxParts, ParkedPlaces, ListenerQuiet, ArmListens, StreamsAwaited, AllAwaited,
              PassParts, PassPlace, LookingWoken, PolledAwaited
  <1>0. /\ act \in {"poll_stream", "poll_future"} /\ ~parked /\ ~draining
        /\ Streamed \subseteq Laters /\ Timers \subseteq Laters /\ Laters = Timers \cup Streamed
    BY DEF PollStream, PollFuture, OrderInv, DrainingPlaces, Draining, Laters
  <1>1. ASSUME NEW S \in SUBSET Laters, LookLater(S) PROVE InboxParts'
    <2>1. UNCHANGED <<act, parked, woken, task_mut, draining, rx_arm, mail, polled>> /\ polled \subseteq Laters
      BY <1>1 DEF LookLater, OrderInv, TypeOK
    <2>2. \A t \in Laters : Awaited(t) => Awaited(t)'
      BY <1>1 DEF LookLater, Unpolled, Awaited, Scheduled, OrderInv, TypeOK
    <2>3. LookingWoken'
      BY <1>1 DEF LookLater, Unpolled, Scheduled, OrderInv, TypeOK
    <2> QED
      BY <1>0, <2>1, <2>2, <2>3
  <1>2. ASSUME NEW S \in SUBSET Laters, TakeLater(S) PROVE InboxParts'
    BY <1>0, <1>2 DEF TakeLater, Handle
  <1>3. ASSUME NEW S \in SUBSET Laters, LaterPending(S) PROVE InboxParts'
    <2>1. /\ UNCHANGED <<act, parked, woken, task_mut, draining, rx_arm, mail>> /\ looking' = NoMsg
          /\ polled \subseteq Laters /\ looking \in Laters /\ polled' = polled \cup {looking}
      BY <1>3 DEF LaterPending, OrderInv, TypeOK
    <2>2. /\ UNCHANGED <<due, canceled>> /\ sched \in [Laters -> {"none", "armed", "looked", "watched", "gone"}]
          /\ sched' = [sched EXCEPT ![looking] = "watched"]
          /\ looking \in canceled => woken
          /\ looking \notin due
      BY <1>3, <2>1, Kinds DEF LaterPending, OrderInv, TypeOK
    <2>3. ASSUME NEW t \in Laters, t = looking \/ Awaited(t) PROVE Awaited(t)'
      <3>1. CASE t = looking
        BY <2>1, <2>2, <3>1 DEF Awaited
      <3>2. CASE t # looking
        BY <2>1, <2>2, <2>3, <3>2 DEF Awaited, Scheduled
      <3> QED
        BY <3>1, <3>2
    <2> QED
      BY <1>0, <2>1, <2>3
  <1>4. ASSUME NEW S \in SUBSET Laters, PassDone(S), task_mut = NoMsg
        PROVE  \A t \in S : Awaited(t)
    BY <1>4 DEF PassDone, Unpolled, Awaited, Scheduled, OrderInv, TypeOK
  <1>5. CASE PollStream
    <2>1. CASE PassDone(Streamed) /\ act' = "poll_future" /\ UNCHANGED parked
      <3>1. /\ UNCHANGED <<woken, task_mut, draining, rx_arm, mail, sched, due, canceled>>
            /\ looking' = NoMsg /\ polled' = {}
        BY <2>1 DEF PassDone
      <3>2. StreamsAwaited'
        BY <1>0, <1>4, <2>1, <3>1 DEF Awaited, Scheduled
      <3> QED
        BY <1>0, <2>1, <3>1, <3>2
    <2> QED
      BY <1>0, <1>1, <1>2, <1>3, <1>5, <2>1 DEF PollStream
  <1>6. CASE PollFuture
    <2>1. CASE PassDone(Timers) /\ act' = "poll_rx" /\ parked' = TRUE
      <3>1. /\ UNCHANGED <<woken, task_mut, draining, rx_arm, mail, sched, due, canceled>>
            /\ looking' = NoMsg /\ polled' = {}
        BY <2>1 DEF PassDone
      <3>2. act = "poll_future"
        BY <1>6 DEF PollFuture
      <3>3. AllAwaited'
        BY <1>0, <1>4, <2>1, <3>1, <3>2 DEF Awaited, Scheduled
      <3> QED
        BY <1>0, <2>1, <3>1, <3>2, <3>3
    <2> QED
      BY <1>0, <1>1, <1>2, <1>3, <1>6, <2>1 DEF PollFuture
  <1> QED
    BY <1>5, <1>6

LEMMA EndInbox ==
  ASSUME InboxInv, RunExclusive \/ End \/ OnStop \/ Acknowledge \/ DropFuture
  PROVE  InboxParts'
  <1> USE DEF work, select, mail, wakes, answers, later, At
  <1> USE DEF InboxInv, InboxParts, ParkedPlaces, ListenerQuiet, ArmListens, StreamsAwaited, AllAwaited,
              PassParts, PassPlace, LookingWoken, PolledAwaited
  <1>1. CASE RunExclusive
    <2>1. PICK ends \in BOOLEAN : PollHandler(exclusive, ends)
      BY <1>1 DEF RunExclusive
    <2>2. act = "exclusive" /\ act' \in {"exclusive", "loop", "on_stop"}
      BY <1>1 DEF RunExclusive
    <2>3. (\E stops \in StopChoices : Calls(stops)) \/ UNCHANGED <<woken, mail, later>>
      BY <2>1 DEF PollHandler
    <2>4. ListenerQuiet' /\ UNCHANGED <<looking, polled>>
      BY <2>3 DEF Calls, NotifyReceiver
    <2>5. ParkedPlaces'
      BY <1>1 DEF RunExclusive
    <2> QED
      BY <2>2, <2>4, <2>5
  <1>2. CASE End
    BY <1>2 DEF End
  <1>3. CASE OnStop
    <2>1. ListenerQuiet' /\ UNCHANGED <<looking, polled>>
      BY <1>3 DEF OnStop, Calls, NotifyReceiver
    <2> QED
      BY <1>3, <2>1 DEF OnStop
  <1>4. CASE Acknowledge
    BY <1>4 DEF Acknowledge
  <1>5. CASE DropFuture
    BY <1>5 DEF DropFuture
  <1> QED
    BY <1>1, <1>2, <1>3, <1>4, <1>5

LEMMA InboxInvariance == Spec => []InboxInv
  <1>1. Init => InboxInv
    BY InitOrder DEF Init, InboxInv, InboxParts, ParkedPlaces, ListenerQuiet, ArmListens,
                     StreamsAwaited, AllAwaited, PassParts, PassPlace, LookingWoken, PolledAwaited
  <1>2. InboxInv /\ [Next]_vars => InboxInv'
    BY NextOrder, EnvironmentInbox, LoopInbox, TasksInbox, LaterInbox, EndInbox
       DEF InboxInv, Next, Run
  <1> QED
    BY <1>1, <1>2, PTL DEF Spec

(* A future that sleeps in its select has overlooked no message, no close,  *)
(* no due and no canceled item: each would have woken it.                   *)
THEOREM InboxKeepsAwake == Spec => []InboxNotStranded
  <1>1. InboxInv => InboxNotStranded
    BY DEF InboxInv, InboxParts, ListenerQuiet, ArmListens, AllAwaited, Awaited, InboxNotStranded,
           OrderInv, TypeOK
  <1> QED
    BY <1>1, InboxInvariance, PTL

-----------------------------------------------------------------------------
(* No task is forgotten by the poll that returns Pending, and no request by *)
(* the actor that took its message.                                         *)

(* A task's index is in the wake queue, or a waker is about to push it.     *)
Queued(m) == \E i \in 1..Len(wake_queue) : wake_queue[i] = m
Listed == \A m \in tasks : body[m] \in {"new", "ready"} =>
             Queued(m) \/ waking[m] \in {"called", "locked"}

(* A message that is still to be taken was not touched: it is taken once.   *)
ToCome(m) == \/ m \in Mail /\ (reply[m] = "unsent" \/ InMailbox(m))
             \/ m \in Laters /\ sched[m] # "gone"
Fresh == \A m \in Refs : ToCome(m) => body[m] = "new" /\ m \notin tasks
SentOnce ==
    /\ \A i, j \in 1..Len(mailbox) : mailbox[i] = mailbox[j] => i = j
    /\ \A i \in 1..Len(mailbox) : reply[mailbox[i]] # "unsent"
NotDone == \A m \in tasks : body[m] # "done"

(* Who has looked at the wake queue and sleeps, or is about to, left it     *)
(* empty, or to a waker that has yet to wake the future.                    *)
Looked == act \in {"poll_stream", "poll_future"} \/ (parked /\ act \in {"poll_rx", "resolve"})
QueueSeen == Looked /\ ~woken /\ tasks # {} =>
                wake_queue = <<>> \/ \E m \in Refs : waking[m] \in {"locked", "pushed"}
YieldWoken == parked /\ act = "loop" => woken
ExclusiveBlocked == parked /\ act = "exclusive" /\ ~woken => body[exclusive] = "blocked"

TaskParts == Listed /\ Fresh /\ SentOnce /\ NotDone /\ QueueSeen /\ YieldWoken /\ ExclusiveBlocked

TaskInv == InboxInv /\ TaskParts

(* The queues: what an append adds and a pop removes.                       *)
LEMMA AppendElements ==
  ASSUME NEW S, NEW q \in Seq(S), NEW x \in S
  PROVE  /\ Len(q) \in Nat /\ Len(Append(q, x)) = Len(q) + 1
         /\ \A i \in 1..Len(q) : Append(q, x)[i] = q[i]
         /\ Append(q, x)[Len(q) + 1] = x
  OBVIOUS

LEMMA TailElements ==
  ASSUME NEW S, NEW q \in Seq(S), q # <<>>
  PROVE  /\ Len(q) \in Nat \ {0} /\ Len(Tail(q)) = Len(q) - 1
         /\ \A i \in 1..(Len(q) - 1) : Tail(q)[i] = q[i + 1]
         /\ Head(q) = q[1]
  OBVIOUS

LEMMA QueuedAppend ==
  ASSUME TypeOK, NEW x \in Refs, wake_queue' = Append(wake_queue, x)
  PROVE  Queued(x)' /\ \A m : Queued(m) => Queued(m)'
  <1>1. wake_queue \in Seq(Refs)
    BY DEF TypeOK
  <1> QED
    BY <1>1, AppendElements DEF Queued

LEMMA QueuedTail ==
  ASSUME TypeOK, wake_queue # <<>>, wake_queue' = Tail(wake_queue)
  PROVE  \A m : Queued(m) /\ m # Head(wake_queue) => Queued(m)'
  <1>1. wake_queue \in Seq(Refs)
    BY DEF TypeOK
  <1> SUFFICES ASSUME NEW m, NEW i \in 1..Len(wake_queue), wake_queue[i] = m, m # Head(wake_queue)
               PROVE  \E j \in 1..Len(wake_queue') : wake_queue'[j] = m
    BY DEF Queued
  <1>2. /\ Len(wake_queue) \in Nat \ {0} /\ Len(wake_queue') = Len(wake_queue) - 1
        /\ \A j \in 1..Len(wake_queue') : wake_queue'[j] = wake_queue[j + 1]
        /\ Head(wake_queue) = wake_queue[1]
    BY <1>1, TailElements
  <1>3. i # 1 /\ i - 1 \in 1..Len(wake_queue') /\ (i - 1) + 1 = i
    BY <1>2
  <1>4. wake_queue'[i - 1] = m
    BY <1>2, <1>3
  <1> QED
    BY <1>3, <1>4

LEMMA MailboxAppend ==
  ASSUME TypeOK, SentOnce, NEW x \in Mail, reply[x] = "unsent", mailbox' = Append(mailbox, x),
         reply' = [reply EXCEPT ![x] = "waiting"]
  PROVE  SentOnce' /\ \A m : InMailbox(m)' <=> InMailbox(m) \/ m = x
  <1>1. mailbox \in Seq(Mail)
    BY DEF TypeOK
  <1>2. \A i \in 1..Len(mailbox) : mailbox[i] \in Mail /\ mailbox[i] # x
    BY <1>1 DEF SentOnce
  <1>3. /\ Len(mailbox) \in Nat /\ Len(mailbox') = Len(mailbox) + 1
        /\ \A i \in 1..Len(mailbox) : mailbox'[i] = mailbox[i]
        /\ mailbox'[Len(mailbox) + 1] = x
    BY <1>1, AppendElements
  <1>4. \A i \in 1..Len(mailbox') : i \in 1..Len(mailbox) \/ i = Len(mailbox) + 1
    BY <1>3
  <1>5. SentOnce'
    BY <1>2, <1>3, <1>4 DEF SentOnce, TypeOK
  <1>6. ASSUME NEW m PROVE InMailbox(m)' <=> InMailbox(m) \/ m = x
    BY <1>3, <1>4 DEF InMailbox
  <1> QED
    BY <1>5, <1>6

LEMMA MailboxTail ==
  ASSUME TypeOK, SentOnce, mailbox # <<>>, mailbox' = Tail(mailbox), UNCHANGED reply
  PROVE  /\ SentOnce' /\ Head(mailbox) \in Mail
         /\ \A m : m = Head(mailbox) => InMailbox(m) /\ ~InMailbox(m)'
         /\ \A m : InMailbox(m)' => InMailbox(m)
         /\ \A m : InMailbox(m) => InMailbox(m)' \/ m = Head(mailbox)
  <1>1. mailbox \in Seq(Mail)
    BY DEF TypeOK
  <1>2. /\ Len(mailbox) \in Nat \ {0} /\ Len(mailbox') = Len(mailbox) - 1
        /\ \A i \in 1..Len(mailbox') : mailbox'[i] = mailbox[i + 1]
        /\ Head(mailbox) = mailbox[1]
    BY <1>1, TailElements
  <1>3. \A i \in 1..Len(mailbox') : i + 1 \in 1..Len(mailbox) /\ i + 1 # 1
    BY <1>2
  <1>4. SentOnce'
    BY <1>2, <1>3 DEF SentOnce
  <1>5. ASSUME NEW m, m = Head(mailbox) PROVE ~InMailbox(m)' /\ InMailbox(m) /\ m \in Mail
    <2>1. 1 \in 1..Len(mailbox)
      BY <1>2
    <2>2. \A i \in 1..Len(mailbox') : mailbox'[i] # mailbox[1]
      BY <1>2, <1>3, <2>1 DEF SentOnce
    <2> QED
      BY <1>1, <1>2, <1>5, <2>1, <2>2 DEF InMailbox
  <1>6. ASSUME NEW m, InMailbox(m)' PROVE InMailbox(m)
    BY <1>2, <1>3, <1>6 DEF InMailbox
  <1>7. ASSUME NEW m, InMailbox(m), m # Head(mailbox) PROVE InMailbox(m)'
    <2>1. PICK i \in 1..Len(mailbox) : mailbox[i] = m
      BY <1>7 DEF InMailbox
    <2>2. i # 1 /\ i - 1 \in 1..Len(mailbox') /\ (i - 1) + 1 = i
      BY <1>2, <1>7, <2>1
    <2> QED
      BY <1>2, <2>1, <2>2 DEF InMailbox
  <1> QED
    BY <1>4, <1>5, <1>6, <1>7

-----------------------------------------------------------------------------
(* Steps that leave the tasks alone, or end some.                           *)
LEMMA TaskKept ==
  ASSUME TaskInv, UNCHANGED <<act, parked, exclusive, tasks, wake_queue, waking, body>>,
         UNCHANGED <<mailbox, reply, sched>>, woken => woken'
  PROVE  TaskParts'
  BY DEF TaskInv, TaskParts, Listed, Queued, Fresh, ToCome, InMailbox, SentOnce, NotDone, Looked, QueueSeen,
         YieldWoken, ExclusiveBlocked

LEMMA FreshFewer ==
  ASSUME TaskInv, tasks' \subseteq tasks,
         \A m \in Refs : ToCome(m)' => ToCome(m) /\ body'[m] = body[m]
  PROVE  Fresh'
  BY DEF TaskInv, TaskParts, Fresh

LEMMA SentKept ==
  ASSUME TaskInv, UNCHANGED mailbox, \A m \in Mail : reply'[m] = "unsent" => reply[m] = "unsent"
  PROVE  SentOnce'
  <1>1. \A i \in 1..Len(mailbox) : mailbox[i] \in Mail
    BY DEF TaskInv, InboxInv, OrderInv, TypeOK
  <1> QED
    BY <1>1 DEF TaskInv, TaskParts, SentOnce

(* Taking a message: its index is in the wake queue at once.                *)
LEMMA HandleTask ==
  ASSUME TaskInv, TypeOK', NEW m \in Mail \cup Laters, Handle(m), ToCome(m), ~ToCome(m)', ~parked,
         \A n \in Refs : ToCome(n)' => ToCome(n), SentOnce'
  PROVE  TaskParts'
  <1>1. /\ act' = "loop" /\ ~parked' /\ UNCHANGED <<exclusive, waking, body, reply>>
        /\ \/ UNCHANGED <<tasks, wake_queue>>
           \/ m \in Refs /\ tasks' = tasks \cup {m} /\ wake_queue' = Append(wake_queue, m)
    BY DEF Handle, select, answers
  <1>2. CASE UNCHANGED <<tasks, wake_queue>>
    <2>1. Fresh'
      BY <1>1, <1>2, FreshFewer
    <2> QED
      BY <1>1, <1>2, <2>1 DEF TaskInv, TaskParts, Listed, Queued, NotDone, Looked, QueueSeen,
         YieldWoken, ExclusiveBlocked
  <1>3. CASE m \in Refs /\ tasks' = tasks \cup {m} /\ wake_queue' = Append(wake_queue, m)
    <2>1. body[m] = "new"
      BY <1>3 DEF TaskInv, TaskParts, Fresh
    <2>2. Queued(m)' /\ \A n : Queued(n) => Queued(n)'
      BY <1>3, QueuedAppend DEF TaskInv, InboxInv, OrderInv
    <2>3. Listed' /\ NotDone'
      BY <1>1, <1>3, <2>1, <2>2 DEF TaskInv, TaskParts, Listed, NotDone
    <2>4. Fresh'
      BY <1>1, <1>3 DEF TaskInv, TaskParts, Fresh
    <2> QED
      BY <1>1, <2>3, <2>4 DEF TaskParts, Looked, QueueSeen, YieldWoken, ExclusiveBlocked
  <1> QED
    BY <1>1, <1>2, <1>3

LEMMA EnvironmentTask ==
  ASSUME TaskInv, TypeOK', Environment \/ Poll \/ UNCHANGED vars
  PROVE  TaskParts'
  <1> USE DEF work, select, mail, wakes, answers, later
  <1>0. TypeOK /\ ParkedPlaces
    BY DEF TaskInv, InboxInv, InboxParts, OrderInv
  <1>1. ASSUME NEW m \in Mail, Send(m) PROVE TaskParts'
    <2>0. UNCHANGED <<act, parked, exclusive, tasks, wake_queue, waking, body, sched>> /\ (woken => woken')
      BY <1>1 DEF Send, NotifyReceiver
    <2>1. SentOnce' /\ \A n \in Refs : ToCome(n)' => ToCome(n)
      <3>1. CASE rx_closed
        <4>1. mailbox' = mailbox /\ reply' = [reply EXCEPT ![m] = "refused"]
          BY <1>1, <3>1 DEF Send
        <4> QED
          BY <1>0, <2>0, <4>1, SentKept DEF ToCome, InMailbox, TypeOK
      <3>2. CASE ~rx_closed
        <4>1. mailbox' = Append(mailbox, m) /\ reply' = [reply EXCEPT ![m] = "waiting"] /\ reply[m] = "unsent"
          BY <1>1, <3>2 DEF Send
        <4>2. SentOnce' /\ \A n : InMailbox(n)' <=> InMailbox(n) \/ n = m
          BY <1>0, <4>1, MailboxAppend DEF TaskInv, TaskParts
        <4> QED
          BY <1>0, <2>0, <4>1, <4>2 DEF ToCome, TypeOK
      <3> QED
        BY <3>1, <3>2
    <2>2. Fresh'
      BY <2>0, <2>1, FreshFewer
    <2> QED
      BY <2>0, <2>1, <2>2 DEF TaskInv, TaskParts, Listed, Queued, NotDone, Looked, QueueSeen,
         YieldWoken, ExclusiveBlocked
  <1>2. ASSUME NEW m \in Mail, Abandon(m) PROVE TaskParts'
    BY <1>2, TaskKept DEF Abandon
  <1>3. CASE DropAddrs
    BY <1>3, TaskKept DEF DropAddrs, NotifyReceiver
  <1>4. CASE FreeChannel
    <2>1. /\ mailbox' = <<>> /\ \A n \in Mail : reply'[n] = "unsent" => reply[n] = "unsent"
          /\ UNCHANGED <<act, parked, exclusive, tasks, wake_queue, waking, body, sched, woken>>
      BY <1>4 DEF FreeChannel, Closed
    <2>2. SentOnce' /\ \A n : ~InMailbox(n)'
      BY <2>1 DEF SentOnce, InMailbox
    <2>3. Fresh'
      BY <2>1, <2>2, FreshFewer DEF ToCome
    <2> QED
      BY <2>1, <2>2, <2>3 DEF TaskInv, TaskParts, Listed, Queued, NotDone, Looked, QueueSeen,
         YieldWoken, ExclusiveBlocked
  <1>5. ASSUME NEW m \in Bodies, Event(m) PROVE TaskParts'
    <2>0. /\ body[m] = "blocked" /\ body' = [body EXCEPT ![m] = "ready"] /\ body \in [Bodies -> {"new", "blocked", "ready", "done"}]
          /\ UNCHANGED <<act, parked, exclusive, tasks, wake_queue, mailbox, reply, sched>>
          /\ waking \in [Refs -> {"no", "called", "locked", "pushed"}]
          /\ Refs \subseteq Bodies /\ tasks \subseteq Refs
          /\ \/ m \in Refs /\ waking[m] = "no" /\ waking' = [waking EXCEPT ![m] = "called"] /\ UNCHANGED woken
             \/ m \notin Refs /\ woken' /\ UNCHANGED waking
      BY <1>0, <1>5, Kinds DEF Event, TypeOK
    <2>1. Fresh' /\ SentOnce' /\ NotDone'
      BY <2>0 DEF TaskInv, TaskParts, Fresh, SentOnce, NotDone, ToCome, InMailbox
    <2>2. Listed'
      BY <2>0 DEF TaskInv, TaskParts, Listed, Queued
    <2>3. QueueSeen' /\ YieldWoken'
      BY <2>0 DEF TaskInv, TaskParts, QueueSeen, Looked, YieldWoken
    <2>4. ExclusiveBlocked'
      <3>1. act = "exclusive" => exclusive \in Bodies \ Refs
        BY <1>0, Kinds DEF TypeOK
      <3> QED
        BY <2>0, <3>1 DEF TaskInv, TaskParts, ExclusiveBlocked
    <2> QED
      BY <2>1, <2>2, <2>3, <2>4 DEF TaskParts
  <1>6. ASSUME NEW m \in Refs, SpuriousWake(m) \/ WakeLock(m) \/ WakePush(m) \/ WakeFuture(m)
        PROVE  TaskParts'
    <2>0. /\ UNCHANGED <<act, parked, exclusive, tasks, body, mailbox, reply, sched>> /\ (woken => woken')
          /\ waking \in [Refs -> {"no", "called", "locked", "pushed"}] /\ tasks \subseteq Refs
          /\ \/ waking[m] \in {"no", "called"} /\ waking'[m] \in {"called", "locked"} /\ UNCHANGED wake_queue
             \/ waking'[m] = "pushed" /\ wake_queue' = Append(wake_queue, m)
             \/ waking[m] = "pushed" /\ woken' /\ UNCHANGED wake_queue
          /\ \A n \in Refs \ {m} : waking'[n] = waking[n]
      BY <1>0, <1>6 DEF SpuriousWake, WakeLock, WakePush, WakeFuture, TypeOK
    <2>1. Fresh' /\ SentOnce' /\ NotDone' /\ YieldWoken' /\ ExclusiveBlocked'
      BY <2>0 DEF TaskInv, TaskParts, Fresh, SentOnce, NotDone, ToCome, InMailbox, YieldWoken, ExclusiveBlocked
    <2>2. CASE UNCHANGED wake_queue
      BY <2>0, <2>1, <2>2 DEF TaskInv, TaskParts, Listed, Queued, QueueSeen, Looked
    <2>3. CASE waking'[m] = "pushed" /\ wake_queue' = Append(wake_queue, m)
      <3>1. Queued(m)' /\ \A n : Queued(n) => Queued(n)'
        BY <1>0, <2>3, QueuedAppend
      <3>2. Listed'
        BY <2>0, <3>1 DEF TaskInv, TaskParts, Listed
      <3> QED
        BY <2>1, <2>3, <3>2 DEF TaskParts, QueueSeen
    <2> QED
      BY <2>0, <2>2, <2>3
  <1>7. ASSUME NEW t \in Laters, Fire(t) \/ Cancel(t) PROVE TaskParts'
    BY <1>7, TaskKept DEF Fire, Cancel
  <1>8. CASE Poll
    BY <1>0, <1>8 DEF Poll, ParkedPlaces, TaskInv, TaskParts, Listed, Queued, Fresh, ToCome, InMailbox, SentOnce,
                      NotDone, Looked, QueueSeen, YieldWoken, ExclusiveBlocked
  <1>9. CASE UNCHANGED vars
    BY <1>9, TaskKept DEF vars
  <1> QED
    BY <1>1, <1>2, <1>3, <1>4, <1>5, <1>6, <1>7, <1>8, <1>9 DEF Environment

-----------------------------------------------------------------------------
(* Steps of run() outside the tasks.  Such a step does not touch the wake   *)
(* queue, and it schedules only what was not taken.                         *)
LEMMA OutsideTasks ==
  ASSUME TaskInv, UNCHANGED <<wake_queue, waking, body>>, tasks' \subseteq tasks,
         \A m \in Refs : ToCome(m)' => ToCome(m), SentOnce',
         ~parked', act' \notin {"poll_stream", "poll_future"}
  PROVE  TaskParts'
  <1>1. Fresh'
    BY FreshFewer
  <1> QED
    BY <1>1 DEF TaskInv, TaskParts, Listed, Queued, NotDone, Looked, QueueSeen, YieldWoken, ExclusiveBlocked

LEMMA CallsToCome ==
  ASSUME TaskInv, (\E stops \in StopChoices : Calls(stops)) \/ UNCHANGED <<woken, mail, later>>,
         \A m \in Mail : reply'[m] = "unsent" => reply[m] = "unsent"
  PROVE  SentOnce' /\ \A m : ToCome(m)' => ToCome(m)
  <1>1. mailbox' = mailbox
    BY DEF Calls, mail
  <1>2. \A t \in Laters : sched'[t] # "gone" => sched[t] # "gone"
    BY CallsSchedule DEF TaskInv, InboxInv, OrderInv
  <1> QED
    BY <1>1, <1>2, SentKept DEF ToCome, InMailbox

LEMMA LoopTask ==
  ASSUME TaskInv, TypeOK',
         \/ OnStart \/ LoopGraceful \/ LoopStop \/ LoopExclusive \/ LoopSelect
         \/ RxMessage \/ RxClosed \/ RxPending
  PROVE  TaskParts'
  <1> USE DEF work, select, mail, wakes, answers, later, At
  <1>0. TypeOK
    BY DEF TaskInv, InboxInv, OrderInv
  <1>1. CASE OnStart
    <2>1. SentOnce' /\ \A m : ToCome(m)' => ToCome(m)
      BY <1>1, CallsToCome DEF OnStart
    <2> QED
      BY <1>1, <2>1, OutsideTasks DEF OnStart
  <1>2. CASE LoopGraceful \/ LoopExclusive \/ LoopSelect \/ RxClosed \/ RxPending
    <2>1. /\ UNCHANGED <<wake_queue, waking, body, tasks, reply, mailbox, sched>> /\ ~parked'
          /\ act' \notin {"poll_stream", "poll_future"}
      BY <1>2 DEF LoopGraceful, LoopExclusive, LoopSelect, RxClosed, RxPending
    <2>2. SentOnce' /\ \A m : ToCome(m)' => ToCome(m)
      BY <2>1, SentKept DEF ToCome, InMailbox
    <2> QED
      BY <2>1, <2>2, OutsideTasks
  <1>3. CASE LoopStop
    <2>1. /\ UNCHANGED <<wake_queue, waking, body, mailbox, sched>> /\ ~parked' /\ tasks' = {}
          /\ act' \notin {"poll_stream", "poll_future"}
          /\ \A m \in Mail : reply'[m] = "unsent" => reply[m] = "unsent"
      BY <1>3 DEF LoopStop, Closed
    <2>2. SentOnce' /\ \A m : ToCome(m)' => ToCome(m)
      BY <2>1, SentKept DEF ToCome, InMailbox
    <2> QED
      BY <2>1, <2>2, OutsideTasks
  <1>4. CASE RxMessage
    <2>1. mailbox # <<>> /\ mailbox' = Tail(mailbox) /\ ~parked /\ UNCHANGED <<reply, sched>>
      BY <1>4 DEF RxMessage, Handle
    <2>2. PICK m \in Mail : m = Head(mailbox) /\ InMailbox(m) /\ ~InMailbox(m)'
      BY <1>0, <2>1, MailboxTail DEF TaskInv, TaskParts
    <2>3. SentOnce' /\ \A n : InMailbox(n)' => InMailbox(n)
      BY <1>0, <2>1, MailboxTail DEF TaskInv, TaskParts
    <2>4. ToCome(m) /\ \A n \in Refs : ToCome(n)' => ToCome(n)
      BY <2>1, <2>2, <2>3 DEF ToCome
    <2>5. reply[m] # "unsent"
      BY <2>2 DEF TaskInv, TaskParts, SentOnce, InMailbox
    <2>6. ~ToCome(m)'
      BY <2>1, <2>2, <2>5, Kinds DEF ToCome
    <2>7. Handle(m)
      BY <1>4, <2>2 DEF RxMessage
    <2> QED
      BY <2>1, <2>2, <2>3, <2>4, <2>6, <2>7, HandleTask
  <1> QED
    BY <1>1, <1>2, <1>3, <1>4

(* The poll of a task: its index is consumed, it waits for an event or is   *)
(* over.  A stale index stands for no task.                                 *)
LEMMA RunTaskTask ==
  ASSUME TaskInv, TypeOK', NEW m \in Refs, RunTask(m)
  PROVE  TaskParts'
  <1> USE DEF work, select, mail, wakes, answers, later, At
  <1>1. TypeOK
    BY DEF TaskInv, InboxInv, OrderInv
  <1>2. PICK ends \in BOOLEAN : PollHandler(m, ends) /\ tasks' = IF ends THEN tasks \ {m} ELSE tasks
    BY DEF RunTask
  <1>3. /\ act = "run_tasks" /\ act' = act /\ ~parked /\ ~parked' /\ waking' = waking
        /\ wake_queue # <<>> /\ wake_queue' = Tail(wake_queue)
        /\ m \in tasks /\ (m = Head(wake_queue) \/ Head(wake_queue) \notin tasks)
    BY DEF RunTask, TaskPop
  <1>4. \A n : Queued(n) /\ n # Head(wake_queue) => Queued(n)'
    BY <1>1, <1>3, QueuedTail
  <1>5. \A n \in Refs \ {m} : body'[n] = body[n]
    <2>1. \/ body' = body \/ body' = [body EXCEPT ![m] = "done"]
          \/ body' = [body EXCEPT ![m] = "blocked"]
      BY <1>2 DEF PollHandler, Finish
    <2> QED
      BY <1>1, <2>1, Kinds DEF TypeOK
  <1>6. ~ends => body'[m] = "blocked"
    BY <1>1, <1>2, Kinds DEF PollHandler, TypeOK
  <1>7. \A n \in Mail : reply'[n] = "unsent" => reply[n] = "unsent"
    BY <1>1, <1>2 DEF PollHandler, Finish, TypeOK
  <1>8. (\E stops \in StopChoices : Calls(stops)) \/ UNCHANGED <<woken, mail, later>>
    BY <1>2 DEF PollHandler
  <1>9. SentOnce' /\ \A n : ToCome(n)' => ToCome(n)
    BY <1>7, <1>8, CallsToCome
  <1>10. Fresh'
    <2>1. ~ToCome(m)
      BY <1>3 DEF TaskInv, TaskParts, Fresh
    <2> QED
      BY <1>2, <1>5, <1>9, <2>1, FreshFewer
  <1>11. Listed'
    BY <1>1, <1>2, <1>3, <1>4, <1>5, <1>6 DEF TaskInv, TaskParts, Listed, TypeOK
  <1>12. NotDone'
    BY <1>1, <1>2, <1>5, <1>6 DEF TaskInv, TaskParts, NotDone, TypeOK
  <1> QED
    BY <1>3, <1>9, <1>10, <1>11, <1>12 DEF TaskParts, Looked, QueueSeen, YieldWoken, ExclusiveBlocked

LEMMA TasksTask ==
  ASSUME TaskInv, TypeOK',
         \/ PollTask \/ (\E m \in Refs : RunTask(m)) \/ RunStale \/ TasksYield \/ TasksPending
  PROVE  TaskParts'
  <1> USE DEF work, select, mail, wakes, answers, later, At
  <1>0. TypeOK
    BY DEF TaskInv, InboxInv, OrderInv
  <1> DEFINE Same == UNCHANGED <<waking, body, tasks, reply, mailbox, sched, exclusive>>
  <1>1. Same => Fresh' /\ SentOnce' /\ NotDone' /\ (UNCHANGED wake_queue => Listed')
    BY DEF TaskInv, TaskParts, Listed, Queued, Fresh, ToCome, InMailbox, SentOnce, NotDone
  <1>2. CASE PollTask
    <2>1. /\ Same /\ UNCHANGED wake_queue /\ ~parked'
          /\ tasks # {} => act' \notin {"poll_stream", "poll_future"}
      BY <1>2 DEF PollTask, TaskInv, InboxInv, InboxParts, ParkedPlaces
    <2> QED
      BY <1>1, <2>1 DEF TaskParts, Looked, QueueSeen, YieldWoken, ExclusiveBlocked
  <1>3. CASE RunStale
    <2>1. /\ Same /\ wake_queue # <<>> /\ wake_queue' = Tail(wake_queue) /\ ~parked' /\ act' = "run_tasks"
          /\ Head(wake_queue) \notin tasks
      BY <1>3 DEF RunStale, TaskPop
    <2>2. \A n : Queued(n) /\ n # Head(wake_queue) => Queued(n)'
      BY <1>0, <2>1, QueuedTail
    <2>3. Listed'
      BY <2>1, <2>2 DEF TaskInv, TaskParts, Listed
    <2> QED
      BY <1>1, <2>1, <2>3 DEF TaskParts, Looked, QueueSeen, YieldWoken, ExclusiveBlocked
  <1>4. CASE TasksYield
    <2>1. Same /\ UNCHANGED wake_queue /\ woken' = TRUE /\ act' \in {"resolve", "loop"}
      BY <1>4 DEF TasksYield
    <2> QED
      BY <1>1, <2>1 DEF TaskParts, Looked, QueueSeen, YieldWoken, ExclusiveBlocked
  <1>5. CASE TasksPending
    <2>1. /\ Same /\ UNCHANGED wake_queue /\ act' \in {"resolve", "poll_stream"}
          /\ wake_queue = <<>> \/ \E m \in Refs : waking[m] = "locked"
      BY <1>5 DEF TasksPending, NoLock
    <2> QED
      BY <1>1, <2>1 DEF TaskParts, Looked, QueueSeen, YieldWoken, ExclusiveBlocked
  <1> QED
    BY <1>2, <1>3, <1>4, <1>5, RunTaskTask

LEMMA LaterTask ==
  ASSUME TaskInv, TypeOK', PollStream \/ PollFuture
  PROVE  TaskParts'
  <1> USE DEF work, select, mail, wakes, answers, later, At
  <1>0. TypeOK /\ ~parked /\ act \in {"poll_stream", "poll_future"}
    BY DEF TaskInv, InboxInv, OrderInv, PollStream, PollFuture
  <1>1. ASSUME NEW S \in SUBSET Laters, TakeLater(S) PROVE TaskParts'
    <2>1. PICK t \in Laters : t = looking
      BY <1>1 DEF TakeLater
    <2>2. /\ sched[t] # "gone" /\ Handle(t) /\ UNCHANGED <<mailbox, reply>>
          /\ sched' = [u \in Laters |-> IF u = t THEN "gone"
                                        ELSE IF u \in Again(t) THEN "armed" ELSE sched[u]]
      BY <1>1, <2>1, Kinds DEF TakeLater, Handle, TaskInv, InboxInv, OrderInv, LooksScheduled, Scheduled
    <2>3. \A u \in Laters : sched'[u] # "gone" => sched[u] # "gone"
      BY <2>2 DEF Again
    <2>4. ToCome(t) /\ ~ToCome(t)'
      BY <2>2, Kinds DEF ToCome
    <2>5. SentOnce' /\ \A n \in Refs : ToCome(n)' => ToCome(n)
      BY <2>2, <2>3, SentKept DEF ToCome, InMailbox
    <2> QED
      BY <1>0, <2>2, <2>4, <2>5, HandleTask
  <1>2. ASSUME UNCHANGED <<tasks, wake_queue, waking, body, reply, mailbox, exclusive, woken>>,
               \A t \in Laters : sched'[t] # "gone" => sched[t] # "gone",
               act' \in {"poll_stream", "poll_future"} \/ act' = "poll_rx"
        PROVE  TaskParts'
    <2>1. SentOnce' /\ \A n : ToCome(n)' => ToCome(n)
      BY <1>2, SentKept DEF ToCome, InMailbox
    <2>2. Fresh'
      BY <1>2, <2>1, FreshFewer
    <2> QED
      BY <1>0, <1>2, <2>1, <2>2 DEF TaskInv, TaskParts, Listed, Queued, NotDone, Looked, QueueSeen,
         YieldWoken, ExclusiveBlocked
  <1>3. ASSUME NEW S \in SUBSET Laters, LookLater(S) \/ LaterPending(S) PROVE TaskParts'
    <2>1. UNCHANGED <<act, tasks, wake_queue, waking, body, reply, mailbox, exclusive, woken>>
      BY <1>3 DEF LookLater, LaterPending
    <2>2. \A t \in Laters : sched'[t] # "gone" => sched[t] # "gone"
      <3>1. CASE LookLater(S)
        BY <1>0, <3>1 DEF LookLater, Unpolled, Scheduled, TypeOK
      <3>2. CASE LaterPending(S)
        BY <1>0, <3>2, Kinds DEF LaterPending, TaskInv, InboxInv, OrderInv, TypeOK, LooksScheduled, Scheduled
      <3> QED
        BY <1>3, <3>1, <3>2
    <2> QED
      BY <1>0, <1>2, <2>1, <2>2
  <1>4. ASSUME NEW S, PassDone(S), act' \in {"poll_future", "poll_rx"} PROVE TaskParts'
    BY <1>2, <1>4 DEF PassDone
  <1>5. Streamed \subseteq Laters /\ Timers \subseteq Laters
    BY DEF Laters
  <1> QED
    BY <1>1, <1>3, <1>4, <1>5 DEF PollStream, PollFuture

LEMMA EndTask ==
  ASSUME TaskInv, TypeOK', RunExclusive \/ End \/ OnStop \/ Acknowledge \/ DropFuture
  PROVE  TaskParts'
  <1> USE DEF work, select, mail, wakes, answers, later, At
  <1>0. TypeOK
    BY DEF TaskInv, InboxInv, OrderInv
  <1>1. CASE RunExclusive
    <2>1. PICK ends \in BOOLEAN :
             /\ PollHandler(exclusive, ends)
             /\ parked' = ~ends
             /\ IF ends THEN exclusive' = NoMsg /\ act' = IF draining THEN "on_stop" ELSE "loop"
                        ELSE UNCHANGED <<exclusive, act>>
      BY <1>1 DEF RunExclusive
    <2>2. act = "exclusive" /\ exclusive \in Muts /\ UNCHANGED <<tasks, wake_queue, waking>>
      BY <1>0, <1>1 DEF RunExclusive, TypeOK
    <2>3. \A n \in Refs : body'[n] = body[n]
      BY <1>0, <2>1, <2>2, Kinds DEF PollHandler, Finish, TypeOK
    <2>4. ~ends => body'[exclusive] = "blocked"
      BY <1>0, <2>1, <2>2, Kinds DEF PollHandler, TypeOK
    <2>5. \A n \in Mail : reply'[n] = "unsent" => reply[n] = "unsent"
      BY <1>0, <2>1 DEF PollHandler, Finish, TypeOK
    <2>6. (\E stops \in StopChoices : Calls(stops)) \/ UNCHANGED <<woken, mail, later>>
      BY <2>1 DEF PollHandler
    <2>7. SentOnce' /\ \A n : ToCome(n)' => ToCome(n)
      BY <2>5, <2>6, CallsToCome
    <2>8. Fresh'
      BY <2>2, <2>3, <2>7, FreshFewer
    <2>9. Listed' /\ NotDone'
      <3>1. \A n \in tasks : body'[n] = body[n]
        BY <1>0, <2>3 DEF TypeOK
      <3> QED
        BY <2>2, <3>1 DEF TaskInv, TaskParts, Listed, Queued, NotDone
    <2>10. ExclusiveBlocked' /\ QueueSeen' /\ YieldWoken'
      BY <2>1, <2>2, <2>4 DEF ExclusiveBlocked, QueueSeen, Looked, YieldWoken
    <2> QED
      BY <2>7, <2>8, <2>9, <2>10 DEF TaskParts
  <1>2. CASE End
    <2>1. /\ UNCHANGED <<wake_queue, waking, body, tasks, reply, mailbox, sched>> /\ ~parked'
          /\ act' \notin {"poll_stream", "poll_future"}
      BY <1>2 DEF End
    <2>2. SentOnce' /\ \A m : ToCome(m)' => ToCome(m)
      BY <2>1, SentKept DEF ToCome, InMailbox
    <2> QED
      BY <2>1, <2>2, OutsideTasks
  <1>3. CASE OnStop
    <2>1. SentOnce' /\ \A m : ToCome(m)' => ToCome(m)
      BY <1>3, CallsToCome DEF OnStop
    <2> QED
      BY <1>3, <2>1, OutsideTasks DEF OnStop
  <1>4. CASE Acknowledge \/ DropFuture
    <2>1. /\ UNCHANGED <<wake_queue, waking, body, mailbox>> /\ ~parked' /\ tasks' \subseteq tasks
          /\ act' \in {"drop", "gone"}
          /\ \A m \in Mail : reply'[m] = "unsent" => reply[m] = "unsent"
          /\ \A t \in Laters : sched'[t] # "gone" => sched[t] # "gone"
      BY <1>0, <1>4 DEF Acknowledge, DropFuture, Closed, TypeOK
    <2>2. SentOnce' /\ \A m : ToCome(m)' => ToCome(m)
      BY <2>1, SentKept DEF ToCome, InMailbox
    <2> QED
      BY <2>1, <2>2, OutsideTasks
  <1> QED
    BY <1>1, <1>2, <1>3, <1>4

LEMMA TaskInvariance == Spec => []TaskInv
  <1>1. Init => TaskInv
    <2> SUFFICES ASSUME Init PROVE TaskInv
      OBVIOUS
    <2>1. InboxInv
      BY InitOrder DEF Init, InboxInv, InboxParts, ParkedPlaces, ListenerQuiet, ArmListens,
                       StreamsAwaited, AllAwaited, PassParts, PassPlace, LookingWoken, PolledAwaited
    <2>2. \A m \in Refs : body[m] = "new"
      BY Kinds DEF Init
    <2> QED
      BY <2>1, <2>2 DEF Init, TaskInv, TaskParts, Listed, Fresh, SentOnce, NotDone, Looked, QueueSeen,
                        YieldWoken, ExclusiveBlocked
  <1>2. InboxInv /\ [Next]_vars => InboxInv' /\ TypeOK'
    BY NextOrder, EnvironmentInbox, LoopInbox, TasksInbox, LaterInbox, EndInbox
       DEF InboxInv, OrderInv, Next, Run
  <1>3. TaskInv /\ [Next]_vars => TaskInv'
    BY <1>2, EnvironmentTask, LoopTask, TasksTask, LaterTask, EndTask DEF TaskInv, Next, Run
  <1> QED
    BY <1>1, <1>3, PTL DEF Spec

(* A future that returned Pending has left no task behind that could run:   *)
(* its index is in a queue somebody is about to wake the future for, in any *)
(* interleaving of polls with the pushes of wakers and failed try_locks.    *)
THEOREM TasksKeepAwake == Spec => []TaskNotStranded
  <1>1. ASSUME TaskInv, parked, ~woken, \A m \in Refs : waking[m] = "no"
        PROVE  /\ \A m \in tasks : body[m] = "blocked"
               /\ exclusive # NoMsg => body[exclusive] = "blocked"
    <2>0. TypeOK /\ ParkedPlaces /\ ExclusivePlace /\ ExclusiveAlone
      BY <1>1 DEF TaskInv, InboxInv, InboxParts, OrderInv
    <2>1. exclusive # NoMsg => body[exclusive] = "blocked" /\ tasks = {}
      BY <1>1, <2>0 DEF TaskInv, TaskParts, ExclusivePlace, ExclusiveAlone, ExclusiveBlocked
    <2>2. ASSUME NEW m \in tasks PROVE body[m] = "blocked"
      <3>1. act \in {"poll_rx", "resolve"}
        BY <1>1, <2>0, <2>2, KindsAssumption DEF TaskInv, TaskParts, ParkedPlaces, YieldWoken, ExclusiveAlone,
           TypeOK, Bodies
      <3>2. wake_queue = <<>>
        BY <1>1, <2>2, <3>1 DEF TaskInv, TaskParts, QueueSeen, Looked
      <3>3. ~Queued(m) /\ m \in Refs /\ m \in Bodies
        BY <2>0, <2>2, <3>2, Kinds DEF Queued, TypeOK
      <3> QED
        BY <1>1, <2>0, <2>2, <3>3 DEF TaskInv, TaskParts, Listed, NotDone, TypeOK
    <2> QED
      BY <2>1, <2>2
  <1>2. TaskInv => TaskNotStranded
    BY <1>1 DEF TaskNotStranded
  <1> QED
    BY <1>2, TaskInvariance, PTL

-----------------------------------------------------------------------------
(* What the actor has taken and not let go of.                              *)
Held == tasks \cup {task_mut, exclusive, notify}
Owed == \A m \in Mail : reply[m] = "waiting" => m \in abandoned \/ InMailbox(m) \/ m \in Held

(* A stop is the last message: nothing is taken after it.                   *)
NotifyPlace == notify # NoMsg =>
    \/ act = "loop" /\ ctx_state # "Running"
    \/ draining
    \/ act \in {"end", "on_stop", "ack"}
EndStopped == act = "end" /\ ~draining => ctx_state = "Stop"
GoneEmpty == act = "gone" => Held = {NoMsg}

(* A handler that has begun is that of a task or of the exclusive message,  *)
(* unless a stop at once, or the end, cut it off.                           *)
Begun == \A m \in Bodies : body[m] \in {"blocked", "ready"} =>
    \/ m \in tasks \/ m = exclusive
    \/ act \in {"end", "on_stop"} /\ ctx_state = "Stop"
    \/ act \in {"ack", "drop", "gone"}
OnStopAlone == act = "on_stop" => tasks = {} /\ (ctx_state = "StopGraceful" => task_mut = NoMsg)

OwedParts == Owed /\ NotifyPlace /\ EndStopped /\ GoneEmpty /\ Begun /\ OnStopAlone

OwedInv == TaskInv /\ OwedParts

(* A step that lets go of nothing and begins no handler.                    *)
LEMMA OwedKept ==
  ASSUME OwedInv, UNCHANGED <<act, ctx_state, draining, tasks, task_mut, exclusive, notify>>,
         \A m \in Bodies : body'[m] \in {"blocked", "ready"} => body[m] \in {"blocked", "ready"},
         \A m \in Mail : reply'[m] = "waiting" =>
             \/ m \in abandoned' \/ InMailbox(m)'
             \/ reply[m] = "waiting" /\ m \notin abandoned /\ ~InMailbox(m)
  PROVE  OwedParts'
  BY DEF OwedInv, OwedParts, Owed, Held, NotifyPlace, EndStopped, GoneEmpty, Begun, OnStopAlone

LEMMA EnvironmentOwed ==
  ASSUME OwedInv, Environment \/ Poll \/ UNCHANGED vars
  PROVE  OwedParts'
  <1> USE DEF work, select, mail, wakes, answers, later
  <1>0. TypeOK /\ SentOnce
    BY DEF OwedInv, TaskInv, TaskParts, InboxInv, OrderInv
  <1>1. UNCHANGED <<act, ctx_state, draining, tasks, task_mut, exclusive, notify>>
    <2>1. UNCHANGED <<act, exclusive, task_mut, tasks, draining, notify>>
      BY LoopUntouched
    <2>2. UNCHANGED ctx_state
      BY DEF Environment, Send, Abandon, DropAddrs, FreeChannel, Poll, Event, SpuriousWake, WakeLock,
             WakePush, WakeFuture, Fire, Cancel, vars
    <2> QED
      BY <2>1, <2>2
  <1>2. ASSUME NEW m \in Mail, Send(m) PROVE OwedParts'
    <2>1. UNCHANGED <<body, abandoned>>
      BY <1>2 DEF Send
    <2>2. CASE rx_closed
      <3>1. mailbox' = mailbox /\ reply' = [reply EXCEPT ![m] = "refused"]
        BY <1>2, <2>2 DEF Send
      <3> QED
        BY <1>0, <1>1, <2>1, <3>1, OwedKept DEF InMailbox, TypeOK
    <2>3. CASE ~rx_closed
      <3>1. mailbox' = Append(mailbox, m) /\ reply' = [reply EXCEPT ![m] = "waiting"] /\ reply[m] = "unsent"
        BY <1>2, <2>3 DEF Send
      <3>2. \A n : InMailbox(n)' <=> InMailbox(n) \/ n = m
        BY <1>0, <3>1, MailboxAppend
      <3>3. \A n \in Mail : reply'[n] = "waiting" => n = m \/ reply[n] = "waiting"
        BY <1>0, <3>1 DEF TypeOK
      <3> QED
        BY <1>1, <2>1, <3>2, <3>3, OwedKept
    <2> QED
      BY <2>2, <2>3
  <1>3. ASSUME NEW m \in Mail, Abandon(m) PROVE OwedParts'
    BY <1>1, <1>3, OwedKept DEF Abandon, InMailbox
  <1>4. CASE FreeChannel
    <2>1. UNCHANGED <<body, abandoned>> /\ mailbox \in Seq(Mail)
          /\ reply' = Closed({mailbox[i] : i \in 1..Len(mailbox)})
      BY <1>0, <1>4 DEF FreeChannel, TypeOK
    <2>2. \A n \in Mail : reply'[n] = "waiting" => reply[n] = "waiting" /\ ~InMailbox(n)
      BY <2>1 DEF Closed, InMailbox
    <2> QED
      BY <1>1, <2>1, <2>2, OwedKept
  <1>5. ASSUME NEW m \in Bodies, Event(m) PROVE OwedParts'
    BY <1>0, <1>1, <1>5, OwedKept DEF Event, InMailbox, TypeOK
  <1>6. ASSUME UNCHANGED <<body, reply, abandoned, mailbox>> PROVE OwedParts'
    BY <1>1, <1>6, OwedKept DEF InMailbox
  <1>7. CASE DropAddrs \/ Poll \/ UNCHANGED vars
    BY <1>6, <1>7 DEF DropAddrs, Poll, vars
  <1>8. ASSUME NEW m \in Refs, SpuriousWake(m) \/ WakeLock(m) \/ WakePush(m) \/ WakeFuture(m)
        PROVE  OwedParts'
    BY <1>6, <1>8 DEF SpuriousWake, WakeLock, WakePush, WakeFuture
  <1>9. ASSUME NEW t \in Laters, Fire(t) \/ Cancel(t) PROVE OwedParts'
    BY <1>6, <1>9 DEF Fire, Cancel
  <1> QED
    BY <1>2, <1>3, <1>4, <1>5, <1>7, <1>8, <1>9 DEF Environment

(* What is taken is held, and displaces nothing: the places for exclusive   *)
(* and stop messages are free.                                              *)
LEMMA HandleOwed ==
  ASSUME OwedInv, NEW m \in Mail \cup Laters, Handle(m), task_mut = NoMsg,
         act \in {"poll_rx", "poll_stream", "poll_future"},
         \A n : InMailbox(n) => InMailbox(n)' \/ n = m
  PROVE  OwedParts'
  <1>1. notify = NoMsg
    BY DEF OwedInv, OwedParts, NotifyPlace, TaskInv, InboxInv, OrderInv, DrainingPlaces, Draining
  <1>2. /\ act' = "loop" /\ UNCHANGED <<exclusive, body, reply, abandoned>> /\ tasks \subseteq tasks'
        /\ m \in tasks' \/ m = task_mut' \/ (m = notify' /\ ctx_state' # "Running")
        /\ notify' \in {NoMsg, m} /\ (notify' = m => m = NoMsg \/ ctx_state' # "Running")
    BY <1>1, Kinds DEF Handle, answers
  <1>3. Owed'
    BY <1>1, <1>2, Kinds DEF OwedInv, OwedParts, Owed, Held, Mail, Bodies, Stops
  <1>4. NotifyPlace' /\ EndStopped' /\ GoneEmpty' /\ OnStopAlone'
    BY <1>2 DEF NotifyPlace, EndStopped, GoneEmpty, OnStopAlone
  <1>5. Begun'
    BY <1>2 DEF OwedInv, OwedParts, Begun
  <1> QED
    BY <1>3, <1>4, <1>5 DEF OwedParts

LEMMA LoopOwed ==
  ASSUME OwedInv,
         \/ OnStart \/ LoopGraceful \/ LoopStop \/ LoopExclusive \/ LoopSelect
         \/ RxMessage \/ RxClosed \/ RxPending
  PROVE  OwedParts'
  <1> USE DEF work, select, mail, wakes, answers, later, At
  <1>0. TypeOK /\ SentOnce /\ ExclusivePlace /\ ArmHolds /\ DrainingPlaces
    BY DEF OwedInv, TaskInv, TaskParts, InboxInv, OrderInv
  <1> DEFINE Same == UNCHANGED <<tasks, notify, body, reply, abandoned, mailbox>>
  <1> USE DEF OwedInv, OwedParts, Owed, Held, NotifyPlace, EndStopped, GoneEmpty, Begun, OnStopAlone
  <1>1. CASE OnStart
    <2>1. Same /\ UNCHANGED <<task_mut, exclusive, draining>> /\ act = "on_start" /\ act' = "loop"
      BY <1>1 DEF OnStart, Calls
    <2> QED
      BY <1>0, <2>1 DEF InMailbox, DrainingPlaces, Draining
  <1>2. CASE LoopGraceful
    BY <1>2 DEF LoopGraceful, InMailbox
  <1>3. CASE LoopStop
    BY <1>3 DEF LoopStop, InMailbox, Closed
  <1>4. CASE LoopExclusive
    BY <1>0, <1>4, Kinds DEF LoopExclusive, InMailbox, ExclusivePlace, Mail, Bodies, Stops
  <1>5. CASE LoopSelect
    BY <1>5 DEF LoopSelect, InMailbox
  <1>6. CASE RxMessage
    <2>1. mailbox # <<>> /\ mailbox' = Tail(mailbox) /\ UNCHANGED reply /\ Handle(Head(mailbox))
          /\ act = "poll_rx" /\ rx_arm
      BY <1>6 DEF RxMessage, Handle
    <2>2. Head(mailbox) \in Mail /\ \A n : InMailbox(n) => InMailbox(n)' \/ n = Head(mailbox)
      BY <1>0, <2>1, MailboxTail
    <2>3. task_mut = NoMsg
      BY <1>0, <2>1 DEF ArmHolds, Selecting, DrainingPlaces, Draining
    <2> QED
      BY <2>1, <2>2, <2>3, HandleOwed
  <1>7. CASE RxClosed
    BY <1>7 DEF RxClosed, InMailbox
  <1>8. CASE RxPending
    BY <1>8 DEF RxPending, InMailbox
  <1> QED
    BY <1>1, <1>2, <1>3, <1>4, <1>5, <1>6, <1>7, <1>8

(* A handler that is polled answers when it ends.                           *)
LEMMA PollOwed ==
  ASSUME OwedInv, NEW m \in Bodies, NEW ends \in BOOLEAN, PollHandler(m, ends)
  PROVE  /\ \A n \in Mail : reply'[n] = "waiting" => reply[n] = "waiting" /\ (ends => n # m \/ n \in abandoned)
         /\ \A n \in Bodies \ {m} : body'[n] = body[n]
         /\ ends => body'[m] = "done"
         /\ UNCHANGED <<abandoned, mailbox>>
         /\ ctx_state' \in {ctx_state, "StopGraceful"}
  <1>1. TypeOK
    BY DEF OwedInv, TaskInv, InboxInv, OrderInv
  <1>2. /\ UNCHANGED <<abandoned, mailbox>> /\ ctx_state' \in {ctx_state, "StopGraceful"}
        /\ ends => body' = [body EXCEPT ![m] = "done"]
                   /\ reply' = IF m \in Mail \ abandoned THEN [reply EXCEPT ![m] = "ok"] ELSE reply
        /\ ~ends => reply' = reply /\ (body' = body \/ body' = [body EXCEPT ![m] = "blocked"])
    BY DEF PollHandler, Finish, Calls, mail
  <1> QED
    BY <1>1, <1>2 DEF TypeOK

LEMMA TasksOwed ==
  ASSUME OwedInv,
         \/ PollTask \/ (\E m \in Refs : RunTask(m)) \/ RunStale \/ TasksYield \/ TasksPending
  PROVE  OwedParts'
  <1> USE DEF work, select, mail, wakes, answers, later, At
  <1> USE DEF OwedInv, OwedParts, Owed, Held, NotifyPlace, EndStopped, GoneEmpty, Begun, OnStopAlone
  <1>0. TypeOK /\ DrainingPlaces
    BY DEF TaskInv, InboxInv, OrderInv
  <1>1. CASE PollTask \/ RunStale \/ TasksYield \/ TasksPending
    <2>1. /\ UNCHANGED <<tasks, task_mut, exclusive, notify, body, reply, abandoned, mailbox, ctx_state, draining>>
          /\ act \in {"poll_task", "resolve", "run_tasks"}
          /\ act' \in {"run_tasks", "end", "poll_stream", "resolve", "loop"}
          /\ act' = "end" => draining
      BY <1>1 DEF PollTask, RunStale, TaskPop, TasksYield, TasksPending
    <2>2. Owed'
      BY <2>1 DEF InMailbox
    <2>3. act = "resolve" => draining
      BY <1>0 DEF DrainingPlaces
    <2> QED
      BY <2>1, <2>2, <2>3
  <1>2. ASSUME NEW m \in Refs, RunTask(m) PROVE OwedParts'
    <2>1. PICK ends \in BOOLEAN : PollHandler(m, ends) /\ tasks' = IF ends THEN tasks \ {m} ELSE tasks
      BY <1>2 DEF RunTask
    <2>2. /\ \A n \in Mail : reply'[n] = "waiting" => reply[n] = "waiting" /\ (ends => n # m \/ n \in abandoned)
          /\ \A n \in Bodies \ {m} : body'[n] = body[n]
          /\ ends => body'[m] = "done"
          /\ UNCHANGED <<abandoned, mailbox>>
      BY <2>1, Kinds, PollOwed
    <2>3. m \in tasks /\ act = "run_tasks" /\ UNCHANGED <<act, task_mut, exclusive, notify, draining>>
      BY <1>2 DEF RunTask, TaskPop
    <2>4. Owed'
      BY <2>1, <2>2, <2>3 DEF InMailbox
    <2>5. Begun'
      BY <2>1, <2>2, <2>3
    <2> QED
      BY <2>3, <2>4, <2>5
  <1> QED
    BY <1>1, <1>2

LEMMA LaterOwed ==
  ASSUME OwedInv, PollStream \/ PollFuture
  PROVE  OwedParts'
  <1> USE DEF work, select, mail, wakes, answers, later, At
  <1>0. act \in {"poll_stream", "poll_future"}
    BY DEF PollStream, PollFuture
  <1>1. ASSUME NEW S \in SUBSET Laters, TakeLater(S) PROVE OwedParts'
    <2>1. PICK t \in Laters : t = looking
      BY <1>1 DEF TakeLater
    <2>2. Handle(t) /\ task_mut = NoMsg /\ UNCHANGED mailbox
      BY <1>1, <2>1 DEF TakeLater
    <2> QED
      BY <1>0, <2>2, HandleOwed DEF InMailbox
  <1>2. ASSUME UNCHANGED <<tasks, task_mut, exclusive, notify, body, reply, abandoned, mailbox, ctx_state, draining>>,
               act' \in {"poll_stream", "poll_future", "poll_rx"}
        PROVE  OwedParts'
    <2>1. Owed'
      BY <1>2 DEF OwedInv, OwedParts, Owed, Held, InMailbox
    <2> QED
      BY <1>0, <1>2, <2>1 DEF OwedInv, OwedParts, NotifyPlace, EndStopped, GoneEmpty, Begun, OnStopAlone
  <1>3. ASSUME NEW S, LookLater(S) \/ LaterPending(S) PROVE OwedParts'
    BY <1>0, <1>2, <1>3 DEF LookLater, LaterPending
  <1>4. ASSUME NEW S, PassDone(S), act' \in {"poll_future", "poll_rx"} PROVE OwedParts'
    BY <1>2, <1>4 DEF PassDone
  <1>5. Streamed \subseteq Laters /\ Timers \subseteq Laters
    BY DEF Laters
  <1> QED
    BY <1>1, <1>3, <1>4, <1>5 DEF PollStream, PollFuture

LEMMA EndOwed ==
  ASSUME OwedInv, RunExclusive \/ End \/ OnStop \/ Acknowledge \/ DropFuture
  PROVE  OwedParts'
  <1> USE DEF work, select, mail, wakes, answers, later, At
  <1> USE DEF OwedInv, OwedParts, Owed, Held, NotifyPlace, EndStopped, GoneEmpty, Begun, OnStopAlone
  <1>0. TypeOK /\ ExclusivePlace /\ ExclusiveAlone /\ EndsAlone
    BY DEF TaskInv, InboxInv, OrderInv
  <1>1. CASE RunExclusive
    <2>1. PICK ends \in BOOLEAN :
             /\ PollHandler(exclusive, ends)
             /\ IF ends THEN exclusive' = NoMsg /\ act' = IF draining THEN "on_stop" ELSE "loop"
                        ELSE UNCHANGED <<exclusive, act>>
      BY <1>1 DEF RunExclusive
    <2>2. act = "exclusive" /\ exclusive \in Muts /\ UNCHANGED <<tasks, task_mut, notify, draining>>
      BY <1>0, <1>1 DEF RunExclusive, TypeOK
    <2>3. tasks = {} /\ task_mut = NoMsg
      BY <1>0, <2>2, Kinds DEF ExclusiveAlone
    <2>4. exclusive \in Bodies
      BY <2>2, Kinds
    <2>5. /\ \A n \in Mail : reply'[n] = "waiting" => reply[n] = "waiting" /\ (ends => n # exclusive \/ n \in abandoned)
          /\ \A n \in Bodies \ {exclusive} : body'[n] = body[n]
          /\ ends => body'[exclusive] = "done"
          /\ UNCHANGED <<abandoned, mailbox>>
      BY <2>1, <2>4, PollOwed
    <2>6. Owed'
      BY <2>1, <2>2, <2>5 DEF InMailbox
    <2>7. Begun'
      BY <2>1, <2>2, <2>5
    <2>8. NotifyPlace'
      BY <2>1, <2>2
    <2> QED
      BY <2>1, <2>2, <2>3, <2>6, <2>7, <2>8
  <1>2. CASE End
    <2>1. exclusive = NoMsg /\ tasks = {}
      BY <1>0, <1>2 DEF End, ExclusivePlace, EndsAlone
    <2>2. CASE ctx_state = "StopGraceful" /\ task_mut # NoMsg
      BY <1>2, <2>1, <2>2, Kinds DEF End, InMailbox, Mail, Bodies, Stops
    <2>3. CASE ~(ctx_state = "StopGraceful" /\ task_mut # NoMsg)
      BY <1>2, <2>1, <2>3, Kinds DEF End, InMailbox
    <2> QED
      BY <2>2, <2>3
  <1>3. CASE OnStop
    <2>1. /\ UNCHANGED <<tasks, task_mut, exclusive, notify, body, reply, abandoned, mailbox, draining>>
          /\ act' = "ack"
      BY <1>3 DEF OnStop, Calls
    <2> QED
      BY <2>1 DEF InMailbox
  <1>4. CASE Acknowledge
    <2>1. /\ UNCHANGED <<tasks, task_mut, exclusive, body, abandoned, mailbox>> /\ notify' = NoMsg
          /\ act' = "drop"
          /\ \A n \in Mail : reply'[n] = "waiting" =>
                reply[n] = "waiting" /\ (n = notify => n \in abandoned)
      <3>1. notify \in Mail => notify \in Stops
        BY <1>0, Kinds DEF TypeOK, Mail
      <3> QED
        BY <1>0, <1>4, <3>1 DEF Acknowledge, TypeOK
    <2> QED
      BY <2>1 DEF InMailbox
  <1>5. CASE DropFuture
    <2>1. /\ act' = "gone" /\ tasks' = {} /\ task_mut' = NoMsg /\ exclusive' = NoMsg /\ notify' = NoMsg
          /\ UNCHANGED <<abandoned, mailbox, body>>
          /\ reply' = Closed(Held)
      BY <1>5 DEF DropFuture
    <2>2. \A n \in Mail : reply'[n] = "waiting" => reply[n] = "waiting" /\ n \notin Held
      BY <2>1 DEF Closed
    <2> QED
      BY <2>1, <2>2 DEF InMailbox
  <1> QED
    BY <1>1, <1>2, <1>3, <1>4, <1>5

LEMMA OwedInvariance == Spec => []OwedInv
  <1>1. Init => OwedParts
    <2> SUFFICES ASSUME Init PROVE OwedParts
      OBVIOUS
    <2>1. /\ \A m \in Mail : reply[m] = "unsent"
          /\ \A m \in Bodies : body[m] = "new"
          /\ notify = NoMsg /\ act = "on_start"
      BY DEF Init
    <2> QED
      BY <2>1 DEF OwedParts, Owed, NotifyPlace, EndStopped, GoneEmpty, Begun, OnStopAlone
  <1>2. OwedInv /\ [Next]_vars => OwedParts'
    BY EnvironmentOwed, LoopOwed, TasksOwed, LaterOwed, EndOwed DEF Next, Run
  <1> QED
    BY <1>1, <1>2, TaskInvariance, PTL DEF Spec, OwedInv

(* An actor that is gone, by a stop, a panic or a drop of its future at any *)
(* point, has answered or refused every request whose message it had taken. *)
THEOREM TakenSettled == Spec => []TakenAnswered
  <1>1. OwedInv => TakenAnswered
    BY Kinds DEF OwedInv, OwedParts, Owed, GoneEmpty, TakenAnswered, Mail, Bodies, Stops
  <1> QED
    BY <1>1, OwedInvariance, PTL

(* A graceful stop cuts no handler off and forgets no message it had taken. *)
THEOREM GracefulSettled == Spec => []GracefulCompletes
  <1>1. ASSUME OwedInv, act = "on_stop", ctx_state = "StopGraceful" PROVE GracefulCompletes
    <2>1. tasks = {} /\ task_mut = NoMsg /\ exclusive = NoMsg
      BY <1>1 DEF OwedInv, OwedParts, OnStopAlone, TaskInv, InboxInv, OrderInv, ExclusivePlace
    <2>2. TypeOK /\ NoMsg \notin Bodies
      BY <1>1, KindsAssumption DEF OwedInv, TaskInv, InboxInv, OrderInv
    <2>3. \A m \in Bodies : body[m] \in {"new", "done"}
      BY <1>1, <2>1, <2>2 DEF OwedInv, OwedParts, Begun, TypeOK
    <2>4. \A m \in Mail \cap Bodies : m \notin Held
      BY <2>1, <2>2, KindsAssumption DEF Held, TypeOK
    <2> QED
      BY <1>1, <2>1, <2>3, <2>4 DEF OwedInv, OwedParts, Owed, GracefulCompletes
  <1>2. OwedInv => GracefulCompletes
    BY <1>1 DEF GracefulCompletes
  <1> QED
    BY <1>2, OwedInvariance, PTL
=============================================================================
