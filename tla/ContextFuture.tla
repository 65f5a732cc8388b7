---------------------------- MODULE ContextFuture ---------------------------
(***************************************************************************)
(* context_future.rs: ContextFuture::run, the loop that is a running actor *)
(* (with waker.rs, handler.rs, and the parts of context.rs and message.rs  *)
(* the loop calls).  It takes messages from the mailbox, from streams and  *)
(* from timers, runs concurrent ones as tasks of its own and exclusive     *)
(* ones alone, and stops gracefully or at once.                            *)
(*                                                                         *)
(* The future is polled by an executor; one poll is many steps here, and   *)
(* senders, wakers and timers of other threads act between them.  A        *)
(* message stands for itself, for the task that handles it and for the     *)
(* request that waits for its answer.  The mailbox is a first-in first-out *)
(* queue that notifies its receiver (Channel), the answer a one-shot       *)
(* channel (Oneshot).                                                      *)
(***************************************************************************)
EXTENDS Naturals, Sequences, FiniteSets

CONSTANTS
    Refs,           \* concurrent messages, for Handler::handle
    Muts,           \* exclusive messages, for Handler::handle_wait
    GracefulStops,  \* the messages of Addr::stop(true)
    HardStops,      \* the messages of Addr::stop(false)
    Timers,         \* those of Refs and Muts that run_later schedules
    Streamed,       \* those of Refs and Muts that streams and intervals yield
    Tick,           \* for each of Streamed: what its interval yields next, or NoMsg
    NoMsg,          \* no message
    SizeHint,       \* Actor::size_hint
    MaxWakes,       \* bound: length of the wake queue for spurious wakes
    MayStop,        \* whether handlers may call Context::stop
    MayAbort        \* whether handlers may panic, or the future be dropped

Laters == Timers \cup Streamed
Bodies == Refs \cup Muts
Stops  == GracefulStops \cup HardStops
Mail   == (Bodies \cup Stops) \ Laters

ASSUME KindsAssumption ==
    /\ Refs \cap Muts = {} /\ Bodies \cap Stops = {} /\ GracefulStops \cap HardStops = {}
    /\ Laters \subseteq Bodies /\ Timers \cap Streamed = {}
    /\ NoMsg \notin Bodies \cup Stops
ASSUME TickAssumption == Tick \in [Streamed -> Streamed \cup {NoMsg}]
ASSUME SizeHintAssumption == SizeHint \in Nat \ {0}
ASSUME RefsAssumption == IsFiniteSet(Refs)
ASSUME BoundsAssumption == MaxWakes \in Nat /\ {MayStop, MayAbort} \subseteq BOOLEAN

VARIABLES
    act,          \* where run() is
    parked,       \* whether it returned Pending there
    woken,        \* whether its waker was called since its last poll
    ctx_state,    \* ContextInner.state
    mailbox,      \* the messages in the channel
    rx_closed,    \* whether the channel is closed
    rx_listening, \* whether the receiver's listener waits for a notification
    alive,        \* whether an Addr is alive
    rx_arm,       \* whether the current select has a fut1
    task_mut,     \* the exclusive message that waits for the tasks to end
    exclusive,    \* the exclusive message that runs
    tasks,        \* the messages whose tasks are in the slab
    wake_queue,   \* the tasks to poll
    waking,       \* the wakers that are being called
    left,         \* polls left to poll_task: len - polled
    draining,     \* whether a graceful stop resolves the tasks
    notify,       \* the stop message to acknowledge
    body,         \* the progress of each message's handler
    reply,        \* what each request has got
    abandoned,    \* the requests whose callers dropped the receiver
    sched,        \* what became of each scheduled message
    due,          \* the scheduled messages whose time has come
    canceled,     \* the scheduled messages canceled by their join handle
    looking,      \* the scheduled message whose handle was polled, its timer not yet
    polled        \* the scheduled messages that the current pass found pending

work    == <<task_mut, exclusive, tasks, notify>>
select  == <<rx_arm, left, draining>>
mail    == <<mailbox, rx_closed, rx_listening, alive>>
wakes   == <<wake_queue, waking>>
answers == <<body, reply, abandoned>>
later   == <<sched, due, canceled, looking, polled>>
vars    == <<act, parked, woken, ctx_state, work, select, mail, wakes, answers, later>>

TypeOK ==
    /\ act \in {"on_start", "loop", "poll_rx", "poll_task", "run_tasks", "poll_stream",
                "poll_future", "exclusive", "resolve", "end", "on_stop", "ack", "drop", "gone"}
    /\ {parked, woken, rx_closed, rx_listening, alive, rx_arm, draining} \subseteq BOOLEAN
    /\ ctx_state \in {"Running", "Stop", "StopGraceful"}
    /\ mailbox \in Seq(Mail)
    /\ task_mut \in Muts \cup {NoMsg} /\ exclusive \in Muts \cup {NoMsg}
    /\ act = "exclusive" => exclusive \in Muts
    /\ tasks \subseteq Refs
    /\ wake_queue \in Seq(Refs)
    /\ waking \in [Refs -> {"no", "called", "locked", "pushed"}]
    /\ left \in Nat
    /\ notify \in Stops \cup {NoMsg}
    /\ body \in [Bodies -> {"new", "blocked", "ready", "done"}]
    /\ reply \in [Mail -> {"unsent", "waiting", "ok", "closed", "refused"}]
    /\ abandoned \subseteq Mail
    /\ sched \in [Laters -> {"none", "armed", "looked", "watched", "gone"}]
    /\ due \subseteq Laters /\ canceled \subseteq Laters
    /\ looking \in Laters \cup {NoMsg} /\ polled \subseteq Laters

Init ==
    /\ act = "on_start" /\ parked = FALSE /\ woken = FALSE /\ ctx_state = "Stop"
    /\ mailbox = <<>> /\ rx_closed = FALSE /\ rx_listening = FALSE /\ alive = TRUE
    /\ rx_arm = FALSE /\ task_mut = NoMsg /\ exclusive = NoMsg /\ tasks = {}
    /\ wake_queue = <<>> /\ waking = [m \in Refs |-> "no"] /\ left = 0
    /\ draining = FALSE /\ notify = NoMsg
    /\ body = [m \in Bodies |-> "new"]
    /\ reply = [m \in Mail |-> "unsent"] /\ abandoned = {}
    /\ sched = [m \in Laters |-> "none"] /\ due = {} /\ canceled = {}
    /\ looking = NoMsg /\ polled = {}

-----------------------------------------------------------------------------
(* Those who hold an Addr or a request.  A push and a close notify the      *)
(* receiver's listener, which calls the waker of the future.                *)
NotifyReceiver ==
    /\ woken' = (woken \/ rx_listening)
    /\ rx_listening' = FALSE

Send(m) ==
    /\ alive /\ reply[m] = "unsent"
    /\ IF rx_closed
       THEN /\ reply' = [reply EXCEPT ![m] = "refused"]
            /\ UNCHANGED <<mailbox, woken, rx_listening>>
       ELSE /\ reply' = [reply EXCEPT ![m] = "waiting"]
            /\ mailbox' = Append(mailbox, m)
            /\ NotifyReceiver
    /\ UNCHANGED <<act, parked, ctx_state, work, select, rx_closed, alive, wakes, body, abandoned, later>>

(* A request times out, or is dropped. *)
Abandon(m) ==
    /\ reply[m] = "waiting" /\ m \notin abandoned
    /\ abandoned' = abandoned \cup {m}
    /\ UNCHANGED <<act, parked, woken, ctx_state, work, select, mail, wakes, body, reply, later>>

(* The last Addr is dropped. *)
DropAddrs ==
    /\ alive
    /\ alive' = FALSE /\ rx_closed' = TRUE
    /\ NotifyReceiver
    /\ UNCHANGED <<act, parked, ctx_state, work, select, mailbox, wakes, answers, later>>

(* What the requests of M see when their messages are dropped unhandled. *)
Closed(M) == [m \in Mail |-> IF m \in M /\ reply[m] = "waiting" THEN "closed" ELSE reply[m]]

(* With neither the actor nor an Addr the channel is freed. *)
FreeChannel ==
    /\ act = "gone" /\ ~alive /\ mailbox # <<>>
    /\ reply' = Closed({mailbox[i] : i \in 1..Len(mailbox)})
    /\ mailbox' = <<>>
    /\ UNCHANGED <<act, parked, woken, ctx_state, work, select, rx_closed, rx_listening, alive,
                   wakes, body, abandoned, later>>

-----------------------------------------------------------------------------
(* Wakers.  What a blocked handler waits for happens.  An exclusive handler *)
(* has the waker of the future itself, a task has an ActorWaker: it locks   *)
(* the wake queue, pushes its index, then calls the future's waker.         *)
NoLock == \A m \in Refs : waking[m] # "locked"

Event(m) ==
    /\ body[m] = "blocked"
    /\ body' = [body EXCEPT ![m] = "ready"]
    /\ IF m \in Refs
       THEN /\ waking[m] = "no"
            /\ waking' = [waking EXCEPT ![m] = "called"] /\ UNCHANGED woken
       ELSE woken' = TRUE /\ UNCHANGED waking
    /\ UNCHANGED <<act, parked, ctx_state, work, select, mail, wake_queue, reply, abandoned, later>>

(* A waker may be called at any time, when its task is done as well. *)
SpuriousWake(m) ==
    /\ body[m] # "new" /\ Len(wake_queue) < MaxWakes
    /\ waking[m] = "no"
    /\ waking' = [waking EXCEPT ![m] = "called"]
    /\ UNCHANGED <<act, parked, woken, ctx_state, work, select, mail, wake_queue, answers, later>>

WakeLock(m) ==
    /\ waking[m] = "called" /\ NoLock
    /\ waking' = [waking EXCEPT ![m] = "locked"]
    /\ UNCHANGED <<act, parked, woken, ctx_state, work, select, mail, wake_queue, answers, later>>

WakePush(m) ==
    /\ waking[m] = "locked"
    /\ wake_queue' = Append(wake_queue, m)
    /\ waking' = [waking EXCEPT ![m] = "pushed"]
    /\ UNCHANGED <<act, parked, woken, ctx_state, work, select, mail, answers, later>>

WakeFuture(m) ==
    /\ waking[m] = "pushed"
    /\ woken' = TRUE
    /\ waking' = [waking EXCEPT ![m] = "no"]
    /\ UNCHANGED <<act, parked, ctx_state, work, select, mail, wake_queue, answers, later>>

(* Timers and streams: an item is due, or its join handle cancels it.  A    *)
(* poll leaves a waker with the handle ("looked"), then one with the timer. *)
Scheduled(t) == sched[t] \in {"armed", "looked", "watched"}

Fire(t) ==
    /\ Scheduled(t) /\ t \notin due
    /\ due' = due \cup {t}
    /\ woken' = (woken \/ sched[t] = "watched")
    /\ UNCHANGED <<act, parked, ctx_state, work, select, mail, wakes, answers, sched, canceled,
                   looking, polled>>

Cancel(t) ==
    /\ Scheduled(t) /\ t \notin canceled
    /\ canceled' = canceled \cup {t}
    /\ woken' = (woken \/ sched[t] # "armed")
    /\ UNCHANGED <<act, parked, ctx_state, work, select, mail, wakes, answers, sched, due,
                   looking, polled>>

-----------------------------------------------------------------------------
(* The executor polls the future: because its waker was called, or for no   *)
(* reason.                                                                  *)
Poll ==
    /\ parked
    /\ parked' = FALSE /\ woken' = FALSE
    /\ UNCHANGED <<act, ctx_state, work, select, mail, wakes, answers, later>>

At(place) == act = place /\ ~parked

(* What user code that has the Context may do with it in one poll: schedule *)
(* a message, and call Context::stop, which closes the channel.             *)
StopChoices == IF MayStop THEN BOOLEAN ELSE {FALSE}

First(t) == sched[t] = "none" /\ \A u \in Streamed : Tick[u] # t

Calls(stops) ==
    /\ sched' \in {sched} \cup {[sched EXCEPT ![t] = "armed"] : t \in {u \in Laters : First(u)}}
    /\ IF stops THEN rx_closed' = TRUE /\ NotifyReceiver
                ELSE UNCHANGED <<rx_closed, woken, rx_listening>>
    /\ UNCHANGED <<mailbox, alive, due, canceled, looking, polled>>

(* One poll of the handler of m, which `ends` or not.  The wrapper skips    *)
(* the body if the requester is gone, else it runs the body to its end or   *)
(* to the event it waits for, and sends the result to the requester.        *)
Finish(m) ==
    /\ body' = [body EXCEPT ![m] = "done"]
    /\ reply' = IF m \in Mail \ abandoned THEN [reply EXCEPT ![m] = "ok"] ELSE reply

PollHandler(m, ends) ==
    /\ \/ /\ body[m] = "new" /\ m \in abandoned
          /\ ends /\ Finish(m)
          /\ UNCHANGED <<woken, ctx_state, mail, later>>
       \/ /\ body[m] = "ready" \/ (body[m] = "new" /\ m \notin abandoned)
          /\ \E stops \in StopChoices :
                /\ Calls(stops)
                /\ ctx_state' = IF stops THEN "StopGraceful" ELSE ctx_state
          /\ IF ends THEN Finish(m)
             ELSE /\ body[m] = "new"
                  /\ body' = [body EXCEPT ![m] = "blocked"] /\ UNCHANGED reply
       \/ /\ body[m] = "blocked" /\ ~ends
          /\ UNCHANGED <<woken, ctx_state, mail, later, body, reply>>
    /\ UNCHANGED abandoned

-----------------------------------------------------------------------------
(* run().  on_start comes first, then the state is Running whatever the     *)
(* hook did to it.                                                          *)
OnStart ==
    /\ At("on_start")
    /\ \E stops \in StopChoices : Calls(stops)
    /\ ctx_state' = "Running" /\ act' = "loop"
    /\ UNCHANGED <<parked, work, select, wakes, answers>>

(* The head of the loop, by the state of the context. *)
LoopGraceful ==
    /\ At("loop") /\ ctx_state = "StopGraceful"
    /\ act' = "resolve" /\ draining' = TRUE
    /\ UNCHANGED <<parked, woken, ctx_state, work, rx_arm, left, mail, wakes, answers, later>>

(* Mutant: the tasks are leaked instead of dropped.                         *)
LoopStopLeaks ==
    /\ At("loop") /\ ctx_state = "Stop"
    /\ act' = "end" /\ tasks' = {}
    /\ UNCHANGED <<parked, woken, ctx_state, task_mut, exclusive, notify, select, mail, wakes,
                   answers, later>>

LoopStop ==
    /\ At("loop") /\ ctx_state = "Stop"
    /\ act' = "end" /\ tasks' = {} /\ reply' = Closed(tasks)
    /\ UNCHANGED <<parked, woken, ctx_state, task_mut, exclusive, notify, select, mail, wakes,
                   body, abandoned, later>>

(* Mutant: the exclusive message does not wait for the tasks to end.        *)
LoopExclusiveAtOnce ==
    /\ At("loop") /\ ctx_state = "Running" /\ task_mut # NoMsg
    /\ act' = "exclusive" /\ exclusive' = task_mut /\ task_mut' = NoMsg
    /\ UNCHANGED <<parked, woken, ctx_state, tasks, notify, select, mail, wakes, answers, later>>

LoopExclusive ==
    /\ At("loop") /\ ctx_state = "Running" /\ task_mut # NoMsg /\ tasks = {}
    /\ act' = "exclusive" /\ exclusive' = task_mut /\ task_mut' = NoMsg
    /\ UNCHANGED <<parked, woken, ctx_state, tasks, notify, select, mail, wakes, answers, later>>

(* Mutant: the mailbox is polled whatever waits.                            *)
LoopSelectAnyway ==
    /\ At("loop") /\ ctx_state = "Running" /\ (task_mut = NoMsg \/ tasks # {})
    /\ act' = "poll_rx"
    /\ rx_arm' = (Cardinality(tasks) < SizeHint)
    /\ UNCHANGED <<parked, woken, ctx_state, work, left, draining, mail, wakes, answers, later>>

LoopSelect ==
    /\ At("loop") /\ ctx_state = "Running" /\ (task_mut = NoMsg \/ tasks # {})
    /\ act' = "poll_rx"
    /\ rx_arm' = (task_mut = NoMsg /\ Cardinality(tasks) < SizeHint)
    /\ UNCHANGED <<parked, woken, ctx_state, work, left, draining, mail, wakes, answers, later>>

(* The message that resolves a select is a new task, the next exclusive     *)
(* message, or a new state.                                                 *)
Handle(m) ==
    /\ act' = "loop"
    /\ \/ /\ m \in Refs /\ NoLock
          /\ tasks' = tasks \cup {m} /\ wake_queue' = Append(wake_queue, m)
          /\ UNCHANGED <<task_mut, ctx_state, notify>>
       \/ /\ m \in Muts
          /\ task_mut' = m
          /\ UNCHANGED <<tasks, wake_queue, ctx_state, notify>>
       \/ /\ m \in Stops
          /\ ctx_state' = IF m \in GracefulStops THEN "StopGraceful" ELSE "Stop"
          /\ notify' = m
          /\ UNCHANGED <<tasks, wake_queue, task_mut>>
    /\ UNCHANGED <<parked, exclusive, select, waking, answers>>

(* fut1, the mailbox, if the select has it. *)
RxMessage ==
    /\ At("poll_rx") /\ rx_arm /\ mailbox # <<>>
    /\ mailbox' = Tail(mailbox)
    /\ Handle(Head(mailbox))
    /\ UNCHANGED <<woken, rx_closed, rx_listening, alive, later>>

RxClosed ==
    /\ At("poll_rx") /\ rx_arm /\ mailbox = <<>> /\ rx_closed
    /\ ctx_state' = "Stop" /\ act' = "loop"
    /\ UNCHANGED <<parked, woken, work, select, mail, wakes, answers, later>>

(* Mutant: no listener is left behind.                                      *)
RxPendingDeaf ==
    /\ At("poll_rx") /\ (rx_arm => mailbox = <<>> /\ ~rx_closed)
    /\ act' = "poll_task"
    /\ UNCHANGED <<parked, woken, ctx_state, work, select, mail, wakes, answers, later>>

RxPending ==
    /\ At("poll_rx") /\ (rx_arm => mailbox = <<>> /\ ~rx_closed)
    /\ rx_listening' = (rx_listening \/ rx_arm)
    /\ act' = "poll_task"
    /\ UNCHANGED <<parked, woken, ctx_state, work, select, mailbox, rx_closed, alive, wakes, answers, later>>

(* fut2, TaskRef::poll_task, if there are tasks; graceful_resolve calls it  *)
(* until there are none.                                                    *)
PollTask ==
    /\ At("poll_task") \/ At("resolve")
    /\ act' = IF tasks # {} THEN "run_tasks" ELSE IF draining THEN "end" ELSE "poll_stream"
    /\ left' = Cardinality(tasks)
    /\ UNCHANGED <<parked, woken, ctx_state, work, rx_arm, draining, mail, wakes, answers, later>>

(* Mutant: no hard break after as many polls as there were tasks.           *)
TaskPopOn ==
    /\ At("run_tasks") /\ wake_queue # <<>> /\ NoLock
    /\ wake_queue' = Tail(wake_queue)
    /\ left' = left - 1
    /\ UNCHANGED <<act, parked, task_mut, exclusive, notify, rx_arm, draining, waking>>

(* The index on top of the queue is that of a task, or it is stale: then    *)
(* its slot is another task's, or empty.                                    *)
TaskPop ==
    /\ At("run_tasks") /\ left > 0 /\ wake_queue # <<>> /\ NoLock
    /\ wake_queue' = Tail(wake_queue)
    /\ left' = left - 1
    /\ UNCHANGED <<act, parked, task_mut, exclusive, notify, rx_arm, draining, waking>>

RunTask(m) ==
    /\ TaskPop
    /\ m \in tasks /\ (m = Head(wake_queue) \/ Head(wake_queue) \notin tasks)
    /\ \E ends \in BOOLEAN : /\ PollHandler(m, ends)
                             /\ tasks' = IF ends THEN tasks \ {m} ELSE tasks

RunStale ==
    /\ TaskPop
    /\ Head(wake_queue) \notin tasks
    /\ UNCHANGED <<woken, ctx_state, tasks, mail, answers, later>>

(* Mutant: the future yields without waking itself.                         *)
TasksYieldAsleep ==
    /\ At("run_tasks") /\ left = 0
    /\ act' = IF draining THEN "resolve" ELSE "loop"
    /\ parked' = TRUE
    /\ UNCHANGED <<woken, ctx_state, work, select, mail, wakes, answers, later>>

(* As many polls as there were tasks: the future wakes itself and yields.   *)
TasksYield ==
    /\ At("run_tasks") /\ left = 0
    /\ act' = IF draining THEN "resolve" ELSE "loop"
    /\ parked' = TRUE /\ woken' = TRUE
    /\ UNCHANGED <<ctx_state, work, select, mail, wakes, answers, later>>

(* Nothing to poll, or a waker holds the lock of the queue. *)
TasksPending ==
    /\ At("run_tasks") /\ left > 0 /\ (wake_queue = <<>> \/ ~NoLock)
    /\ act' = IF draining THEN "resolve" ELSE "poll_stream"
    /\ parked' = draining
    /\ UNCHANGED <<woken, ctx_state, work, select, mail, wakes, answers, later>>

(* fut3 and fut4, the streams and the timers S, unless an exclusive message *)
(* waits.  One pass polls each item once: first its join handle, and a      *)
(* canceled item is forgotten, then its timer or stream.                    *)
Unpolled(S) == {t \in S : Scheduled(t) /\ t \notin polled}

(* Mutant: the join handle is not looked at.                                *)
LookLaterBlind(S) ==
    /\ task_mut = NoMsg /\ looking = NoMsg
    /\ \E t \in Unpolled(S) : /\ looking' = t
                              /\ sched' = [sched EXCEPT ![t] = IF @ = "armed" THEN "looked" ELSE @]
    /\ UNCHANGED <<act, parked, woken, ctx_state, work, select, mail, wakes, answers, due, canceled, polled>>

LookLater(S) ==
    /\ task_mut = NoMsg /\ looking = NoMsg
    /\ \E t \in Unpolled(S) :
          IF t \in canceled
          THEN sched' = [sched EXCEPT ![t] = "gone"] /\ UNCHANGED looking
          ELSE sched' = [sched EXCEPT ![t] = IF @ = "armed" THEN "looked" ELSE @] /\ looking' = t
    /\ UNCHANGED <<act, parked, woken, ctx_state, work, select, mail, wakes, answers, due, canceled, polled>>

(* It is due and resolves the select.  An interval sets its timer again,    *)
(* keeps its handle, and wakes the future; a stream may.                    *)
Again(t) == {u \in Streamed : t \in Streamed /\ Tick[t] = u /\ sched[u] = "none"}

(* Mutant: the next tick does not know the handle.                          *)
TakeLaterDetached(S) ==
    /\ task_mut = NoMsg /\ looking \in S \cap due
    /\ sched' = [u \in Laters |-> IF u = looking THEN "gone"
                                  ELSE IF u \in Again(looking) THEN "armed" ELSE sched[u]]
    /\ woken' \in {woken, woken \/ looking \in Streamed}
    /\ Handle(looking)
    /\ looking' = NoMsg /\ polled' = {}
    /\ UNCHANGED <<mail, due, canceled>>

TakeLater(S) ==
    /\ task_mut = NoMsg /\ looking \in S \cap due
    /\ sched' = [u \in Laters |-> IF u = looking THEN "gone"
                                  ELSE IF u \in Again(looking) THEN "armed" ELSE sched[u]]
    /\ canceled' = IF looking \in canceled THEN canceled \cup Again(looking) ELSE canceled
    /\ woken' \in {woken, woken \/ looking \in Streamed}
    /\ Handle(looking)
    /\ looking' = NoMsg /\ polled' = {}
    /\ UNCHANGED <<mail, due>>

(* Mutant: the timers keep no waker.                                        *)
LaterPendingDeaf(S) ==
    /\ task_mut = NoMsg /\ looking \in S \ due
    /\ polled' = polled \cup {looking} /\ looking' = NoMsg
    /\ UNCHANGED <<act, parked, woken, ctx_state, work, select, mail, wakes, answers, sched, due, canceled>>

LaterPending(S) ==
    /\ task_mut = NoMsg /\ looking \in S \ due
    /\ sched' = [sched EXCEPT ![looking] = "watched"]
    /\ polled' = polled \cup {looking} /\ looking' = NoMsg
    /\ UNCHANGED <<act, parked, woken, ctx_state, work, select, mail, wakes, answers, due, canceled>>

PassDone(S) ==
    /\ looking = NoMsg /\ (task_mut = NoMsg => Unpolled(S) = {})
    /\ polled' = {}
    /\ UNCHANGED <<woken, ctx_state, work, select, mail, wakes, answers, sched, due, canceled, looking>>

PollStream == /\ At("poll_stream")
              /\ \/ LookLater(Streamed) \/ TakeLater(Streamed) \/ LaterPending(Streamed)
                 \/ (PassDone(Streamed) /\ act' = "poll_future" /\ UNCHANGED parked)

(* All arms are pending, so is the select. *)
PollFuture == /\ At("poll_future")
              /\ \/ LookLater(Timers) \/ TakeLater(Timers) \/ LaterPending(Timers)
                 \/ (PassDone(Timers) /\ act' = "poll_rx" /\ parked' = TRUE)

(* handle_wait, alone: in the loop, or after a graceful stop. *)
RunExclusive ==
    /\ At("exclusive")
    /\ \E ends \in BOOLEAN :
          /\ PollHandler(exclusive, ends)
          /\ parked' = ~ends
          /\ IF ends THEN exclusive' = NoMsg /\ act' = IF draining THEN "on_stop" ELSE "loop"
                     ELSE UNCHANGED <<exclusive, act>>
    /\ UNCHANGED <<task_mut, tasks, notify, select, wakes>>

(* Mutant: the exclusive message taken last is forgotten.                   *)
EndForgets ==
    /\ At("end")
    /\ act' = "on_stop"
    /\ UNCHANGED <<parked, woken, ctx_state, work, select, mail, wakes, answers, later>>

(* The end of run(). *)
End ==
    /\ At("end")
    /\ IF ctx_state = "StopGraceful" /\ task_mut # NoMsg
       THEN act' = "exclusive" /\ exclusive' = task_mut /\ task_mut' = NoMsg
       ELSE act' = "on_stop" /\ UNCHANGED <<exclusive, task_mut>>
    /\ UNCHANGED <<parked, woken, ctx_state, tasks, notify, select, mail, wakes, answers, later>>

OnStop ==
    /\ At("on_stop")
    /\ \E stops \in StopChoices :
          /\ Calls(stops)
          /\ ctx_state' = IF stops THEN "StopGraceful" ELSE ctx_state
    /\ act' = "ack"
    /\ UNCHANGED <<parked, work, select, wakes, answers>>

Acknowledge ==
    /\ At("ack")
    /\ reply' = IF notify \in Stops \ abandoned THEN [reply EXCEPT ![notify] = "ok"] ELSE reply
    /\ notify' = NoMsg /\ act' = "drop"
    /\ UNCHANGED <<parked, woken, ctx_state, task_mut, exclusive, tasks, select, mail, wakes,
                   body, abandoned, later>>

(* What is left of the future is dropped; dropping the receiver closes the  *)
(* channel and leaves its messages in it.  A panic or a dropped future gets *)
(* there from anywhere.                                                     *)
DropFuture ==
    /\ (act = "drop" /\ ~parked) \/ (MayAbort /\ act # "gone")
    /\ act' = "gone" /\ parked' = FALSE
    /\ reply' = Closed(tasks \cup {task_mut, exclusive, notify})
    /\ tasks' = {} /\ task_mut' = NoMsg /\ exclusive' = NoMsg /\ notify' = NoMsg
    /\ rx_closed' = TRUE /\ rx_listening' = FALSE
    /\ sched' = [t \in Laters |-> "gone"] /\ looking' = NoMsg /\ polled' = {}
    /\ UNCHANGED <<woken, ctx_state, select, mailbox, alive, wakes, body, abandoned, due, canceled>>

-----------------------------------------------------------------------------
Run ==
    \/ OnStart \/ LoopGraceful \/ LoopStop \/ LoopExclusive \/ LoopSelect
    \/ RxMessage \/ RxClosed \/ RxPending
    \/ PollTask \/ (\E m \in Refs : RunTask(m)) \/ RunStale \/ TasksYield \/ TasksPending
    \/ PollStream \/ PollFuture \/ RunExclusive
    \/ End \/ OnStop \/ Acknowledge \/ DropFuture

Environment ==
    \/ \E m \in Mail : Send(m) \/ Abandon(m)
    \/ DropAddrs \/ FreeChannel
    \/ \E m \in Bodies : Event(m)
    \/ \E m \in Refs : SpuriousWake(m) \/ WakeLock(m) \/ WakePush(m) \/ WakeFuture(m)
    \/ \E t \in Laters : Fire(t) \/ Cancel(t)

Next == Run \/ Poll \/ Environment

Spec == Init /\ [][Next]_vars

(* The executor polls the future when its waker was called and runs each    *)
(* poll to its end; wakers finish; what a handler waits for happens.        *)
FairSpec ==
    /\ Spec
    /\ WF_vars(~parked /\ Run) /\ WF_vars(woken /\ Poll)
    /\ \A m \in Bodies : SF_vars(Event(m))
    /\ \A m \in Refs : SF_vars(WakeLock(m)) /\ WF_vars(WakePush(m)) /\ WF_vars(WakeFuture(m))

-----------------------------------------------------------------------------
(* An exclusive message runs alone: no task of a concurrent message is left *)
(* when it starts and none starts before it ends.                           *)
ExclusiveAlone == exclusive # NoMsg => tasks = {} /\ task_mut = NoMsg

(* An exclusive message is a barrier: from the moment the actor takes it to *)
(* its end, no other message is taken, not even a stop message, and it is   *)
(* not replaced.                                                            *)
BarrierStep ==
    task_mut # NoMsg \/ exclusive # NoMsg =>
        /\ tasks' \subseteq tasks
        /\ notify' \in {notify, NoMsg}
        /\ task_mut' \in {task_mut, NoMsg}
        /\ exclusive' \in {exclusive, task_mut, NoMsg}

Barrier == [][BarrierStep]_vars

(* A future that returned Pending and was not woken has no task that could  *)
(* run, unless a waker is on its way to wake it: no order of pushes to the  *)
(* wake queue, failed try_lock calls and polls loses a task.                *)
TaskNotStranded ==
    parked /\ ~woken /\ (\A m \in Refs : waking[m] = "no") =>
        /\ \A m \in tasks : body[m] = "blocked"
        /\ exclusive # NoMsg => body[exclusive] = "blocked"

(* Nor has it a message to take, while it accepts any.                      *)
InboxNotStranded ==
    parked /\ ~woken /\ act = "poll_rx" /\ task_mut = NoMsg =>
        /\ rx_arm => mailbox = <<>> /\ ~rx_closed
        /\ \A t \in due \cup canceled : ~Scheduled(t)

InMailbox(m) == \E i \in 1..Len(mailbox) : mailbox[i] = m

(* No request waits for a message that a gone actor has taken: it has its   *)
(* answer, or it learns that there will be none.                            *)
TakenAnswered ==
    act = "gone" => \A m \in Mail : reply[m] = "waiting" =>
                        m \in abandoned \/ InMailbox(m)

(* A graceful stop that got to on_stop has run every message that the actor *)
(* had taken to its end: nothing is cut off or forgotten.                   *)
GracefulCompletes ==
    act = "on_stop" /\ ctx_state = "StopGraceful" =>
        /\ tasks = {} /\ task_mut = NoMsg
        /\ \A m \in Bodies : body[m] \in {"new", "done"}
        /\ \A m \in Mail \cap Bodies : reply[m] = "waiting" =>
              m \in abandoned \/ InMailbox(m)

(* A scheduled message that is canceled never runs, unless the cancel came  *)
(* between the look at its handle and the poll of its timer; then the next  *)
(* tick of its interval does not run.                                       *)
CanceledStep ==
    /\ \A t \in canceled \ {looking} : Scheduled(t) =>
          t \notin tasks' /\ t # task_mut' /\ looking' # t
    /\ looking \in canceled /\ sched'[looking] = "gone" /\ act' # "gone" =>
          Again(looking) \subseteq canceled'

CanceledNeverRuns == [][CanceledStep]_vars

(* The tasks of messages from the mailbox are at most size_hint, whatever   *)
(* timers and streams add to them.                                          *)
MailTasksBounded == Cardinality(tasks \ Laters) <= SizeHint

(* At most size_hint concurrent tasks (actor.rs: "Limit the max count of    *)
(* in flight messages and concurrent async tasks").                         *)
ConcurrencyBounded == Cardinality(tasks) <= SizeHint

(* A graceful stop, once the loop runs, is not turned into an immediate one *)
(* (Context::stop: "end the actor gracefully").                             *)
GracefulKept == [][ act # "on_start" /\ ctx_state = "StopGraceful" => ctx_state' = "StopGraceful" ]_vars

(* An actor that stopped gracefully left no message behind (Addr::stop:     *)
(* "shut it's channel and drain all remaining messages and exit").          *)
DrainedAtExit == act = "gone" /\ ctx_state = "StopGraceful" => mailbox = <<>>

(* Messages remain in the mailbox only until there is a free slot: an actor *)
(* that waits, and was not woken, with messages in its mailbox is full, or  *)
(* an exclusive message is its next (Addr::do_send).                        *)
MailboxServed ==
    parked /\ ~woken /\ act = "poll_rx" /\ task_mut = NoMsg /\ mailbox # <<>> =>
        Cardinality(tasks) >= SizeHint

(* Who was told that the actor stopped cannot send to it any more.          *)
AckAfterClose == (\E m \in Stops : reply[m] = "ok") => rx_closed

(* Every request gets an answer, or learns that there will be none, or is   *)
(* given up by its caller, unless its message stays in the mailbox of an    *)
(* actor that ended.                                                        *)
Answered ==
    \A m \in Mail : reply[m] = "waiting" ~>
        reply[m] # "waiting" \/ m \in abandoned \/ (act = "gone" /\ InMailbox(m))

(* An actor that took a stop message ends, and closes its channel.          *)
StopEnds == notify # NoMsg ~> act = "gone" /\ rx_closed
=============================================================================
