# A verification of actix-async

TLA+ models of the actor library in `src/actix-async`, TLC runs that check them on
small instances, and TLAPS proofs about them for every value of their constants.
Paths below are relative to `src/actix-async/src/`.

Contents: 1 the system, 2 the modules, 3 how they correspond to the code, 4 the runs,
5 what the code does not keep, 6 the proofs, 7 what is not modelled, 8 the plan.

To check a run: `tlc -config <run>.cfg <module>.tla`, modules as listed in section 4.
To check proofs: `tlapm <module>Proofs.tla`.

## 1. The system

An actor is a future, `ContextFuture`, that owns the actor's state, takes messages from
a bounded mailbox, and runs their handlers. An `Addr` is a sender of the mailbox; a
request sends a message together with a one-shot channel and waits for the answer there.

| component | state | operations | hard behaviours | what makes it correct |
|---|---|---|---|---|
| one-shot channel `util/async_oneshot.rs` | a bit set (READY, CLOSED, RECV), two unsafe cells: value and waker | `send`, drop of the sender, `poll`, drop of the receiver | every atomic access of two threads interleaves; the receiver may move between tasks | the value is read once, after it was written; no wakeup is lost; the receiver resolves |
| mailbox `util/async_channel/mod.rs` | a queue, the counter `in_queue`, two events, sender and receiver counts | `send`, `do_send`, `poll_next`, `close`, cancel of a pending send | check-then-act on the counter and on the queue, wakeups, cancellation, close | slots are accounted for, capacity is kept, nobody sleeps beside what it waits for |
| events `util/async_channel/listener.rs` | an intrusive list behind a lock, a start pointer, a counter read without the lock, one cached entry | `listen`, poll, drop, `notify` | the stale counter; removal in the middle; ownership of the cached entry | a notification is never lost, the latest waker is the one called |
| queue `util/async_channel/unbounded.rs` | head and tail indices with a mark each, linked blocks of slots with three state bits | push, pop, close, drop | lock-free: blocks are linked after the tail has moved on, and freed by whichever reader is last | it is a first-in first-out queue; no block is used after it was freed or freed twice |
| actor loop `context_future.rs`, `waker.rs` | the run state, the slab of tasks, the wake queue, the exclusive message, the stop to acknowledge | poll of the select's four arms, poll of tasks, graceful resolve, end | messages, wakers and timers of other threads between any two steps; stops, panics and drops at any step | exclusive messages run alone; no runnable task and no message is left behind; who waits is answered |
| handlers and messages `handler.rs`, `message.rs` | containers of messages, futures, intervals, streams | handle, drop of an abandoned request | cancel of what is about to run | what is canceled before its handle is looked at does not run, and an interval not again |
| context `context.rs` | the run state and scheduled items of an actor | stop, run_later, run_interval, add_stream, join handles | called by handlers in the middle of a poll | a graceful stop is graceful |
| requests `request.rs` | two phases, two timeouts | poll, timeouts, drop | the message, the answer and the timers race | the outcome tells what happened to the message |
| addresses `address.rs`, the counts of `util/async_channel/mod.rs` | senders, receivers and their counts | send, wait, do_send, do_wait, stop, clone, upgrade, recipients, `Context::address` | last address dropped while one is upgraded or made from the actor's side | the counts are true; a live address has an open channel; the channel closes when no address or no actor is left |
| actor and runtime traits `actor.rs`, `runtime.rs` | none | create, start, hooks, spawn, sleep | | |
| supervisor `supervisor/` | the join handles its clones share, worker threads with a semaphore and an exit signal each, a channel of actors on their way, instances that share a mailbox | start, stop, drop of a clone, poll of a worker, restart after a panic | stops and drops of several clones at once, stop against start, timeouts, panics | a graceful stop aborts nothing it can see; every thread ends; a panicked actor comes back and its mailbox is served |
| errors, locks, futures, macros | none worth a model | | | |

How they interact: `Addr::send` builds a request around a `SendFuture` of the mailbox and
a one-shot receiver; the mailbox's senders and receiver wait on events; the actor loop is
the mailbox's receiver and holds the one-shot senders inside the messages it has taken;
when the loop ends it drops the messages it has taken (their requests learn that there is
no answer) and its receiver (which closes the mailbox). Everything that waits does so by
leaving a waker with whoever will end the wait, so that the hazard of every component is
the same: a look at a state, a change of it by somebody else, and then a wait.

## 2. The modules

| module | what it is |
|---|---|
| `OneshotPromise` | abstract: what a one-shot channel promises to its two ends |
| `Oneshot` | `async_oneshot.rs`, at the grain of atomic accesses and cell accesses; implements `OneshotPromise` |
| `ListenerSet` | operators on the listeners of an event, shared by the next three |
| `EventPromise` | abstract: an event, as `Channel` uses it |
| `EventListener` | `listener.rs`; implements `EventPromise` |
| `FifoQueue` | abstract: a queue whose calls take effect one at a time |
| `Unbounded` | `async_channel/unbounded.rs`, at the grain of atomic accesses; implements `FifoQueue` |
| `Channel` | `async_channel/mod.rs`: send, do_send, receive and close at the grain of atomic accesses, over abstract events and an abstract queue |
| `ChannelHandles` | `async_channel/mod.rs` with `address.rs` and `Context::address`: who holds the channel, and what its counts say |
| `ContextFuture` | `context_future.rs` with `waker.rs` and what it calls of `handler.rs`, `message.rs`, `context.rs` |
| `MessageRequest` | `request.rs` |
| `Supervisor` | `supervisor/mod.rs`, `supervisor/worker.rs` and `Actor::supervised` |
| `MCChannel`, `MCEventListener`, `MCUnbounded`, `MCContextFuture` | symmetry sets, and the ticks of an interval, for TLC |
| `OneshotProofs`, `ChannelProofs`, `EventListenerProofs`, `ChannelHandlesProofs`, `ContextFutureProofs`, `MessageRequestProofs`, `SupervisorProofs`, `UnboundedProofs` | theorems |

The layers are tied together by abstraction, not by one big model. `EventListener` is
shown to implement `EventPromise`, and `Channel` manipulates its `ear` with the operators
that `EventPromise` is built from (`ListenerSet`). `Unbounded` is shown to implement
`FifoQueue`, which is what `Channel` takes its queue for. `ContextFuture` takes its mailbox for a
queue that notifies its receiver, which is what `Channel`'s `ReceiverNotStranded` shows,
and an answer for a single step, which is what `Oneshot` implementing `OneshotPromise`
shows. `MessageRequest` takes the channel for something that may notify its listener, the
answer for a one-shot channel, and the actor for what may become of one message.
`Supervisor` takes the channel to its workers, and the mailbox that instances share, for
what `Channel` and `ChannelHandles` show: a queue that is closed for good, and that closes
when one of its sides is gone; and an instance for the life of a `ContextFuture`.

Definitions whose comment begins with "Mutant" are plausible wrong versions of the
definition that follows them. Nothing refers to them: each one, put in place of the right
version, makes TLC report the violation of the property that PROJECT.json names beside
it, which shows that the property is about the code.

## 3. Correspondence with the code

PROJECT.json maps each definition to its lines. What is abstracted:

**Oneshot.** The sender is consumed by `send` or dropped; the receiver is polled with any
of a set of wakers, in any order, until it resolves or is dropped. Every load, `fetch_or`
and access of a cell is a step. Memory is sequentially consistent: there is one atomic
word, its updates are `AcqRel` and its loads `Acquire`, and the cells are ordered by it.

**Channel.** `queued` counts messages (they are not told apart), `in_queue` is the counter
modulo `Word`, so that its wrap is visible. `ear` stands for the two events. Each call is
a sequence of steps by `pc`: a `SendFuture` loads the counter once (`SendLoad`), checks
it or takes a slot by compare-exchange (`SendReserve`), listens (`SendListen`), polls its
listener (`SendAwait`), pushes, wakes. A spurious failure of `compare_exchange_weak`
repeats the step and is left out as a stutter. The queue is `FifoQueue`. With
`SingleThread` a call runs to its end before another one starts: tasks of a
current-thread executor. `doSent` is a history variable.

**EventListener.** What happens under the lock is one step; the read of the counter in
`notify` before the lock is a step of its own. The list is a sequence of listeners with
the start pointer as the listener it points at: what is removed is taken out at its place
(`Place`, `Unlinked`), and the pointer moves on if it was there. `Ears` and `Calls` map the
entries and the calls of `notify` to those of `EventPromise`. Before the first
`listen` the code has no `Inner`: an empty list with its counter at `usize::MAX` behaves alike. `notify_additional` is never
called and is left out. The fences of the code make the counter's accesses sequentially
consistent.

**ContextFuture.** `act` is where `run()` is, `parked` that it returned `Pending` there;
`woken` that its waker was called. A select is its arms one after the other: the mailbox
(`RxMessage`, `RxClosed`, `RxPending`), the tasks (`PollTask` to `TasksPending`), streams
(`PollStream`), timers (`PollFuture`). Senders, wakers and timers act between any two
steps. A waker is three steps (`WakeLock`, `WakePush`, `WakeFuture`), because the actor's
`try_lock` fails while a waker has the lock and reads as an empty queue. A message stands
for its task and its request as well. A pass over streams or timers polls each item once
(`Unpolled`, `PassDone`): first its join handle (`LookLater`), then its timer or stream
(`TakeLater`, `LaterPending`), and the timer may go off or the handle cancel between the
two. Each of the two keeps a waker, so that `sched` tells an item that was never polled
("armed") from one whose handle has a waker ("looked") and one whose timer has one too
("watched"). An interval is a chain of messages, one for each tick, by the constant
`Tick`; taking one arms the next, with the same handle, and wakes the future. Over-approximations: a stale index of the wake queue
may be the slot of any task; `DropFuture` (a panic, or the future dropped by its executor)
may come at any step. Bounds: an interval ticks
as often as its chain is long, and a stream is such a chain; a poll of user code schedules
at most one item; there is one wake in flight for each message, and a spurious one only while the wake queue is shorter than
`MaxWakes`; `on_start` and `on_stop` take one step each; sends to the mailbox never wait
(that is `Channel`'s matter).

**Unbounded.** Each load, store, compare-exchange and `fetch_or` is a step, named for
what it does (`PushIndex`, `PushBlock`, `PushAdvance`, ...). Three actions join two
accesses, whose order with the steps of others makes no difference: `PushWrite` writes the
value and sets WRITE (`unbounded.rs:220`; nobody reads the value before the bit is set);
`PopRead` waits for WRITE and reads the value (`unbounded.rs:58` and 304; the bit stays
set, and the value is that popper's alone); `PopDestroy` loads the bits and sets DESTROY
(`unbounded.rs:103`; READ is never unset, so that a load that finds it decides alone, and
after one that does not the `fetch_or` looks again). A spin is a repeated step; `compare_exchange_weak` may fail for no
reason (`PushRetry`, `PopRetry`), after which the loop starts over. A block is a number in
the order of installation, a position an index with its mark, and `live` the blocks that
are allocated, so that a use after free is a thread at work in a block that is not in
`live` (`Touched`). `DropStart` to `DropEnd` is `Drop for Unbounded`, which has the queue
to itself. `entered` and `left` are history: the values by index, and how many were
claimed; `FifoQueue`'s items are what lies between. Left out: the block that `push`
allocates in advance and the wrap of the indices; memory is sequentially consistent
(section 7). Blocks have `Lap - 1` slots, 31 in the code.

**ChannelHandles.** `sender[h]` and `receiver[q]` are places in which a handle comes and
goes. The load and the compare-exchange of `upgrade` (`UpgradeLoad`, `UpgradeSwap`,
`UpgradeRetry`), the count and the look of `as_sender`, and the decrement and the close of
a drop are steps of their own. Weak senders are not counted by the code and have no state:
an upgrade may start at any time, and a recipient is an address in a box. `stopped` and
`revived` are history: somebody closed the channel by a call; `as_sender` has counted up
from zero.

**MessageRequest.** A poll is several steps: the `SendFuture` or the receiver of the
answer, then the timer. The `SendFuture` is at the grain of `Channel`: it loads the counter
(`SendLoad`; `seen` is what its copy shows), takes a slot by compare-exchange
(`SendReserve`), and without one listens (`SendListen`) and polls its listener
(`SendNotified`, `SendPending`), with no second look at the counter. The rest of the channel
is whatever may happen to one sender: others take slots and give them back (`Slot`), close
the channel (`Close`), and notify this sender's listener at any time or never (`Notify`),
since `notify(1)` may choose another sender's. Others handle the message or lose it, and
the timers go off, between any two steps. The configuration of the timeouts is part of the
initial state.

**Supervisor.** `call[c]` is where clone `c` is in `stop` or `drop`; `cur`, `mine` and
`how` are the worker a stop is about, the workers it has taken and not finished, and its
argument, with `"waited"` for a graceful stop that returned true. A stop of one worker is
`StopNext`, `StopAcquired`, `StopRelease`, `StopSignal`, `StopJoin`; its timeout may come
at each of its awaits, and drops the rest, the request for permits included. An instance
is `queued` in the channel, `picked` by a worker that is in the middle of its poll (and
runs nothing else: `Polls`), `running`, `stopping` once it has called `Context::stop`,
`panicked` until its restart, `ended`, or `aborted` by the end of its worker or of the
channel. Its permit is held from `running`
on; `limit` says who has the others. A worker that finds no permit for an instance panics
(`SpawnPanics`), as its `unwrap` does. Messages are taken by any running instance, and
answered, or lost with it. A stop message ends the instance that took it, and the mailbox
stays open for the others (`Answer`). The mailbox closes for all of them when one calls
`Context::stop` (`ContextStop`) or the last address goes (`Shut`); an instance that is
`stopping` ends with whatever is queued, the others when the mailbox is empty (`Finish`). `late` is history: an instance was on its way when the supervisor closed. Bounds:
one call of `start`, of `Instances`; each message is sent once; `MaxPanics`. Callers of
stop and drop are on threads of their own.

## 4. The runs

| run (module) | properties | instance |
|---|---|---|
| `Oneshot` (`Oneshot`) | `TypeOK`, `ValueReadOnce`, `NoLostWakeup`, `PromiseKept`, `Answered` | three wakers |
| `ChannelThreads` (`MCChannel`) | `TypeOK`, `SlotsAccounted`, `CapacityKept`, `ReceiverNotStranded` | 2 senders with 2 sends each, by send or do_send, 2 receivers, 1 closer, capacity 2 |
| `ChannelSingle` (`MCChannel`) | `SenderNotStranded`, `SendCompletes`, `QueueDrained` | 3 senders with 2 sends each, 1 receiver, capacity 2, one thread |
| `Event` (`MCEventListener`) | `NotifiedFirst`, `CacheUnshared`, `LatestWakerCalled`, `PromiseKept` | 3 listeners, 2 notifiers, 2 wakers |
| `Queue` (`MCUnbounded`) | `MemorySafe`, `WaitsForAnother`, `FifoKept` | 2 pushers and 2 poppers with 2 calls each, blocks of 2 slots, close and drop |
| `Handles` (`ChannelHandles`) | `CountsTrue`, `LiveIsOpen`, `AbandonedCloses` | 3 places for senders, 2 for receivers |
| `ActorLoop` (`MCContextFuture`) | `TypeOK`, `TaskNotStranded`, `InboxNotStranded`, `CanceledNeverRuns` | an interval of two ticks, an exclusive message of a timer, an immediate stop, size_hint 2, spurious wakes |
| `ActorStop` (`MCContextFuture`) | `ExclusiveAlone`, `GracefulCompletes`, `TakenAnswered`, `Barrier`, `Answered`, `StopEnds` | a concurrent and an exclusive message, a graceful stop, `Context::stop`, panics and drops, spurious wakes |
| `Request` (`MessageRequest`) | `OutcomeTrue`, `RestsWatched`, `Ends`, `AnswerHeard` | everything |
| `Supervisor` (`Supervisor`) | `SettledKept`, `WorkersEnd`, `MailServed` | 2 clones, 2 workers, 1 instance, a message and a stop message, 1 panic |
| `ChannelRace` (`MCChannel`), `SupervisorGraceful` (`Supervisor`) | section 5 | the smallest that shows it |

Why the bounds are enough. *Oneshot*: three wakers let a receiver move twice,
the rest of the state is finite. *Channel*: capacity 2 distinguishes the first, the last
and a middle slot, which the code treats differently (`seen + 1 = Cap`); two sends of two
senders exceed it; two receivers compete for one message and pass a notification on; the
wrap of the counter needs one do_send. *Event*: three listeners give an entry in the
middle of the list and a start pointer before, at and after it; two notifiers give a stale
counter. *Actor*: two tasks are needed for a task that waits behind the hard break,
and fill size_hint 2; two ticks for a cancel between them; an exclusive message behind a
running task and beside a stop message for the barrier and for the stop that finds it
waiting. Two stops, exclusive messages,
streams and spurious wakes together exceed what can be explored, so that the two runs
divide them; the proofs are about all of them together. *Unbounded*: four values in blocks
of two slots fill one block and enter a third, so that a push and a pop meet each boundary;
two poppers leave each other the last slot of a block to free. *Handles*: two addresses may
go while a third comes. *Supervisor*: two clones that see each other in the count; two
workers, of which one is stopped while the other still runs the instance; one panic and
one restart; `SupervisorGraceful` has two instances, one to hold the stop up. What more of
either would add is left to the theorem `GracefulSettles`.

Fairness. *Oneshot*, *Channel*, *MessageRequest* and the steps of *ContextFuture*: a
thread that is in the middle of a call, or an executor in the middle of a poll, goes on
(weak fairness). A task that was woken is polled again: that is what an executor is for;
strong fairness in `Channel`, since on one thread another task's poll disables it now and
then, but the executor's queue is first-in first-out. Nobody has to send, cancel, drop,
close or be polled for no reason. In `ContextFuture` what a handler waits for happens
again and again (`SF` of `Event`: a handler that waits for ever would starve its request,
and nothing in this code is to blame); a waker gets the lock of the wake queue (`SF` of
`WakeLock`: the other holders only push or pop an index). Timers and cancels need not
happen there. In `MessageRequest` time passes (`WF` of `Fire`), and the poll of a listener
is strongly fair (`SF` of `SendPending`): one poll of a `SendFuture` repeats as long as each
new listener is notified before it is polled, and threads do not keep in step like that for
ever. *ChannelHandles*: a drop
that has begun ends. *Supervisor*: threads run, tasks that can run are polled, and the
timer of a stop goes off; nobody has to send, panic, stop or drop.

Symmetry is used only where no liveness is checked.
`CHECK_DEADLOCK FALSE` is set where the system may stop: the sends that the bound allows
are done, the actor is gone, the listeners are left alone.

## 5. What the code does not keep

Two runs check a statement of the repository that the code contradicts; TLC shows a
behaviour of each.

- `ChannelRace`, `SenderNotStranded`. `SendFuture::poll` reads `in_queue` once and begins
  to listen with `// Start listening and then try receiving again.` (`mod.rs:199`), but
  the retry looks at the old value. On two threads the receiver may empty the queue, and
  notify nobody, in between: the sender waits beside a free slot. So may a request, and
  `RestsWatched` of `MessageRequest` therefore says nothing of slots: only that its listener
  is in the list with its waker.
- `SupervisorGraceful`, `GracefulWaits`. The doc of `Supervisor::stop`
  (`supervisor/mod.rs:71`) says that a graceful stop waits for all actors. A worker that
  has no instance yet gives the stop all its permits at once. An instance that is still in
  the channel then meets no permit (`worker.rs:91`, whose `unwrap` panics the worker), or
  is spawned when the permits are back and dropped at the worker's exit; `stop` returns
  true all the same. `SettledKept` is what holds: without an instance on its way when the
  supervisor closes (`~late`), a graceful stop aborts none.

The modules state more properties that the code does not keep, which a reader may add to
a run. They are documentation, not goals; section 4's runs check what holds instead.

- `SenderNotStranded` (`Channel`, one thread, `DoSends`, capacity 1): `do_send` takes no
  slot; the receipt of its message gives one back (`mod.rs:52`). One `do_send` to an idle
  actor wraps the counter to `usize::MAX`, and every later `send` waits.
- `ClosedReleasesSenders` (`Channel`): a sender that waits when the channel closes is
  notified (`// Notify all send operations.`, `mod.rs:38`), finds the counter still at the
  capacity and listens again; nobody will ever wake it. Only a sender that gets a slot
  learns that the channel is closed.
- `GracefulKept` (`ContextFuture`): `Context::stop` closes the channel; if a task is left,
  the next select finds the mailbox closed and empty and replaces `StopGraceful` by
  `Stop`, which drops that task (`context_future.rs:302`). The doc of `Context::stop`
  promises a graceful end.
- `StopShuts` (`Supervisor`): of several instances on one mailbox one takes the stop
  message; it is acknowledged, and the others go on with an open mailbox, where the doc of
  `Addr::stop` lets the actor shut its channel and exit.
- `NoWakerRace` (`Oneshot`): a receiver that is polled again stores its waker without a
  look at the bit RECV, while a sender that saw the bit may be reading the cell.
- `ValueTaken` (`Oneshot`): a value that was sent when the receiver goes without another
  poll is taken by neither end, and the drop of the shared state drops only the wakers
  (`async_oneshot.rs:95`), so that the value is never dropped.
- `DrainedAtExit` (`ContextFuture`): after `Addr::stop(true)` the loop ends its tasks and
  exits; the messages behind the stop stay in the mailbox. `Answered` says what remains.
- `ConcurrencyBounded`: items of timers and streams become tasks beyond `size_hint`.
  `MailTasksBounded` says what remains.
- `MailboxServed`: the arms of a select are chosen when it is made, so that an actor that
  was full then does not look at its mailbox although tasks have ended since.
- `AckAfterClose`: a stop is acknowledged before the receiver's drop closes the channel.
- `PanicIsReceiver` (`MessageRequest`): the answer lost in a panic is reported as `Closed`;
  no code makes the error `Receiver` that `error.rs:14` documents.

Two remarks that no property states. `recipient_weak` is documented not to care whether a
strong `Recipient` is alive (`address.rs:157`), but a `Recipient` holds an `Addr`, and
`ChannelHandles` counts it as one. And the exceptions of `LiveIsOpen` and `MailServed` are
the code's: `as_sender` may count up from zero while the last sender is closing the
channel, so that an address of a closing channel is handed out; and a panicked instance
whose mailbox is closed is not started again, so that what is queued there stays.

## 6. The proofs

Each theorem holds for every value of the constants that satisfies the ASSUMEs of its
module: disjoint names, a capacity and a size_hint above zero, a word larger than the
capacity, finite sets where something is counted. TLC evaluates the ASSUMEs in the runs.

**OneshotProofs.** `IInv` adds to `NoLostWakeup` what the bits say of the cells
(`CellOK`: the places of the two ends determine the value cell and the bit READY;
`ClosedOK`: the bit CLOSED is set by an end that goes, and stays; `ReceiverOK`: what a
receiver saw when it resolved, and the waker it left when it parked). It is inductive by one step for each action. `TypeCorrect`, `ReadOnce` and `WakeupKept` are
its parts; `Refinement` uses it to map each step to one of `OneshotPromise` or a stutter.

**ChannelProofs.** `TypeCorrect` by the place of the process that moves.
`NoStrandedReceiver`: `ReceiverNotStranded` alone is not inductive, since a receiver that
has listened and is about to park must be covered as well; `Watched` speaks of both places
and `IdleDeaf` excludes a listener left over from the previous receipt. `SlotAccounting`
and `CapacityNeverExceeded` follow from `SlotsInv`: the messages and the slots in hand are
at most `in_queue`, with equality while the channel is open (a refused push leaks its
slot), and `in_queue` is at most the capacity. It counts processes by place, for which the
lemmas `BusyMoves` and `BusyOthers` say what one process's move does to a cardinality.
`NoStrandedSender` holds under the hypotheses `SingleThread` and `~DoSends`, the second of
which is necessary (section 5). Its invariant is `Expected`: a sender waits only while the
channel is closed or full, or a receiver is about to notify, or a sender is notified
already; with `SeenFresh`, what a call read of the counter is still so when it uses it,
for nobody else moves during the call.

**EventListenerProofs.** `ListenerInv`: `CacheInv` (if an entry is the cached one, the flag
says so), `CacheUnshared`, and `WakerInv` (an entry that was polled holds the waker of the
latest poll) give `CacheOwnedOnce` and `LatestPollWoken`. `OrderInv` says that the list is
in order (`Linked`: nobody is in it twice, its first `notified` entries are the notified
ones, `start` is the one behind them, and it holds exactly those who listen) and that what
`notify` reads without the lock is right: the counter, or its maximum once all are notified
(`hint`). It is kept by an insertion
at the end, a removal anywhere and `notify(n)` at `start`, each a lemma about lists, and
gives `NotifiedStayFirst`. `EventPromised` uses it to map each step to one of
`EventPromise` or a stutter: a `notify` takes effect at the step under the lock, or at the
read of the counter that makes it return early, when `n` or all are notified already; the removal
of a notified listener that was not heard hands its notification on under the same lock.

**ContextFutureProofs.** `ExclusiveAlone` is not inductive: `OrderInv` adds that the
exclusive message runs in one place of `run()` only (`ExclusivePlace`), that it is reached
without tasks (`EndsAlone`, `DrainingPlaces`), that within one select the mailbox arm keeps
the reasons it was built for (`ArmHolds`: no exclusive message waits, and there is a slot),
that what is still scheduled was not taken (`NotTaken`), and that the item looked at is
scheduled (`LooksScheduled`). It gives `RunsAlone`, `SizeHintKept`, and step by step
`BarrierKept` and `CancelKept`. `InboxInv` adds that a
listening receiver has an empty, open mailbox, and that a parked select has registered
with the mailbox and with every timer and stream it may take from. In the middle of a pass
that is true of what it has polled (`PolledAwaited`), and a cancel of what it looks at has
woken the future (`LookingWoken`): `InboxKeepsAwake`.

In the same module, `TaskInv` adds to `InboxInv`: a runnable task is in the wake
queue or its waker is about to put it there (`Listed`); a message that is still to be taken
was not begun and is taken once (`Fresh`, `SentOnce`); a future that has looked at the wake
queue and sleeps left it empty, or a waker that pushed has yet to wake it (`QueueSeen`);
the two places where the loop sleeps otherwise (`YieldWoken`, `ExclusiveBlocked`). It gives
`TasksKeepAwake`. `OwedInv` adds where a request that waits has its message: abandoned, in
the mailbox, a task, the exclusive message, or the stop to acknowledge (`Owed`); what the
places of the end imply (`NotifyPlace`, `EndStopped`, `GoneEmpty`, `OnStopAlone`); and that
a body that has begun is a task or exclusive (`Begun`). It gives `TakenSettled` and
`GracefulSettled`.

**ChannelHandlesProofs.** `CountsTrue` counts places by cardinality (`SenderChanges`,
`ReceiverChanges` say what one place's change does to it). `LiveIsOpen` is strengthened to:
what is closed or about to close has a reason, and only the reasons `stopped` and `revived`
leave both counts above zero.

**MessageRequestProofs.** `OutcomeInv`: where the message is by phase and place of the poll
(`MessagePlace`), and which timer may have gone off (`TimeoutPhase`). `WatchInv` covers the
steps between a poll's look and its rest: a send that is about to rest left its waker with
a listener that is still in the list, or was woken since (`SendWatched`), and likewise for
the answer (`AnswerWatched`). The theorem `RestKept` is about what the request was told,
not about slots, for the reason given in section 5.

**SupervisorProofs.** `SettledKept` rests on `Settled`: once a graceful stop without late
instances has begun, no instance is on its way or aborted, and the workers the stop has
been through (`Past`) have none. It is kept because the graceful stop is the only one and
has all the workers (`GracefulAlone`), which holds since a stop closes the channel first
(`Unclosed`), and no clone's drop takes the workers while another clone counts
(`RefsCounted`).

**UnboundedProofs.** The queue is proved for any number of threads, pushes and slots in a
block. The proof speaks of indices: an index lies in a block at an offset and has so many
slots before it (`Blk`, `Off`, `Num`), and a thread that has claimed a slot owns it until
it has written or read it (`PushOwner`, `PopOwner`). `MemorySafe` says only what is so at
the moment of an access; that it stays so needs `IInv`, whose parts are:

- `EnteredInv`, `TailInv`, `HeadInv`: the values pushed are each at its index; the tail and
  head are in the block their index says, or at the waiting position, and then a thread is
  on its way to move them; the mark that the head carries is true.
- `LinkInv`: a block is linked to the next one, unless a pusher is about to link it, and
  the head never passes an unlinked block.
- `PushInv`, `PopInv`: what each thread knows where it is. A position it has read may be
  stale, but never beyond the head or tail; if it is still the current one, so is the block
  read with it. An owner knows its block, and the value that is at its index.
- `OnePerPlace`: a slot is owned by one popper at most, and a block is destroyed by one.
- `SlotInv`: the bits of a slot against its index. What is below the tail was written or
  has an owner that will write it, likewise for what is below the head; DESTROY is set only
  behind a slot whose predecessors in the block are read, after the last one was.
- `DestroyInv`, `LiveInv`: a block that is gone had all its slots read, and one whose last
  slot was read has either a destroyer or one slot with DESTROY whose reader is yet to come.
  This is what excludes both the use after a free and a block that nobody frees.
- `DropInv`: when the queue is dropped, what is left of it is from head to tail.

TLC checked `IInv` on the instance of the run `Queue` before it was proved. The next block
installed is the one behind the tail's (`FreshIs`), and there is one, because the values
entered fill the blocks before it and are distinct (`RoomToInstall`). `QueueMemorySafe` and `QueueWaitsForAnother` follow; `QueueIsFifo` maps
each step to one of `FifoQueue`: a push takes effect where it claims its index
(`PushAdvance`), a pop where it claims its own (`PopClaim`) or where it reads the tail and
finds nothing (`PopTail`), a push to a closed queue where it reads the mark. `QueueTyped`
needs two facts more (`Within`), which bound the indices of threads that no longer use
them.

Only model-checked: liveness (`Answered`, `SendCompletes`, `QueueDrained`, `StopEnds`,
`Ends`, `AnswerHeard`, `AbandonedCloses`, `WorkersEnd`, `MailServed`), which the prover
cannot treat, since it concerns fairness and ENABLED. Every other property of the passing
runs is stated by a theorem. No induction over data is used: what a recursive definition
computes is out of the prover's reach, and no module has one.

## 7. Not modelled

- Memory orders weaker than sequential consistency in `unbounded.rs`, and the wrap of its
  indices after 2^63 pushes.
- `is_terminated` of join handles, a read; a join handle that is dropped, which leaves the
  item as it is.
- A `ContextFuture` that moves between tasks while it waits: tasks keep the waker of the
  poll that first ran them (`context_future.rs:150`).
- A `Supervisor::stop` awaited by an actor of that supervisor, which joins the thread it
  runs on (`worker.rs:61`); a `start` that waits on a full channel while the supervisor
  closes; several calls of `start`.
- Threads, timers, the semaphore and local tasks are tokio's and are modelled from their
  use.
- Formatting of errors, type aliases, procedural macros (`actix-async-codegen`), examples:
  they have no state.

## 8. Plan

Done, in this order: the one-shot channel (the answer of every request), the mailbox (a
lost wakeup there stops an actor), events (on which it rests), the actor loop, requests,
the handles of the channel, the lock-free queue, the supervisor; and the proofs of all of
them.

What is left, most important first:

1. An abstract specification of the mailbox, which `Channel` implements and `ContextFuture`
   takes for granted, with its refinement proved.
2. `ActorSystem`: composition of the loop, the mailbox and requests, with the end-to-end
   property that a request resolves, and the second stop message.
3. Several calls of `start`, and actors that move between tasks.
