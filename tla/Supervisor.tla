----------------------------- MODULE Supervisor -------------------------------
(***************************************************************************)
(* supervisor/mod.rs and supervisor/worker.rs: a supervisor starts the     *)
(* instances of an actor on worker threads, restarts an instance that      *)
(* panics, and stops its workers.                                          *)
(*                                                                         *)
(* Instances travel to the workers through a channel and share one mailbox *)
(* channel; both are taken as ChannelHandles and Channel describe them:    *)
(* closed for good, and closed when one side is gone.  What an instance    *)
(* does with a message is ContextFuture's; here it answers, panics or      *)
(* stops.  A worker polls its own future and its instances in turn, on one *)
(* thread, while callers of stop and drop run on other threads.            *)
(***************************************************************************)
EXTENDS Naturals, FiniteSets

CONSTANTS
    Clones,     \* handles of the supervisor
    Workers,    \* worker threads
    Instances,  \* what one call of start starts
    Messages,   \* requests sent to the shared mailbox
    Stops,      \* those of them that are Addr::stop
    MaxPanics,  \* bound: panics of instances
    NoWorker,   \* not a worker
    NoInstance  \* not an instance

ASSUME SetsAssumption == IsFiniteSet(Clones) /\ IsFiniteSet(Workers) /\ IsFiniteSet(Instances)
ASSUME WorkersAssumption == Workers # {} /\ NoWorker \notin Workers
ASSUME InstancesAssumption == NoInstance \notin Instances
ASSUME StopsAssumption == Stops \subseteq Messages
ASSUME PanicsAssumption == MaxPanics \in Nat

VARIABLES
    tx_closed,  \* whether the channel to the workers is closed
    handles,    \* join_handles: the workers nobody has taken yet
    refs,       \* the clones that still count in join_handles
    senders,    \* the clones that still own their tx
    call,       \* where each clone is in stop or drop
    cur,        \* the worker that each stop is about
    mine,       \* the workers that each stop has taken and not finished
    how,        \* each stop's argument, and whether a graceful one returned true
    worker,     \* each worker's thread
    limit,      \* who has each worker's permits besides its instances
    exit,       \* the workers that were sent the exit signal
    inst,       \* each instance's life
    place,      \* the worker each instance is on
    mail,       \* each message's life
    taker,      \* the instance that took each message
    shut,       \* whether the mailbox was closed while it had receivers
    panics,     \* panics so far
    late        \* history: whether an instance was on its way to a worker
                \* when the supervisor closed

vars == <<tx_closed, handles, refs, senders, call, cur, mine, how, worker, limit, exit,
          inst, place, mail, taker, shut, panics, late>>
callVars   == <<handles, refs, senders, call, cur, mine, how>>
workerVars == <<worker, limit, exit>>
actorVars  == <<inst, place, mail, taker, shut, panics>>

Calls  == {"owned", "take", "begin", "next", "acquire", "release", "signal", "join",
           "drop", "close", "takeRest", "dropHandles", "dropTx", "gone"}
Lives  == {"unsent", "queued", "picked", "running", "stopping", "panicked", "ended", "aborted"}

TypeOK ==
    /\ tx_closed \in BOOLEAN /\ late \in BOOLEAN /\ shut \in BOOLEAN
    /\ handles \subseteq Workers /\ exit \subseteq Workers
    /\ refs \subseteq Clones /\ senders \subseteq Clones
    /\ call \in [Clones -> Calls]
    /\ cur \in [Clones -> Workers \cup {NoWorker}]
    /\ \A c \in Clones : call[c] \in {"acquire", "release", "signal", "join"} => cur[c] \in Workers
    /\ mine \in [Clones -> SUBSET Workers]
    /\ how \in [Clones -> {"none", "graceful", "forced", "waited"}]
    /\ worker \in [Workers -> {"polling", "exited", "panicked"}]
    /\ limit \in [Workers -> {"free", "waiting", "held"}]
    /\ inst \in [Instances -> Lives]
    /\ place \in [Instances -> Workers \cup {NoWorker}]
    /\ mail \in [Messages -> {"unsent", "queued", "taken", "answered", "lost"}]
    /\ taker \in [Messages -> Instances \cup {NoInstance}]
    /\ panics \in 0..MaxPanics

(* SupervisorBuilder::build: the workers poll, and clones were made of the  *)
(* supervisor.                                                              *)
Init ==
    /\ tx_closed = FALSE /\ late = FALSE /\ shut = FALSE
    /\ handles = Workers /\ exit = {}
    /\ refs = Clones /\ senders = Clones
    /\ call = [c \in Clones |-> "owned"]
    /\ cur = [c \in Clones |-> NoWorker]
    /\ mine = [c \in Clones |-> {}]
    /\ how = [c \in Clones |-> "none"]
    /\ worker = [w \in Workers |-> "polling"]
    /\ limit = [w \in Workers |-> "free"]
    /\ inst = [i \in Instances |-> "unsent"]
    /\ place = [i \in Instances |-> NoWorker]
    /\ mail = [m \in Messages |-> "unsent"]
    /\ taker = [m \in Messages |-> NoInstance]
    /\ panics = 0

-----------------------------------------------------------------------------
Stopped(w)   == worker[w] # "polling"
On(w, state) == {i \in Instances : place[i] = w /\ inst[i] \in state}
Waiting      == {i \in Instances : inst[i] = "queued"}
(* Every instance spawned on a worker holds a permit until it is over. *)
Permits(w)   == On(w, {"running", "stopping", "panicked"})
(* A worker in the middle of a poll runs nothing else. *)
Polls(w)     == worker[w] = "polling" /\ On(w, {"picked"}) = {}
Runs(i)      == inst[i] \in {"running", "stopping"} /\ Polls(place[i])
(* The mailbox is closed when it was shut or its last receiver is gone. *)
MailClosed   == shut \/ \A i \in Instances : inst[i] \in {"ended", "aborted"}

Goto(c, to)     == call' = [call EXCEPT ![c] = to]
Become(i, life) == inst' = [inst EXCEPT ![i] = life]
(* Instances that go lose the messages they have not answered. *)
Over(I, life) ==
    /\ inst' = [i \in Instances |-> IF i \in I THEN life ELSE inst[i]]
    /\ mail' = [m \in Messages |-> IF mail[m] = "taken" /\ taker[m] \in I THEN "lost" ELSE mail[m]]

-----------------------------------------------------------------------------
(* Supervisor::start: each instance is sent to the workers' channel, whose  *)
(* capacity is their number; a closed channel refuses it.                   *)
Start(i) ==
    /\ inst[i] = "unsent" /\ \E c \in Clones : call[c] = "owned"
    /\ IF tx_closed
       THEN Become(i, "ended")
       ELSE Cardinality(Waiting) < Cardinality(Workers) /\ Become(i, "queued")
    /\ UNCHANGED <<tx_closed, callVars, workerVars, place, mail, taker, shut, panics, late>>

(* The address that start returns: a message is sent.                       *)
Send(m) ==
    /\ mail[m] = "unsent" /\ ~MailClosed
    /\ \A i \in Instances : inst[i] # "unsent"
    /\ mail' = [mail EXCEPT ![m] = "queued"]
    /\ UNCHANGED <<tx_closed, callVars, workerVars, inst, place, taker, shut, panics, late>>

(* WorkerFuture::poll: the next instance, then a permit for it, whose       *)
(* absence is a panic that drops whatever the worker has.                   *)
Pick(w, i) ==
    /\ Polls(w) /\ i \in Waiting
    /\ Become(i, "picked") /\ place' = [place EXCEPT ![i] = w]
    /\ UNCHANGED <<tx_closed, callVars, workerVars, mail, taker, shut, panics, late>>

Spawn(i) ==
    /\ inst[i] = "picked" /\ limit[place[i]] = "free"
    /\ Become(i, "running")
    /\ UNCHANGED <<tx_closed, callVars, workerVars, place, mail, taker, shut, panics, late>>

(* The last to leave the channel drops the instances it still holds.        *)
Left(stopped, owners) == IF stopped = Workers /\ owners = {} THEN Waiting ELSE {}

WorkerEnds(w, end, dropped) ==
    /\ worker' = [worker EXCEPT ![w] = end]
    /\ Over(dropped \cup Left({v \in Workers : Stopped(v)} \cup {w}, senders), "aborted")
    /\ UNCHANGED <<tx_closed, callVars, limit, exit, place, taker, shut, panics, late>>

SpawnPanics(i) ==
    /\ inst[i] = "picked" /\ limit[place[i]] # "free"
    /\ WorkerEnds(place[i], "panicked", On(place[i], {"picked", "running", "stopping", "panicked"}))

(* The channel is closed and empty and the exit signal came: the worker's   *)
(* LocalSet goes with all its instances.                                    *)
Exit(w) ==
    /\ Polls(w) /\ tx_closed /\ Waiting = {} /\ w \in exit
    /\ WorkerEnds(w, "exited", Permits(w))

-----------------------------------------------------------------------------
(* An instance takes a message from the shared mailbox and answers it.  One *)
(* that has taken a stop takes no more: it answers it when it ends, perhaps *)
(* before the others.  The mailbox stays open for the other instances.      *)
Take(i, m) ==
    /\ Runs(i) /\ mail[m] = "queued"
    /\ ~\E s \in Stops : mail[s] = "taken" /\ taker[s] = i
    /\ mail' = [mail EXCEPT ![m] = "taken"] /\ taker' = [taker EXCEPT ![m] = i]
    /\ UNCHANGED <<tx_closed, callVars, workerVars, inst, place, shut, panics, late>>

Answer(i, m) ==
    /\ Runs(i) /\ mail[m] = "taken" /\ taker[m] = i
    /\ IF m \in Stops
       THEN /\ inst' = [inst EXCEPT ![i] = "ended"]
            /\ mail' = [n \in Messages |-> CASE n = m -> "answered"
                                             [] n # m /\ mail[n] = "taken" /\ taker[n] = i -> "lost"
                                             [] OTHER -> mail[n]]
       ELSE mail' = [mail EXCEPT ![m] = "answered"] /\ UNCHANGED inst
    /\ UNCHANGED <<tx_closed, callVars, workerVars, place, taker, shut, panics, late>>

(* Context::stop of an instance closes the mailbox for all.  By the select  *)
(* it is in it may still take a message; another stop changes nothing.      *)
ContextStop(i) ==
    /\ inst[i] = "running" /\ Polls(place[i])
    /\ shut' = TRUE
    /\ Become(i, "stopping")
    /\ UNCHANGED <<tx_closed, callVars, workerVars, place, mail, taker, panics, late>>

(* The drop of the last address.                                            *)
Shut ==
    /\ ~MailClosed /\ \A i \in Instances : inst[i] # "unsent"
    /\ shut' = TRUE
    /\ UNCHANGED <<tx_closed, callVars, workerVars, inst, place, mail, taker, panics, late>>

(* An instance that has called Context::stop ends, whatever the mailbox     *)
(* holds; another one ends when it finds it closed and empty.  Tasks that   *)
(* are left are lost.                                                       *)
Finish(i) ==
    /\ Runs(i)
    /\ \/ inst[i] = "stopping"
       \/ shut /\ \A m \in Messages : mail[m] # "queued"
    /\ Over({i}, "ended")
    /\ UNCHANGED <<tx_closed, callVars, workerVars, place, taker, shut, panics, late>>

(* A panic loses what the instance had taken; supervised says Running, and  *)
(* the loop starts it again on the same mailbox unless that is closed.      *)
Panic(i) ==
    /\ Runs(i) /\ panics < MaxPanics
    /\ panics' = panics + 1
    /\ Over({i}, "panicked")
    /\ UNCHANGED <<tx_closed, callVars, workerVars, place, taker, shut, late>>

(* Mutant: an instance that panicked is not started again.                  *)
SupervisedStop(i) ==
    /\ inst[i] = "panicked" /\ Polls(place[i])
    /\ Become(i, "ended")
    /\ UNCHANGED <<tx_closed, callVars, workerVars, place, mail, taker, shut, panics, late>>

Supervised(i) ==
    /\ inst[i] = "panicked" /\ Polls(place[i])
    /\ Become(i, IF MailClosed THEN "ended" ELSE "running")
    /\ UNCHANGED <<tx_closed, callVars, workerVars, place, mail, taker, shut, panics, late>>

-----------------------------------------------------------------------------
(* Supervisor::stop: only the call that closes the channel stops workers.   *)
Stop(c, argument) ==
    /\ call[c] = "owned"
    /\ tx_closed' = TRUE
    /\ IF tx_closed
       THEN Goto(c, "drop") /\ UNCHANGED <<how, late>>
       ELSE /\ how' = [how EXCEPT ![c] = argument] /\ Goto(c, "take")
            /\ late' = \E i \in Instances : inst[i] \in {"queued", "picked"}
    /\ UNCHANGED <<handles, refs, senders, cur, mine, workerVars, actorVars>>

StopTake(c) ==
    /\ call[c] = "take"
    /\ mine' = [mine EXCEPT ![c] = handles] /\ handles' = {}
    /\ Goto(c, "begin")
    /\ UNCHANGED <<tx_closed, refs, senders, cur, how, workerVars, actorVars, late>>

(* Worker::stop, one worker after the other.  A graceful one first acquires *)
(* all permits: it takes those there are and waits for the others.          *)
StopNext(c, w) ==
    /\ call[c] \in {"begin", "next"} /\ w \in mine[c]
    /\ cur' = [cur EXCEPT ![c] = w]
    /\ IF how[c] = "graceful"
       THEN limit' = [limit EXCEPT ![w] = "waiting"] /\ Goto(c, "acquire")
       ELSE Goto(c, "signal") /\ UNCHANGED limit
    /\ UNCHANGED <<tx_closed, handles, refs, senders, mine, how, worker, exit, actorVars, late>>

(* Mutant: the stop takes the permits there are and goes on.                *)
StopAcquiredSome(c) ==
    /\ call[c] = "acquire"
    /\ limit' = [limit EXCEPT ![cur[c]] = "held"]
    /\ Goto(c, "release")
    /\ UNCHANGED <<tx_closed, handles, refs, senders, cur, mine, how, worker, exit, actorVars, late>>

StopAcquired(c) ==
    /\ call[c] = "acquire" /\ Permits(cur[c]) = {}
    /\ limit' = [limit EXCEPT ![cur[c]] = "held"]
    /\ Goto(c, "release")
    /\ UNCHANGED <<tx_closed, handles, refs, senders, cur, mine, how, worker, exit, actorVars, late>>

(* The permits are given back at the end of the block, before the signal.   *)
StopRelease(c) ==
    /\ call[c] = "release"
    /\ limit' = [limit EXCEPT ![cur[c]] = "free"]
    /\ Goto(c, "signal")
    /\ UNCHANGED <<tx_closed, handles, refs, senders, cur, mine, how, worker, exit, actorVars, late>>

StopSignal(c) ==
    /\ call[c] = "signal"
    /\ exit' = exit \cup {cur[c]}
    /\ Goto(c, "join")
    /\ UNCHANGED <<tx_closed, handles, refs, senders, cur, mine, how, worker, limit, actorVars, late>>

(* join blocks; its error is ignored, and the next worker has its turn.     *)
StopJoin(c) ==
    /\ call[c] = "join" /\ Stopped(cur[c])
    /\ mine' = [mine EXCEPT ![c] = @ \ {cur[c]}]
    /\ cur' = [cur EXCEPT ![c] = NoWorker]
    /\ IF mine[c] = {cur[c]}
       THEN /\ Goto(c, "drop")
            /\ how' = [how EXCEPT ![c] = IF @ = "graceful" THEN "waited" ELSE "none"]
       ELSE Goto(c, "next") /\ UNCHANGED how
    /\ UNCHANGED <<tx_closed, handles, refs, senders, workerVars, actorVars, late>>

(* The timeout, or a caller that drops the future: what is left of it is    *)
(* dropped, which takes the request for permits back and signals every      *)
(* worker not stopped yet (Drop for Worker).  It is seen when stop waits,   *)
(* or before it began.                                                      *)
StopTimeout(c) ==
    /\ call[c] \in {"begin", "acquire"}
    /\ exit' = exit \cup mine[c]
    /\ limit' = [w \in Workers |-> IF w = cur[c] THEN "free" ELSE limit[w]]
    /\ mine' = [mine EXCEPT ![c] = {}] /\ cur' = [cur EXCEPT ![c] = NoWorker]
    /\ how' = [how EXCEPT ![c] = "none"]
    /\ Goto(c, "drop")
    /\ UNCHANGED <<tx_closed, handles, refs, senders, worker, actorVars, late>>

(* Drop for Supervisor, after stop or without it: who looks as the last     *)
(* clone closes the channel and drops the workers.  Then its fields go:     *)
(* join_handles, whose last owner drops the workers, and tx, whose last     *)
(* owner closes the channel.                                                *)
Drop(c) ==
    /\ call[c] = "owned" /\ Goto(c, "drop")
    /\ UNCHANGED <<tx_closed, handles, refs, senders, cur, mine, how, workerVars, actorVars, late>>

DropCheck(c) ==
    /\ call[c] = "drop"
    /\ Goto(c, IF refs = {c} THEN "close" ELSE "dropHandles")
    /\ UNCHANGED <<tx_closed, handles, refs, senders, cur, mine, how, workerVars, actorVars, late>>

DropClose(c) ==
    /\ call[c] = "close"
    /\ tx_closed' = TRUE
    /\ Goto(c, "takeRest")
    /\ UNCHANGED <<handles, refs, senders, cur, mine, how, workerVars, actorVars, late>>

DropRest(c) ==
    /\ call[c] = "takeRest"
    /\ exit' = exit \cup handles /\ handles' = {}
    /\ Goto(c, "dropHandles")
    /\ UNCHANGED <<tx_closed, refs, senders, cur, mine, how, worker, limit, actorVars, late>>

(* Mutant: only who looks as the last clone signals the workers.            *)
DropHandlesOnly(c) ==
    /\ call[c] = "dropHandles"
    /\ refs' = refs \ {c}
    /\ Goto(c, "dropTx")
    /\ UNCHANGED <<tx_closed, handles, senders, cur, mine, how, worker, limit, exit, actorVars, late>>

DropHandles(c) ==
    /\ call[c] = "dropHandles"
    /\ refs' = refs \ {c}
    /\ IF refs = {c}
       THEN exit' = exit \cup handles /\ handles' = {}
       ELSE UNCHANGED <<exit, handles>>
    /\ Goto(c, "dropTx")
    /\ UNCHANGED <<tx_closed, senders, cur, mine, how, worker, limit, actorVars, late>>

DropTx(c) ==
    /\ call[c] = "dropTx"
    /\ senders' = senders \ {c}
    /\ tx_closed' = (tx_closed \/ senders = {c})
    /\ Over(Left({v \in Workers : Stopped(v)}, senders \ {c}), "aborted")
    /\ Goto(c, "gone")
    /\ UNCHANGED <<handles, refs, cur, mine, how, workerVars, place, taker, shut, panics, late>>

-----------------------------------------------------------------------------
CallerStep(c) ==
    \/ StopTake(c) \/ \E w \in Workers : StopNext(c, w)
    \/ StopAcquired(c) \/ StopRelease(c) \/ StopSignal(c) \/ StopJoin(c)
    \/ DropCheck(c) \/ DropClose(c) \/ DropRest(c) \/ DropHandles(c) \/ DropTx(c)

WorkerStep(w) == Exit(w) \/ \E i \in Instances : Pick(w, i)

(* What an instance does of itself: it takes its place, works and ends.     *)
InstanceStep(i) ==
    \/ Spawn(i) \/ SpawnPanics(i) \/ Finish(i) \/ Supervised(i)
    \/ \E m \in Messages : Take(i, m) \/ Answer(i, m)

Next ==
    \/ \E c \in Clones : \/ \E argument \in {"graceful", "forced"} : Stop(c, argument)
                         \/ Drop(c) \/ StopTimeout(c) \/ CallerStep(c)
    \/ \E w \in Workers : WorkerStep(w)
    \/ \E i \in Instances : Start(i) \/ Panic(i) \/ ContextStop(i) \/ InstanceStep(i)
    \/ Shut \/ \E m \in Messages : Send(m)

Spec == Init /\ [][Next]_vars

(* Threads and tasks run, and the timer of a stop goes off.  Nobody has to  *)
(* send, panic, stop or drop the supervisor.                                *)
Fairness ==
    /\ \A c \in Clones : WF_vars(CallerStep(c)) /\ WF_vars(StopTimeout(c))
    /\ \A w \in Workers : WF_vars(WorkerStep(w))
    /\ \A i \in Instances : WF_vars(InstanceStep(i))

FairSpec == Spec /\ Fairness

-----------------------------------------------------------------------------
(* A graceful stop that returns true has aborted no instance, provided that *)
(* no instance was on its way to a worker when it began.                    *)
Aborted == \E i \in Instances : inst[i] = "aborted"
GracefulStop == \E c \in Clones : how[c] = "waited"

SettledKept == GracefulStop /\ ~late => ~Aborted

(* The doc of Supervisor::stop: a graceful stop waits for all instances.    *)
GracefulWaits == GracefulStop => ~Aborted

(* The doc of Addr::stop: the actor shuts its channel and exits.            *)
StopShuts == (\E m \in Stops : mail[m] = "answered") => MailClosed

(* However the clones of the supervisor are stopped and dropped, also all   *)
(* at once, its threads end once all are gone, and stop returns.            *)
WorkersEnd ==
    /\ (\A c \in Clones : call[c] = "gone") ~> (\A w \in Workers : Stopped(w))
    /\ \A c \in Clones : call[c] = "take" ~> call[c] = "gone"

(* Until the supervisor is closed, the actor told to stop or its mailbox    *)
(* shut, a message in the mailbox is taken, however its instances panic.    *)
MailServed ==
    \A m \in Messages :
        mail[m] = "queued" ~> \/ mail[m] # "queued" \/ tx_closed \/ shut
                              \/ \E s \in Stops : mail[s] = "answered"
=============================================================================
