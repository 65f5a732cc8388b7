--------------------------- MODULE SupervisorProofs ---------------------------
(***************************************************************************)
(* Theorems about Supervisor, for any numbers of clones, workers,          *)
(* instances and messages.                                                 *)
(***************************************************************************)
EXTENDS Supervisor, TLAPS

Stopping == {"take", "begin", "next", "acquire", "release", "signal", "join"}
Counting == Stopping \cup {"owned", "drop", "close", "takeRest", "dropHandles"}

(* An instance a worker has picked up is on that worker.                    *)
Placed == \A i \in Instances : inst[i] \in {"picked", "running", "stopping", "panicked"} => place[i] \in Workers

(* Whoever has not let go of join_handles counts in it, and who looks as    *)
(* the last one is the last one.                                            *)
RefsCounted ==
    \A c \in Clones : /\ call[c] \in Counting => c \in refs
                      /\ call[c] \in {"close", "takeRest"} => refs = {c}
                      /\ call[c] = "takeRest" => tx_closed

(* Before the supervisor closes nothing of a stop has happened, and the     *)
(* workers have their handles as long as a clone does.                      *)
Unclosed ==
    ~tx_closed =>
        /\ refs # {} => handles = Workers /\ exit = {}
        /\ \A c \in Clones : how[c] = "none" /\ call[c] \notin Stopping /\ mine[c] = {}
        /\ \A w \in Workers : worker[w] = "polling" /\ limit[w] = "free"
        /\ ~Aborted

(* A graceful stop is the only stop there is, and it has all the workers:   *)
(* it finds their handles, takes them, and is through with those it no      *)
(* longer has.                                                              *)
GracefulAlone ==
    \A c \in Clones : how[c] \in {"graceful", "waited"} =>
        /\ tx_closed
        /\ \A d \in Clones \ {c} : how[d] = "none" /\ call[d] \notin Stopping
        /\ how[c] = "graceful" => call[c] \in Stopping
        /\ how[c] = "waited" => call[c] \notin Stopping /\ mine[c] = {}
        /\ IF call[c] = "take" THEN handles = Workers /\ exit = {} ELSE handles = {}

(* The workers a graceful stop has found without instances.                 *)
Past(c, w) ==
    \/ w \in exit
    \/ call[c] # "take" /\ w \notin mine[c]
    \/ call[c] \in {"release", "signal", "join"} /\ w = cur[c]

(* Once the instances have reached their workers, a worker found without    *)
(* instances stays so, and its end takes none with it.                      *)
Settled ==
    \A c \in Clones : how[c] \in {"graceful", "waited"} /\ ~late =>
        /\ \A i \in Instances : inst[i] \notin {"queued", "picked", "aborted"}
        /\ \A w \in Workers, i \in Instances :
              Past(c, w) /\ place[i] = w => inst[i] \notin {"running", "stopping", "panicked"}

IInv == TypeOK /\ Placed /\ RefsCounted /\ Unclosed /\ GracefulAlone /\ Settled

-----------------------------------------------------------------------------
(* What the actions share keeps the types.                                  *)
LEMMA OverTypes ==
  ASSUME TypeOK, NEW I, NEW life \in Lives, Over(I, life)
  PROVE  /\ inst' \in [Instances -> Lives]
         /\ mail' \in [Messages -> {"unsent", "queued", "taken", "answered", "lost"}]
  BY DEF TypeOK, Over

LEMMA BecomeTypes ==
  ASSUME TypeOK, NEW i, NEW life \in Lives, Become(i, life)
  PROVE  inst' \in [Instances -> Lives]
  BY DEF TypeOK, Become

LEMMA GotoTypes ==
  ASSUME TypeOK, NEW c, NEW to \in Calls, Goto(c, to)
  PROVE  call' \in [Clones -> Calls]
  BY DEF TypeOK, Goto

LEMMA LivesNamed ==
  {"unsent", "queued", "picked", "running", "stopping", "panicked", "ended", "aborted"} = Lives
  BY DEF Lives

LEMMA WorkerEndsTypes ==
  ASSUME TypeOK, NEW w, NEW end \in {"exited", "panicked"}, NEW I, WorkerEnds(w, end, I)
  PROVE  TypeOK'
  <1>1. /\ inst' \in [Instances -> Lives]
        /\ mail' \in [Messages -> {"unsent", "queued", "taken", "answered", "lost"}]
    BY OverTypes, LivesNamed DEF WorkerEnds
  <1>2. worker' \in [Workers -> {"polling", "exited", "panicked"}]
    BY DEF WorkerEnds, TypeOK
  <1> QED
    BY <1>1, <1>2 DEF WorkerEnds, TypeOK, callVars

LEMMA InitTypeOK == Init => TypeOK
  <1> SUFFICES ASSUME Init PROVE TypeOK
    OBVIOUS
  <1>1. /\ call \in [Clones -> Calls] /\ \A c \in Clones : call[c] = "owned"
        /\ inst \in [Instances -> Lives]
    BY DEF Init, Calls, Lives
  <1>2. panics \in 0..MaxPanics
    BY PanicsAssumption DEF Init
  <1> QED
    BY <1>1, <1>2 DEF Init, TypeOK

(* The instances and the messages.                                          *)
ActorStep ==
    \/ \E i \in Instances : Start(i) \/ Panic(i) \/ Spawn(i) \/ Finish(i) \/ Supervised(i) \/ ContextStop(i)
    \/ \E i \in Instances, m \in Messages : Take(i, m) \/ Answer(i, m)
    \/ \E w \in Workers, i \in Instances : Pick(w, i)
    \/ Shut \/ \E m \in Messages : Send(m)

LEMMA ActorTypeOK == TypeOK /\ ActorStep => TypeOK'
  <1> SUFFICES ASSUME TypeOK, ActorStep PROVE TypeOK'
    OBVIOUS
  <1> USE DEF callVars, workerVars, Lives
  <1>1. ASSUME NEW i \in Instances, Start(i) PROVE TypeOK'
    BY <1>1 DEF TypeOK, Start, Become
  <1>2. ASSUME NEW i \in Instances, Panic(i) PROVE TypeOK'
    BY <1>2, OverTypes, PanicsAssumption DEF TypeOK, Panic
  <1>3. ASSUME NEW i \in Instances, Spawn(i) PROVE TypeOK'
    BY <1>3 DEF TypeOK, Spawn, Become
  <1>4. ASSUME NEW i \in Instances, Finish(i) PROVE TypeOK'
    BY <1>4, OverTypes DEF TypeOK, Finish
  <1>5. ASSUME NEW i \in Instances, Supervised(i) PROVE TypeOK'
    BY <1>5 DEF TypeOK, Supervised, Become
  <1>6. ASSUME NEW i \in Instances, NEW m \in Messages, Take(i, m) PROVE TypeOK'
    BY <1>6 DEF TypeOK, Take
  <1>7. ASSUME NEW i \in Instances, NEW m \in Messages, Answer(i, m) PROVE TypeOK'
    <2>1. CASE m \in Stops
      BY <1>7, <2>1 DEF TypeOK, Answer
    <2>2. CASE m \notin Stops
      BY <1>7, <2>2 DEF TypeOK, Answer
    <2> QED
      BY <2>1, <2>2
  <1>8. ASSUME NEW w \in Workers, NEW i \in Instances, Pick(w, i) PROVE TypeOK'
    BY <1>8 DEF TypeOK, Pick, Become
  <1>9. CASE Shut
    BY <1>9 DEF TypeOK, Shut
  <1>11. ASSUME NEW i \in Instances, ContextStop(i) PROVE TypeOK'
    BY <1>11 DEF TypeOK, ContextStop, Become
  <1>10. ASSUME NEW m \in Messages, Send(m) PROVE TypeOK'
    BY <1>10 DEF TypeOK, Send
  <1> QED
    BY <1>1, <1>2, <1>3, <1>4, <1>5, <1>6, <1>7, <1>8, <1>9, <1>10, <1>11 DEF ActorStep

(* The calls of stop and drop.                                              *)
StopStep(c) ==
    \/ \E argument \in {"graceful", "forced"} : Stop(c, argument)
    \/ StopTake(c) \/ \E w \in Workers : StopNext(c, w)
    \/ StopAcquired(c) \/ StopRelease(c) \/ StopSignal(c) \/ StopJoin(c) \/ StopTimeout(c)

DropStep(c) ==
    \/ Drop(c) \/ DropCheck(c) \/ DropClose(c) \/ DropRest(c) \/ DropHandles(c) \/ DropTx(c)

LEMMA StopTypeOK == TypeOK /\ (\E c \in Clones : StopStep(c)) => TypeOK'
  <1> SUFFICES ASSUME TypeOK, NEW c \in Clones, StopStep(c) PROVE TypeOK'
    OBVIOUS
  <1> USE DEF workerVars, actorVars, Calls, Goto
  <1>1. ASSUME NEW argument \in {"graceful", "forced"}, Stop(c, argument) PROVE TypeOK'
    <2>1. late' \in BOOLEAN
      <3>1. UNCHANGED late \/ late' = (\E i \in Instances : inst[i] \in {"queued", "picked"})
        BY <1>1 DEF Stop
      <3>2. CASE UNCHANGED late
        BY <3>2 DEF TypeOK
      <3>3. ASSUME late' = (\E i \in Instances : inst[i] \in {"queued", "picked"})
            PROVE  late' \in BOOLEAN
        BY <3>3, Zenon
      <3> QED
        BY <3>1, <3>2, <3>3
    <2>2. /\ call' \in [Clones -> Calls] /\ how' \in [Clones -> {"none", "graceful", "forced", "waited"}]
          /\ tx_closed' \in BOOLEAN
          /\ \A d \in Clones : call'[d] \in {"acquire", "release", "signal", "join"} => call'[d] = call[d]
      <3>1. /\ call' = [call EXCEPT ![c] = "drop"] \/ call' = [call EXCEPT ![c] = "take"]
            /\ how' = how \/ how' = [how EXCEPT ![c] = argument]
            /\ tx_closed'
        BY <1>1 DEF Stop
      <3> QED
        BY <3>1, <1>1 DEF TypeOK, Stop
    <2> QED
      BY <1>1, <2>1, <2>2 DEF TypeOK, Stop
  <1>2. CASE StopTake(c)
    BY <1>2 DEF TypeOK, StopTake
  <1>3. ASSUME NEW w \in Workers, StopNext(c, w) PROVE TypeOK'
    BY <1>3 DEF TypeOK, StopNext
  <1>4. CASE StopAcquired(c)
    BY <1>4 DEF TypeOK, StopAcquired
  <1>5. CASE StopRelease(c)
    BY <1>5 DEF TypeOK, StopRelease
  <1>6. CASE StopSignal(c)
    BY <1>6 DEF TypeOK, StopSignal
  <1>7. CASE StopJoin(c)
    BY <1>7 DEF TypeOK, StopJoin
  <1>8. CASE StopTimeout(c)
    BY <1>8 DEF TypeOK, StopTimeout
  <1> QED
    BY <1>1, <1>2, <1>3, <1>4, <1>5, <1>6, <1>7, <1>8 DEF StopStep

LEMMA DropTypeOK == TypeOK /\ (\E c \in Clones : DropStep(c)) => TypeOK'
  <1> SUFFICES ASSUME TypeOK, NEW c \in Clones, DropStep(c) PROVE TypeOK'
    OBVIOUS
  <1> USE DEF workerVars, actorVars, Calls, Goto
  <1>1. CASE Drop(c)
    BY <1>1 DEF TypeOK, Drop
  <1>4. CASE DropCheck(c)
    BY <1>4 DEF TypeOK, DropCheck
  <1>5. CASE DropClose(c)
    BY <1>5 DEF TypeOK, DropClose
  <1>2. CASE DropRest(c) \/ DropHandles(c)
    BY <1>2 DEF TypeOK, DropRest, DropHandles
  <1>3. CASE DropTx(c)
    <2>1. /\ inst' \in [Instances -> Lives]
          /\ mail' \in [Messages -> {"unsent", "queued", "taken", "answered", "lost"}]
      BY <1>3, OverTypes, LivesNamed DEF DropTx
    <2> QED
      BY <1>3, <2>1 DEF TypeOK, DropTx
  <1> QED
    BY <1>1, <1>2, <1>3, <1>4, <1>5 DEF DropStep

(* The ends of worker threads.                                              *)
EndStep == (\E w \in Workers : Exit(w)) \/ \E i \in Instances : SpawnPanics(i)

LEMMA NextParts ==
  Next <=> ActorStep \/ EndStep \/ \E c \in Clones : StopStep(c) \/ DropStep(c)
  BY DEF Next, ActorStep, EndStep, StopStep, DropStep, CallerStep, WorkerStep, InstanceStep

LEMMA NextTypeOK == TypeOK /\ [Next]_vars => TypeOK'
  <1> SUFFICES ASSUME TypeOK, [Next]_vars PROVE TypeOK'
    OBVIOUS
  <1>1. CASE EndStep
    <2>1. ASSUME NEW w \in Workers, Exit(w) PROVE TypeOK'
      BY <2>1, WorkerEndsTypes DEF Exit
    <2>2. ASSUME NEW i \in Instances, SpawnPanics(i) PROVE TypeOK'
      BY <2>2, WorkerEndsTypes DEF SpawnPanics
    <2> QED
      BY <1>1, <2>1, <2>2 DEF EndStep
  <1>2. CASE UNCHANGED vars
    BY <1>2 DEF TypeOK, vars
  <1> QED
    BY <1>1, <1>2, NextParts, ActorTypeOK, StopTypeOK, DropTypeOK

(* TypeOK holds in every reachable state.                                   *)
THEOREM TypeCorrect == Spec => []TypeOK
  BY InitTypeOK, NextTypeOK, PTL DEF Spec

-----------------------------------------------------------------------------
(* What an instance can become: it is queued only before the supervisor     *)
(* closes, on a worker only from the queue, and never aborted by itself.    *)
Advances(i) ==
    /\ inst'[i] = "aborted" => inst[i] = "aborted"
    /\ inst'[i] = "queued" => inst[i] = "queued" \/ ~tx_closed
    /\ inst'[i] = "picked" => inst[i] = "picked" \/ (inst[i] = "queued" /\ place'[i] \in Workers)
    /\ inst'[i] \in {"running", "stopping", "panicked"} => inst[i] \in {"picked", "running", "stopping", "panicked"}
    /\ place'[i] = place[i] \/ (inst[i] = "queued" /\ inst'[i] = "picked")

LEMMA ActorAdvances ==
  ASSUME TypeOK, ActorStep
  PROVE  /\ \A i \in Instances : Advances(i)
         /\ UNCHANGED <<tx_closed, callVars, workerVars, late>>
  <1> USE DEF Advances
  <1> DEFINE Goal == /\ \A i \in Instances : Advances(i)
                     /\ UNCHANGED <<tx_closed, callVars, workerVars, late>>
  <1>1. ASSUME NEW i \in Instances, Start(i) PROVE Goal
    BY <1>1 DEF TypeOK, Start, Become
  <1>2. ASSUME NEW i \in Instances, Panic(i) PROVE Goal
    BY <1>2 DEF TypeOK, Panic, Over, Runs
  <1>3. ASSUME NEW i \in Instances, Spawn(i) PROVE Goal
    BY <1>3 DEF TypeOK, Spawn, Become
  <1>4. ASSUME NEW i \in Instances, Finish(i) PROVE Goal
    BY <1>4 DEF TypeOK, Finish, Over
  <1>5. ASSUME NEW i \in Instances, Supervised(i) PROVE Goal
    BY <1>5 DEF TypeOK, Supervised, Become
  <1>6. ASSUME NEW i \in Instances, NEW m \in Messages, Take(i, m) PROVE Goal
    BY <1>6 DEF TypeOK, Take
  <1>7. ASSUME NEW i \in Instances, NEW m \in Messages, Answer(i, m) PROVE Goal
    <2>1. inst' = inst \/ inst' = [inst EXCEPT ![i] = "ended"]
      BY <1>7 DEF Answer
    <2> QED
      BY <1>7, <2>1 DEF TypeOK, Answer
  <1>8. ASSUME NEW w \in Workers, NEW i \in Instances, Pick(w, i) PROVE Goal
    BY <1>8 DEF TypeOK, Pick, Become, Waiting
  <1>9. CASE Shut \/ \E m \in Messages : Send(m)
    BY <1>9 DEF TypeOK, Shut, Send
  <1>10. ASSUME NEW i \in Instances, ContextStop(i) PROVE Goal
    BY <1>10 DEF TypeOK, ContextStop, Become, Runs
  <1> QED
    BY <1>1, <1>2, <1>3, <1>4, <1>5, <1>6, <1>7, <1>8, <1>9, <1>10 DEF ActorStep

LEMMA ActorKeeps == IInv /\ ActorStep => IInv'
  <1> SUFFICES ASSUME IInv, ActorStep PROVE IInv'
    OBVIOUS
  <1>0. TypeOK /\ TypeOK'
    BY ActorTypeOK DEF IInv
  <1>1. /\ \A i \in Instances : Advances(i)
        /\ UNCHANGED <<tx_closed, callVars, workerVars, late>>
    BY <1>0, ActorAdvances
  <1>2. Placed'
    BY <1>1 DEF IInv, Placed, Advances
  <1>3. RefsCounted' /\ GracefulAlone'
    BY <1>1 DEF IInv, RefsCounted, GracefulAlone, callVars, workerVars
  <1>4. Unclosed'
    BY <1>1 DEF IInv, Unclosed, Aborted, Advances, callVars, workerVars
  <1>5. Settled'
    <2> SUFFICES ASSUME NEW c \in Clones, how[c] \in {"graceful", "waited"}, ~late
                 PROVE  /\ \A i \in Instances : inst'[i] \notin {"queued", "picked", "aborted"}
                        /\ \A w \in Workers, i \in Instances :
                              Past(c, w)' /\ place'[i] = w => inst'[i] \notin {"running", "stopping", "panicked"}
      BY <1>1 DEF Settled, callVars
    <2>1. tx_closed
      BY DEF IInv, GracefulAlone
    <2>2. \A w \in Workers : Past(c, w)' = Past(c, w)
      BY <1>1 DEF Past, callVars, workerVars
    <2> QED
      BY <1>1, <2>1, <2>2 DEF IInv, Settled, Advances
  <1> QED
    BY <1>0, <1>2, <1>3, <1>4, <1>5 DEF IInv

-----------------------------------------------------------------------------
(* A worker's end, which comes after the supervisor closed, takes only what *)
(* was on the worker or still in the queue.                                 *)
LEMMA EndKeeps == IInv /\ EndStep => IInv'
  <1> SUFFICES ASSUME IInv, EndStep PROVE IInv'
    OBVIOUS
  <1>0. TypeOK'
    BY NextTypeOK, NextParts DEF IInv
  <1>1. PICK w \in Workers, end \in {"exited", "panicked"}, dropped \in SUBSET Instances :
           /\ WorkerEnds(w, end, dropped) /\ tx_closed
           /\ \A i \in dropped : place[i] = w /\ inst[i] \in {"picked", "running", "stopping", "panicked"}
           /\ w \in exit \/ \E i \in Instances : inst[i] = "picked"
    <2>1. ASSUME NEW w \in Workers, Exit(w)
          PROVE  /\ WorkerEnds(w, "exited", Permits(w)) /\ tx_closed /\ w \in exit
                 /\ Permits(w) \in SUBSET Instances
                 /\ \A i \in Permits(w) : place[i] = w /\ inst[i] \in {"picked", "running", "stopping", "panicked"}
      BY <2>1 DEF Exit, Permits, On
    <2>2. ASSUME NEW i \in Instances, SpawnPanics(i)
          PROVE  /\ WorkerEnds(place[i], "panicked", On(place[i], {"picked", "running", "stopping", "panicked"}))
                 /\ place[i] \in Workers /\ tx_closed /\ inst[i] = "picked"
                 /\ On(place[i], {"picked", "running", "stopping", "panicked"}) \in SUBSET Instances
                 /\ \A j \in On(place[i], {"picked", "running", "stopping", "panicked"}) :
                       place[j] = place[i] /\ inst[j] \in {"picked", "running", "stopping", "panicked"}
      BY <2>2 DEF SpawnPanics, On, IInv, Placed, Unclosed
    <2> QED
      BY <2>1, <2>2 DEF EndStep
  <1>2. /\ UNCHANGED <<tx_closed, callVars, limit, exit, place, late>>
        /\ \A i \in Instances : inst'[i] = inst[i] \/ inst'[i] = "aborted"
        /\ \A i \in Instances : inst'[i] # inst[i] => i \in dropped \/ inst[i] = "queued"
    BY <1>1 DEF WorkerEnds, Over, Left, Waiting
  <1>3. Placed' /\ RefsCounted' /\ Unclosed' /\ GracefulAlone'
    BY <1>1, <1>2 DEF IInv, Placed, RefsCounted, Unclosed, GracefulAlone, callVars
  <1>4. Settled'
    <2> SUFFICES ASSUME NEW c \in Clones, how[c] \in {"graceful", "waited"}, ~late
                 PROVE  /\ \A i \in Instances : inst'[i] \notin {"queued", "picked", "aborted"}
                        /\ \A v \in Workers, i \in Instances :
                              Past(c, v)' /\ place'[i] = v => inst'[i] \notin {"running", "stopping", "panicked"}
      BY <1>2 DEF Settled, callVars
    <2>1. \A v \in Workers : Past(c, v)' = Past(c, v)
      BY <1>2 DEF Past, callVars
    <2>2. \A i \in Instances : inst[i] \notin {"queued", "picked", "aborted"}
      BY DEF IInv, Settled
    <2>3. dropped = {}
      BY <1>1, <2>2 DEF IInv, Settled, Past
    <2>4. \A i \in Instances : inst'[i] = inst[i]
      BY <1>2, <2>2, <2>3
    <2> QED
      BY <1>2, <2>1, <2>2, <2>4 DEF IInv, Settled
  <1> QED
    BY <1>0, <1>3, <1>4 DEF IInv

-----------------------------------------------------------------------------
(* Stop: the call that closes the supervisor is the only one, and it finds  *)
(* the handles of all workers.                                              *)
LEMMA StopBegins ==
  ASSUME IInv, NEW c \in Clones, NEW argument \in {"graceful", "forced"}, Stop(c, argument)
  PROVE  IInv'
  <1> USE DEF IInv, callVars, workerVars, actorVars, Goto
  <1>0. TypeOK'
    BY StopTypeOK DEF StopStep
  <1>1. Placed' /\ RefsCounted' /\ Unclosed'
    <2>1. /\ call' = [call EXCEPT ![c] = "drop"] \/ call' = [call EXCEPT ![c] = "take"]
          /\ call[c] = "owned" /\ tx_closed' = TRUE /\ UNCHANGED <<refs, inst, place>>
      BY DEF Stop
    <2> QED
      BY <2>1 DEF TypeOK, Placed, RefsCounted, Unclosed, Stopping, Counting
  <1>2. CASE tx_closed
    <2>1. /\ call' = [call EXCEPT ![c] = "drop"] /\ call[c] = "owned"
          /\ UNCHANGED <<tx_closed, handles, refs, mine, how, cur, worker, exit, limit, inst, place, late>>
      BY <1>2 DEF Stop, TypeOK
    <2>2. how[c] # "graceful"
      BY <2>1 DEF GracefulAlone, Stopping
    <2>3. GracefulAlone'
      BY <2>1, <2>2 DEF TypeOK, GracefulAlone, Stopping
    <2>4. \A d \in Clones, w \in Workers : how[d] \in {"graceful", "waited"} =>
             Past(d, w)' = Past(d, w)
      BY <2>1, <2>2 DEF TypeOK, Past, GracefulAlone, Stopping
    <2>5. Settled'
      BY <2>1, <2>4 DEF Settled
    <2> QED
      BY <1>0, <1>1, <2>3, <2>5
  <1>3. CASE ~tx_closed
    <2>1. /\ call' = [call EXCEPT ![c] = "take"] /\ how' = [how EXCEPT ![c] = argument]
          /\ late' = (\E i \in Instances : inst[i] \in {"queued", "picked"})
          /\ tx_closed' /\ call[c] = "owned"
          /\ UNCHANGED <<handles, refs, mine, cur, worker, exit, limit, inst, place>>
      BY <1>3 DEF Stop
    <2>2. /\ handles = Workers /\ exit = {} /\ ~Aborted
          /\ \A d \in Clones : how[d] = "none" /\ call[d] \notin Stopping
      BY <1>3, <2>1 DEF Unclosed, RefsCounted, Counting
    <2>3. GracefulAlone'
      BY <2>1, <2>2 DEF TypeOK, GracefulAlone, Stopping
    <2>4. \A w \in Workers : ~Past(c, w)'
      BY <2>1, <2>2 DEF TypeOK, Past
    <2>5. ~late' => \A i \in Instances : inst'[i] \notin {"queued", "picked", "aborted"}
      BY <2>1, <2>2 DEF Aborted
    <2>6. \A d \in Clones : how'[d] \in {"graceful", "waited"} => d = c
      BY <2>1, <2>2 DEF TypeOK
    <2>7. Settled'
      BY <2>4, <2>5, <2>6 DEF Settled
    <2> QED
      BY <1>0, <1>1, <2>3, <2>7
  <1> QED
    BY <1>2, <1>3 DEF TypeOK

(* The other steps of a stop.  What it is through with grows only by a      *)
(* worker without instances, and nothing else disturbs it.                  *)
StopGoesOn(c) ==
    \/ StopTake(c) \/ \E w \in Workers : StopNext(c, w)
    \/ StopAcquired(c) \/ StopRelease(c) \/ StopSignal(c) \/ StopJoin(c) \/ StopTimeout(c)

LEMMA StopStructure ==
  ASSUME IInv, NEW c \in Clones, StopGoesOn(c)
  PROVE  /\ call[c] \in Stopping /\ tx_closed
         /\ UNCHANGED <<tx_closed, refs, worker, inst, place, late>>
         /\ Placed' /\ RefsCounted' /\ Unclosed' /\ GracefulAlone'
  <1> USE DEF IInv, workerVars, actorVars, Goto, Stopping, Counting
  <1>1. /\ call[c] \in Stopping
        /\ UNCHANGED <<tx_closed, refs, worker, inst, place, late>>
    BY DEF StopGoesOn, StopTake, StopNext, StopAcquired, StopRelease, StopSignal, StopJoin, StopTimeout
  <1>2. tx_closed
    BY <1>1 DEF Unclosed
  <1>3. Placed' /\ Unclosed'
    BY <1>1, <1>2 DEF Placed, Unclosed
  <1>4. /\ call'[c] \in Stopping \cup {"drop"} /\ call'[c] # "take"
        /\ \A d \in Clones \ {c} : call'[d] = call[d]
    BY DEF TypeOK, StopGoesOn, StopTake, StopNext, StopAcquired, StopRelease, StopSignal, StopJoin, StopTimeout
  <1>5. RefsCounted'
    BY <1>1, <1>4 DEF RefsCounted
  <1>6. /\ \A d \in Clones \ {c} : how'[d] = how[d] /\ mine'[d] = mine[d]
        /\ how'[c] \in {how[c], "none", "waited"}
        /\ how'[c] = "waited" => how[c] \in {"graceful", "waited"}
        /\ how'[c] = "graceful" => call'[c] \in Stopping
        /\ how'[c] = "waited" /\ how[c] = "graceful" => call'[c] = "drop" /\ mine'[c] = {}
        /\ handles' = handles \/ handles' = {}
        /\ call[c] = "take" => handles' = {}
    <2>1. CASE StopTake(c) \/ \E w \in Workers : StopNext(c, w)
      BY <2>1 DEF TypeOK, StopTake, StopNext
    <2>2. CASE StopAcquired(c) \/ StopRelease(c) \/ StopSignal(c)
      BY <2>2 DEF TypeOK, StopAcquired, StopRelease, StopSignal
    <2>3. CASE StopJoin(c)
      BY <2>3 DEF TypeOK, StopJoin
    <2>4. CASE StopTimeout(c)
      BY <2>4 DEF TypeOK, StopTimeout
    <2> QED
      BY <2>1, <2>2, <2>3, <2>4 DEF StopGoesOn
  <1>7. GracefulAlone'
    <2> SUFFICES ASSUME NEW d \in Clones, how'[d] \in {"graceful", "waited"}
                 PROVE  /\ tx_closed'
                        /\ \A e \in Clones \ {d} : how'[e] = "none" /\ call'[e] \notin Stopping
                        /\ how'[d] = "graceful" => call'[d] \in Stopping
                        /\ how'[d] = "waited" => call'[d] \notin Stopping /\ mine'[d] = {}
                        /\ IF call'[d] = "take" THEN handles' = Workers /\ exit' = {} ELSE handles' = {}
      BY DEF GracefulAlone
    <2>1. d = c
      BY <1>1, <1>6 DEF GracefulAlone
    <2>2. how[c] = "graceful"
      BY <1>1, <1>6, <2>1 DEF GracefulAlone
    <2> QED
      BY <1>1, <1>2, <1>4, <1>6, <2>1, <2>2 DEF GracefulAlone
  <1> QED
    BY <1>1, <1>2, <1>3, <1>5, <1>7

LEMMA StopGoesOnKeeps ==
  ASSUME IInv, NEW c \in Clones, StopGoesOn(c)
  PROVE  IInv'
  <1> USE DEF IInv
  <1>0. TypeOK'
    BY StopTypeOK DEF StopStep, StopGoesOn
  <1>1. /\ call[c] \in Stopping /\ tx_closed
        /\ UNCHANGED <<tx_closed, refs, worker, inst, place, late>>
        /\ Placed' /\ RefsCounted' /\ Unclosed' /\ GracefulAlone'
    BY StopStructure
  <1>2. Settled'
    <2> SUFFICES ASSUME NEW d \in Clones, how'[d] \in {"graceful", "waited"}, ~late
                 PROVE  /\ \A i \in Instances : inst[i] \notin {"queued", "picked", "aborted"}
                        /\ \A w \in Workers, i \in Instances :
                              Past(d, w)' /\ place[i] = w => inst[i] \notin {"running", "stopping", "panicked"}
      BY <1>1 DEF Settled
    <2>1. d = c /\ how[c] = "graceful"
      <3>1. how'[d] = how[d] \/ (d = c /\ how[c] = "graceful")
        BY DEF TypeOK, StopGoesOn, StopTake, StopNext, StopAcquired, StopRelease, StopSignal,
               StopJoin, StopTimeout
      <3> QED
        BY <1>1, <3>1 DEF GracefulAlone
    <2>2. /\ \A i \in Instances : inst[i] \notin {"queued", "picked", "aborted"}
          /\ \A w \in Workers, i \in Instances :
                Past(c, w) /\ place[i] = w => inst[i] \notin {"running", "stopping", "panicked"}
      BY <2>1 DEF Settled
    <2>3. ASSUME NEW w \in Workers, Past(c, w)'
          PROVE  Past(c, w) \/ Permits(w) = {}
      <3> USE DEF Past, Goto
      <3>1. CASE StopTake(c)
        BY <2>1, <2>3, <3>1 DEF TypeOK, StopTake, GracefulAlone, workerVars
      <3>2. ASSUME NEW v \in Workers, StopNext(c, v) PROVE Past(c, w)
        BY <2>1, <2>3, <3>2 DEF TypeOK, StopNext
      <3>3. CASE StopAcquired(c)
        BY <2>1, <2>3, <3>3 DEF TypeOK, StopAcquired
      <3>4. CASE StopRelease(c) \/ StopSignal(c)
        BY <2>1, <2>3, <3>4 DEF TypeOK, StopRelease, StopSignal
      <3>5. CASE StopJoin(c)
        BY <2>1, <2>3, <3>5 DEF TypeOK, StopJoin, workerVars
      <3>6. CASE StopTimeout(c)
        BY <2>1, <3>6 DEF TypeOK, StopTimeout
      <3> QED
        BY <3>1, <3>2, <3>3, <3>4, <3>5, <3>6 DEF StopGoesOn
    <2>4. \A w \in Workers, i \in Instances :
             Permits(w) = {} /\ place[i] = w => inst[i] \notin {"running", "stopping", "panicked"}
      BY DEF Permits, On
    <2> QED
      BY <2>1, <2>2, <2>3, <2>4
  <1> QED
    BY <1>0, <1>1, <1>2

-----------------------------------------------------------------------------
(* The steps of a drop move only the call of a clone that does not stop.    *)
(* The last owner of the handles signals the workers that are left, which   *)
(* are none once a graceful stop took them.                                 *)
LEMMA DropStructure ==
  ASSUME IInv, NEW c \in Clones, DropStep(c)
  PROVE  /\ call[c] \notin Stopping /\ call'[c] \notin Stopping
         /\ call[c] \in {"owned", "drop", "close", "takeRest", "dropHandles", "dropTx"}
         /\ \A d \in Clones \ {c} : call'[d] = call[d]
         /\ tx_closed => tx_closed'
         /\ UNCHANGED <<cur, mine, how, worker, limit, place, late>>
         /\ RefsCounted'
         /\ (handles' = handles /\ exit' = exit)
            \/ (handles' = {} /\ exit' = exit \cup handles /\ refs = {c}
                /\ (tx_closed \/ refs' = {}))
  <1> USE DEF IInv, TypeOK, workerVars, actorVars, Goto, Stopping, Counting
  <1>1. CASE Drop(c) \/ DropCheck(c) \/ DropClose(c)
    BY <1>1 DEF RefsCounted, Drop, DropCheck, DropClose
  <1>2. CASE DropRest(c)
    <2>1. refs = {c} /\ c \in refs
      BY <1>2 DEF RefsCounted, DropRest
    <2> QED
      BY <1>2, <2>1 DEF RefsCounted, DropRest
  <1>3. CASE DropHandles(c)
    BY <1>3 DEF RefsCounted, DropHandles
  <1>4. CASE DropTx(c)
    BY <1>4 DEF RefsCounted, DropTx
  <1> QED
    BY <1>1, <1>2, <1>3, <1>4 DEF DropStep

(* Only the last tx takes instances with it, from the queue and after the   *)
(* workers are over.                                                        *)
LEMMA DropInstances ==
  ASSUME TypeOK, NEW c \in Clones, DropStep(c)
  PROVE  \/ inst' = inst
         \/ /\ \A w \in Workers : worker[w] # "polling"
            /\ \A i \in Instances : inst'[i] = inst[i] \/ (inst[i] = "queued" /\ inst'[i] = "aborted")
  <1>1. CASE DropTx(c)
    <2>1. inst' = [i \in Instances |-> IF i \in Left({v \in Workers : Stopped(v)}, senders \ {c})
                                       THEN "aborted" ELSE inst[i]]
      BY <1>1 DEF DropTx, Over
    <2>2. CASE \A w \in Workers : Stopped(w)
      BY <2>1, <2>2 DEF Left, Waiting, Stopped
    <2>3. CASE ~\A w \in Workers : Stopped(w)
      <3>1. Left({v \in Workers : Stopped(v)}, senders \ {c}) = {}
        BY <2>3 DEF Left
      <3> QED
        BY <2>1, <3>1 DEF TypeOK
    <2> QED
      BY <2>2, <2>3
  <1>2. CASE ~DropTx(c)
    BY <1>2 DEF DropStep, Drop, DropCheck, DropClose, DropRest, DropHandles, actorVars
  <1> QED
    BY <1>1, <1>2

LEMMA DropKeeps ==
  ASSUME IInv, NEW c \in Clones, DropStep(c)
  PROVE  IInv'
  <1> USE DEF IInv
  <1>0. TypeOK'
    BY DropTypeOK
  <1>1. /\ call[c] \notin Stopping /\ call'[c] \notin Stopping
        /\ call[c] \in {"owned", "drop", "close", "takeRest", "dropHandles", "dropTx"}
        /\ \A d \in Clones \ {c} : call'[d] = call[d]
        /\ tx_closed => tx_closed'
        /\ UNCHANGED <<cur, mine, how, worker, limit, place, late>>
        /\ RefsCounted'
        /\ (handles' = handles /\ exit' = exit)
           \/ (handles' = {} /\ exit' = exit \cup handles /\ refs = {c}
               /\ (tx_closed \/ refs' = {}))
    BY DropStructure
  <1>2. \/ inst' = inst
        \/ /\ \A w \in Workers : worker[w] # "polling"
           /\ \A i \in Instances : inst'[i] = inst[i] \/ (inst[i] = "queued" /\ inst'[i] = "aborted")
    BY DropInstances
  <1>3. Placed'
    BY <1>1, <1>2 DEF Placed
  <1>4. Unclosed'
    <2> SUFFICES ASSUME ~tx_closed'
                 PROVE  /\ refs' # {} => handles' = Workers /\ exit' = {}
                        /\ \A d \in Clones : how'[d] = "none" /\ call'[d] \notin Stopping /\ mine'[d] = {}
                        /\ \A w \in Workers : worker'[w] = "polling" /\ limit'[w] = "free"
                        /\ ~Aborted'
      BY DEF Unclosed
    <2>1. ~tx_closed
      BY <1>1
    <2>2. refs' \subseteq refs
      BY DEF DropStep, Drop, DropCheck, DropClose, DropRest, DropHandles, DropTx
    <2>3. inst' = inst
      BY <1>2, <2>1, WorkersAssumption DEF Unclosed
    <2> QED
      BY <1>1, <2>1, <2>2, <2>3 DEF Unclosed, Aborted
  <1>5. ASSUME NEW d \in Clones, how[d] \in {"graceful", "waited"}
        PROVE  handles' = handles /\ exit' = exit
    <2>1. CASE handles = {}
      BY <1>1, <2>1
    <2>2. CASE handles # {}
      <3>1. how[d] = "graceful" /\ call[d] \in Stopping /\ d # c
        BY <1>1, <1>5, <2>2 DEF GracefulAlone, Stopping
      <3>2. refs # {c}
        BY <3>1 DEF RefsCounted, Counting
      <3> QED
        BY <1>1, <3>2
    <2> QED
      BY <2>1, <2>2
  <1>6. GracefulAlone'
    BY <1>1, <1>5 DEF GracefulAlone, Stopping
  <1>7. Settled'
    <2> SUFFICES ASSUME NEW d \in Clones, how[d] \in {"graceful", "waited"}, ~late
                 PROVE  /\ \A i \in Instances : inst'[i] \notin {"queued", "picked", "aborted"}
                        /\ \A w \in Workers, i \in Instances :
                              Past(d, w)' /\ place[i] = w => inst'[i] \notin {"running", "stopping", "panicked"}
      BY <1>1 DEF Settled
    <2>1. \A w \in Workers : Past(d, w)' => Past(d, w)
      BY <1>1, <1>5 DEF Past, Stopping
    <2>2. \A i \in Instances : inst[i] \notin {"queued", "picked", "aborted"}
      BY DEF Settled
    <2>3. \A i \in Instances : inst'[i] = inst[i]
      BY <1>2, <2>2
    <2> QED
      BY <2>1, <2>2, <2>3 DEF Settled
  <1> QED
    BY <1>0, <1>1, <1>3, <1>4, <1>6, <1>7

-----------------------------------------------------------------------------
LEMMA InitIInv == Init => IInv
  <1> SUFFICES ASSUME Init PROVE IInv
    OBVIOUS
  <1>1. /\ \A c \in Clones : call[c] = "owned" /\ how[c] = "none" /\ mine[c] = {} /\ c \in refs
        /\ \A w \in Workers : worker[w] = "polling" /\ limit[w] = "free"
        /\ \A i \in Instances : inst[i] = "unsent"
        /\ handles = Workers /\ exit = {}
    BY DEF Init
  <1> QED
    BY <1>1, InitTypeOK DEF IInv, Placed, RefsCounted, Unclosed, Aborted, GracefulAlone, Settled, Stopping

LEMMA NextIInv == IInv /\ [Next]_vars => IInv'
  <1> SUFFICES ASSUME IInv, [Next]_vars PROVE IInv'
    OBVIOUS
  <1>1. ASSUME NEW c \in Clones, StopStep(c) PROVE IInv'
    BY <1>1, StopBegins, StopGoesOnKeeps DEF StopStep, StopGoesOn
  <1>2. CASE UNCHANGED vars
    BY <1>2, NextTypeOK DEF IInv, vars, Placed, RefsCounted, Unclosed, Aborted, GracefulAlone, Settled, Past
  <1> QED
    BY <1>1, <1>2, NextParts, ActorKeeps, EndKeeps, DropKeeps

(* A graceful stop that returns true has aborted no instance that had       *)
(* reached its worker when it began, however instances panic and end and    *)
(* other clones are stopped and dropped meanwhile.                          *)
THEOREM GracefulSettles == Spec => []SettledKept
  <1>1. IInv => SettledKept
    BY DEF IInv, Settled, SettledKept, GracefulStop, Aborted
  <1> QED
    BY <1>1, InitIInv, NextIInv, PTL DEF Spec
===============================================================================
