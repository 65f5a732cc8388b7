------------------------- MODULE MessageRequestProofs -------------------------
(* Theorems about a request: what its caller learns is true, and a request   *)
(* that rests has left a waker with everything that could end its wait.      *)
EXTENDS MessageRequest, TLAPS

(* A poll runs only for a caller who still waits, in the branch of its phase. *)
PollsWaiting ==
    /\ at # "rest" => owned /\ outcome = "none"
    /\ at \in {"load", "check", "push", "sendTimer"} => phase = "Request"

(* The message is with the request until the variant is replaced, and the    *)
(* answer channel says what became of it.                                    *)
MessagePlace ==
    /\ phase = "Request" => message \in {"held", "dropped"}
    /\ phase = "Request" /\ owned /\ outcome = "none" => message = "held"
    /\ phase = "Request" /\ answer # "none" => outcome = "Closed"
    /\ message = "held" => phase = "Request" /\ answer = "none"
    /\ answer = "ready" => message = "handled"
    /\ answer = "closed" => message = "dropped"

(* Only the phase that a timeout bounds can end with it.                     *)
TimeoutPhase ==
    /\ outcome = "SendTimeout" => phase = "Request"
    /\ outcome = "ReceiveTimeout" => phase = "Response"

OutcomeInv == TypeOK /\ PollsWaiting /\ MessagePlace /\ TimeoutPhase /\ OutcomeTrue

(* Who has looked and found nothing has left its waker, unless it was woken  *)
(* since: with its listener, with the answer and, at rest, with the timer.   *)
Waits == owned /\ ~woken /\ outcome = "none"

SendWatched ==
    Waits /\ phase = "Request" =>
        /\ at \in {"rest", "sendTimer"} => listener = "waiting"
        /\ at = "rest" => timer["timeout"] \in {"off", "watched"}

AnswerWatched ==
    Waits /\ phase = "Response" =>
        /\ at \in {"rest", "answerTimer"} => answer = "none" /\ watching
        /\ at = "rest" => timer["timeout_response"] \in {"off", "watched"}

WatchInv == TypeOK /\ PollsWaiting /\ SendWatched /\ AnswerWatched

-----------------------------------------------------------------------------
(* The timers keep their types.                                              *)
LEMMA TimerValues ==
  ASSUME TypeOK
  PROVE  /\ DOMAIN timer = Timers
         /\ timer["timeout"] \in {"off", "armed", "watched", "fired"}
         /\ timer["timeout_response"] \in {"off", "set", "armed", "watched", "fired"}
  BY DEF TypeOK, Timers

LEMMA InitTypeOK == Init => TypeOK
  <1> SUFFICES ASSUME Init PROVE TypeOK
    OBVIOUS
  <1>1. PICK t \in {"off", "armed"}, r \in {"off", "set"} :
            timer = [timeout |-> t, timeout_response |-> r]
    BY DEF Init
  <1>2. /\ timer \in [Timers -> {"off", "set", "armed", "watched", "fired"}]
        /\ timer["timeout"] = t /\ timer["timeout_response"] = r
    BY <1>1 DEF Timers
  <1> QED
    BY <1>2 DEF Init, TypeOK

LEMMA SendingTypeOK == TypeOK /\ Sending => TypeOK'
  <1> SUFFICES ASSUME TypeOK, Sending PROVE TypeOK'
    OBVIOUS
  <1> USE DEF TypeOK, Timers, actor
  <1>1. CASE SendLoad
    BY <1>1 DEF SendLoad
  <1>2. CASE SendReserve
    BY <1>2 DEF SendReserve
  <1>3. CASE SendListen \/ SendNotified \/ SendPending
    BY <1>3 DEF SendListen, SendNotified, SendPending
  <1> QED
    BY <1>1, <1>2, <1>3 DEF Sending

LEMMA PollingTypeOK == TypeOK /\ Polling => TypeOK'
  <1> SUFFICES ASSUME TypeOK, Polling PROVE TypeOK'
    OBVIOUS
  <1>1. CASE PollAccepted
    BY <1>1 DEF TypeOK, Timers, channel, actor, PollAccepted
  <1>2. CASE PollRefused
    BY <1>2 DEF TypeOK, Timers, channel, actor, PollRefused, Resolve
  <1>3. CASE Sending
    BY <1>3, SendingTypeOK
  <1>4. CASE PollSendTimer
    BY <1>4 DEF TypeOK, Timers, channel, actor, PollSendTimer, PollTimer, Resolve
  <1>5. CASE PollAnswer
    BY <1>5 DEF TypeOK, Timers, channel, actor, PollAnswer, Resolve
  <1>6. CASE PollAnswerTimer
    BY <1>6 DEF TypeOK, Timers, channel, actor, PollAnswerTimer, PollTimer, Resolve
  <1> QED
    BY <1>1, <1>2, <1>3, <1>4, <1>5, <1>6 DEF Polling

LEMMA NextTypeOK == TypeOK /\ [Next]_vars => TypeOK'
  <1> SUFFICES ASSUME TypeOK, [Next]_vars PROVE TypeOK'
    OBVIOUS
  <1>1. CASE Poll
    BY <1>1 DEF TypeOK, Timers, channel, actor, Poll
  <1>2. CASE Polling
    BY <1>2, PollingTypeOK
  <1>3. CASE Drop
    BY <1>3 DEF TypeOK, Timers, Drop
  <1>4. CASE Slot \/ Close \/ Notify
    BY <1>4 DEF TypeOK, Timers, actor, Slot, Close, Notify
  <1>5. CASE Take \/ Answer \/ Lose
    BY <1>5 DEF TypeOK, Timers, channel, Take, Answer, Lose
  <1>6. ASSUME NEW t \in Timers, Fire(t) PROVE TypeOK'
    BY <1>6 DEF TypeOK, Timers, channel, actor, Fire
  <1>7. CASE UNCHANGED vars
    BY <1>7 DEF TypeOK, vars, channel, actor
  <1> QED
    BY <1>1, <1>2, <1>3, <1>4, <1>5, <1>6, <1>7 DEF Next

(* TypeOK holds in every reachable state: in particular the second timer     *)
(* does not run before the message was sent, nor the first one after.        *)
THEOREM TypeCorrect == Spec => []TypeOK
  BY InitTypeOK, NextTypeOK, PTL DEF Spec

-----------------------------------------------------------------------------
LEMMA PollingOutcome == OutcomeInv /\ Polling => OutcomeInv'
  <1> SUFFICES ASSUME OutcomeInv, Polling PROVE OutcomeInv'
    OBVIOUS
  <1> USE DEF OutcomeInv, PollsWaiting, MessagePlace, TimeoutPhase, OutcomeTrue
  <1>0. TypeOK'
    BY PollingTypeOK
  <1>1. CASE PollAccepted
    BY <1>0, <1>1 DEF PollAccepted
  <1>2. CASE PollRefused
    BY <1>0, <1>2 DEF PollRefused, Resolve, TypeOK
  <1>3. CASE Sending
    BY <1>0, <1>3 DEF Sending, SendLoad, SendReserve, SendListen, SendNotified, SendPending, actor
  <1>4. CASE PollSendTimer
    BY <1>0, <1>4 DEF TypeOK, PollSendTimer, PollTimer, Resolve, channel, actor
  <1>5. CASE PollAnswer
    BY <1>0, <1>5 DEF TypeOK, PollAnswer, Resolve, channel, actor
  <1>6. CASE PollAnswerTimer
    BY <1>0, <1>6 DEF TypeOK, PollAnswerTimer, PollTimer, Resolve, channel, actor
  <1> QED
    BY <1>1, <1>2, <1>3, <1>4, <1>5, <1>6 DEF Polling

LEMMA NextOutcome == OutcomeInv /\ [Next]_vars => OutcomeInv'
  <1> SUFFICES ASSUME OutcomeInv, [Next]_vars PROVE OutcomeInv'
    OBVIOUS
  <1>0. TypeOK'
    BY NextTypeOK DEF OutcomeInv
  <1>2. CASE Polling
    BY <1>2, PollingOutcome
  <1> USE DEF OutcomeInv, PollsWaiting, MessagePlace, TimeoutPhase, OutcomeTrue
  <1>1. CASE Poll
    BY <1>0, <1>1 DEF Poll, channel, actor
  <1>3. CASE Drop
    BY <1>0, <1>3 DEF Drop, TypeOK
  <1>4. CASE Slot \/ Close \/ Notify
    BY <1>0, <1>4 DEF Slot, Close, Notify, actor
  <1>5. CASE Take \/ Answer \/ Lose
    BY <1>0, <1>5 DEF Take, Answer, Lose, channel, TypeOK
  <1>6. ASSUME NEW t \in Timers, Fire(t) PROVE OutcomeInv'
    BY <1>0, <1>6 DEF Fire, channel, actor
  <1>7. CASE UNCHANGED vars
    BY <1>0, <1>7 DEF vars, channel, actor
  <1> QED
    BY <1>1, <1>2, <1>3, <1>4, <1>5, <1>6, <1>7 DEF Next

(* What the caller learns is what became of the message, whatever order the  *)
(* acceptance, the answer, the timeouts, a stop or a panic of the actor and  *)
(* the polls come in (_MessageRequest::poll).                                *)
THEOREM OutcomeKept == Spec => []OutcomeTrue
  <1>1. Init => OutcomeInv
    BY InitTypeOK DEF Init, OutcomeInv, PollsWaiting, MessagePlace, TimeoutPhase, OutcomeTrue
  <1>2. OutcomeInv => OutcomeTrue
    BY DEF OutcomeInv
  <1> QED
    BY <1>1, <1>2, NextOutcome, PTL DEF Spec

-----------------------------------------------------------------------------
LEMMA PollingWatched == WatchInv /\ Polling => WatchInv'
  <1> SUFFICES ASSUME WatchInv, Polling PROVE WatchInv'
    OBVIOUS
  <1> USE DEF WatchInv, PollsWaiting, SendWatched, AnswerWatched, Waits
  <1>0. TypeOK'
    BY PollingTypeOK
  <1>1. CASE PollAccepted
    BY <1>0, <1>1 DEF PollAccepted
  <1>2. CASE PollRefused
    BY <1>0, <1>2 DEF PollRefused, Resolve
  <1>3. CASE Sending
    BY <1>0, <1>3 DEF Sending, SendLoad, SendReserve, SendListen, SendNotified, SendPending, actor
  <1>4. CASE PollSendTimer
    BY <1>0, <1>4, TimerValues DEF TypeOK, PollSendTimer, PollTimer, Resolve, channel, actor, Timers
  <1>5. CASE PollAnswer
    BY <1>0, <1>5 DEF TypeOK, PollAnswer, Resolve, channel, actor
  <1>6. CASE PollAnswerTimer
    BY <1>0, <1>6, TimerValues DEF TypeOK, PollAnswerTimer, PollTimer, Resolve, channel, actor, Timers
  <1> QED
    BY <1>1, <1>2, <1>3, <1>4, <1>5, <1>6 DEF Polling

LEMMA NextWatched == WatchInv /\ [Next]_vars => WatchInv'
  <1> SUFFICES ASSUME WatchInv, [Next]_vars PROVE WatchInv'
    OBVIOUS
  <1>0. TypeOK'
    BY NextTypeOK DEF WatchInv
  <1>2. CASE Polling
    BY <1>2, PollingWatched
  <1> USE DEF WatchInv, PollsWaiting, SendWatched, AnswerWatched, Waits
  <1>1. CASE Poll
    BY <1>0, <1>1 DEF Poll, channel, actor
  <1>3. CASE Drop
    BY <1>0, <1>3 DEF Drop
  <1>4. CASE Slot \/ Close \/ Notify
    BY <1>0, <1>4 DEF Slot, Close, Notify, actor, TypeOK
  <1>5. CASE Take \/ Answer \/ Lose
    <2>1. UNCHANGED <<phase, outcome, at, owned, listener, watching, timer>>
      BY <1>5 DEF Take, Answer, Lose, channel
    <2>2. woken' = woken \/ woken' = (woken \/ watching)
      BY <1>5 DEF Take, Answer, Lose
    <2>3. UNCHANGED answer \/ woken' = (woken \/ watching)
      BY <1>5 DEF Take, Answer, Lose
    <2> QED
      BY <1>0, <2>1, <2>2, <2>3
  <1>6. ASSUME NEW t \in Timers, Fire(t) PROVE WatchInv'
    BY <1>0, <1>6, TimerValues DEF Fire, channel, actor, Timers
  <1>7. CASE UNCHANGED vars
    BY <1>0, <1>7 DEF vars, channel, actor
  <1> QED
    BY <1>1, <1>2, <1>3, <1>4, <1>5, <1>6, <1>7 DEF Next

(* A request at rest misses nothing it is told: its listener, the answer     *)
(* channel and its timer have its waker, or have called it, however          *)
(* notifications, answers and timers interleave with the steps of its polls  *)
(* (SendFuture::poll, _MessageRequest::poll).  A slot is no reason to be     *)
(* woken: only the channel's notification of this sender is.                 *)
THEOREM RestKept == Spec => []RestsWatched
  <1>1. Init => WatchInv
    BY InitTypeOK DEF Init, WatchInv, PollsWaiting, SendWatched, AnswerWatched, Waits
  <1>2. WatchInv => RestsWatched
    BY DEF WatchInv, SendWatched, AnswerWatched, Waits, RestsWatched
  <1> QED
    BY <1>1, <1>2, NextWatched, PTL DEF Spec
=============================================================================
