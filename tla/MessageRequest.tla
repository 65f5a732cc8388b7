--------------------------- MODULE MessageRequest ---------------------------
(***************************************************************************)
(* request.rs: the future that Addr::send and Addr::wait return.  It sends *)
(* the message to the actor's mailbox, for which it may wait (the channel  *)
(* is full), then waits for the answer, each with an optional timeout.     *)
(*                                                                         *)
(* A poll takes several steps here: the actor, the channel and the timers  *)
(* are on other threads and act between them.  Of the channel only what    *)
(* one send sees is modelled, at the grain of Channel: slots come and go   *)
(* and notifications find this sender or another one.  Of the answer only  *)
(* what its receiver sees is modelled (Oneshot), of the actor what becomes *)
(* of this one message (ContextFuture).                                    *)
(***************************************************************************)
VARIABLES
    phase,      \* the variant of the enum, "Request" or "Response"
    outcome,    \* what the future resolved to, "none" before that
    at,         \* where its poll is: "rest" between polls
    woken,      \* whether its task was woken since the last poll, or is new
    owned,      \* whether the caller still has it
    room,       \* whether the channel has a slot
    closed,     \* whether the channel is closed
    seen,       \* whether the SendFuture's copy of in_queue shows a slot
    listener,   \* its listener for a slot: "none", "created", "waiting" (it was
                \* polled and has the waker) or "notified"
    message,    \* where the message is
    answer,     \* the answer channel: "none", "ready" or "closed"
    watching,   \* whether the answer channel has the waker of the task
    timer,      \* each timeout: "off", "set" (a Duration), or a Sleep that is
                \* "armed", "watched" (it has a waker) or "fired"
    panicked    \* whether the actor panicked while it had the message

channel == <<room, closed, seen, listener>>
actor   == <<message, answer, panicked>>
vars    == <<phase, outcome, at, woken, owned, channel, actor, watching, timer>>

Timers == {"timeout", "timeout_response"}

TypeOK ==
    /\ phase \in {"Request", "Response"}
    /\ outcome \in {"none", "Ok", "Closed", "SendTimeout", "ReceiveTimeout"}
    /\ at \in {"rest", "load", "check", "push", "sendTimer", "answer", "answerTimer"}
    /\ {woken, owned, room, closed, seen, watching, panicked} \subseteq BOOLEAN
    /\ listener \in {"none", "created", "waiting", "notified"}
    /\ message \in {"held", "mailbox", "handling", "handled", "dropped"}
    /\ answer \in {"none", "ready", "closed"}
    /\ timer \in [Timers -> {"off", "set", "armed", "watched", "fired"}]
    /\ phase = "Request" => timer["timeout_response"] \in {"off", "set"}
    /\ phase = "Response" => timer["timeout"] = "off"
    /\ timer["timeout"] # "set"
    /\ phase = "Request" => at \notin {"answer", "answerTimer"}

Init ==
    /\ phase = "Request" /\ outcome = "none" /\ at = "rest" /\ woken = TRUE /\ owned = TRUE
    /\ room \in BOOLEAN /\ closed = FALSE /\ seen = FALSE /\ listener = "none"
    /\ message = "held" /\ answer = "none" /\ watching = FALSE /\ panicked = FALSE
    /\ \E t \in {"off", "armed"}, r \in {"off", "set"} :
          timer = [timeout |-> t, timeout_response |-> r]

-----------------------------------------------------------------------------
(* The task that awaits the request polls it, because it was woken or for   *)
(* no reason.                                                               *)
Poll ==
    /\ owned /\ at = "rest" /\ outcome = "none"
    /\ woken' = FALSE
    /\ at' = IF phase = "Request" THEN "load" ELSE "answer"
    /\ UNCHANGED <<phase, outcome, owned, channel, actor, watching, timer>>

Resolve(how) == outcome' = how /\ at' = "rest"

(* SendFuture::poll.  It loads in_queue once, ...                           *)
SendLoad ==
    /\ at = "load" /\ at' = "check"
    /\ seen' = room
    /\ UNCHANGED <<phase, outcome, woken, owned, room, closed, listener, actor, watching, timer>>

(* ... takes a slot by compare_exchange, or learns that there is none ...   *)
SendReserve ==
    /\ at = "check" /\ seen
    /\ IF room THEN at' = "push" /\ room' \in BOOLEAN /\ UNCHANGED seen
               ELSE seen' = FALSE /\ UNCHANGED <<at, room>>
    /\ UNCHANGED <<phase, outcome, woken, owned, closed, listener, actor, watching, timer>>

(* Mutant: the future waits as soon as it listens.                          *)
SendListenRests ==
    /\ at = "check" /\ ~seen /\ listener = "none"
    /\ listener' = "created" /\ at' = "sendTimer"
    /\ UNCHANGED <<phase, outcome, woken, owned, room, closed, seen, actor, watching, timer>>

(* ... and without a slot it listens, then polls its listener.  It does not *)
(* look at in_queue again: not after it began to listen, nor when it finds  *)
(* that it was notified and listens anew.                                   *)
SendListen ==
    /\ at = "check" /\ ~seen /\ listener = "none"
    /\ listener' = "created"
    /\ UNCHANGED <<phase, outcome, at, woken, owned, room, closed, seen, actor, watching, timer>>

SendNotified ==
    /\ at = "check" /\ ~seen /\ listener = "notified"
    /\ listener' = "none"
    /\ UNCHANGED <<phase, outcome, at, woken, owned, room, closed, seen, actor, watching, timer>>

SendPending ==
    /\ at = "check" /\ ~seen /\ listener \in {"created", "waiting"}
    /\ listener' = "waiting" /\ at' = "sendTimer"
    /\ UNCHANGED <<phase, outcome, woken, owned, room, closed, seen, actor, watching, timer>>

(* Mutant: the variant is not replaced when the message has been sent.      *)
PollAcceptedStays ==
    /\ at = "push" /\ ~closed
    /\ message' = "mailbox" /\ listener' = "none"
    /\ at' = "sendTimer"
    /\ UNCHANGED <<phase, timer, outcome, woken, owned, room, closed, seen, answer, panicked, watching>>

(* Mutant: the request waits without a look at the answer channel.          *)
PollAcceptedRests ==
    /\ at = "push" /\ ~closed
    /\ message' = "mailbox" /\ listener' = "none"
    /\ phase' = "Response" /\ at' = "rest"
    /\ timer' = [timer EXCEPT !["timeout_response"] = IF @ = "set" THEN "armed" ELSE "off",
                              !["timeout"] = "off"]
    /\ UNCHANGED <<outcome, woken, owned, room, closed, seen, answer, panicked, watching>>

(* The SendFuture pushes.  The message is sent: the second timer starts,    *)
(* the SendFuture and the first timer are dropped, and the same poll goes   *)
(* on with the answer.                                                      *)
PollAccepted ==
    /\ at = "push" /\ ~closed
    /\ message' = "mailbox" /\ listener' = "none"
    /\ phase' = "Response" /\ at' = "answer"
    /\ timer' = [timer EXCEPT !["timeout_response"] = IF @ = "set" THEN "armed" ELSE "off",
                              !["timeout"] = "off"]
    /\ UNCHANGED <<outcome, woken, owned, room, closed, seen, answer, panicked, watching>>

PollRefused ==
    /\ at = "push" /\ closed
    /\ message' = "dropped" /\ answer' = "closed"
    /\ Resolve("Closed")
    /\ UNCHANGED <<phase, woken, owned, channel, panicked, watching, timer>>

(* Mutant: the waker of the task is not given to the timer.                 *)
PollTimerDeaf(t, place, how) ==
    /\ at = place
    /\ IF timer[t] = "fired" THEN Resolve(how) ELSE at' = "rest" /\ UNCHANGED outcome
    /\ UNCHANGED <<phase, woken, owned, channel, actor, watching, timer>>

(* The timer t, polled when what it bounds is pending. *)
PollTimer(t, place, how) ==
    /\ at = place
    /\ IF timer[t] = "fired" THEN Resolve(how) /\ UNCHANGED timer
       ELSE /\ at' = "rest" /\ UNCHANGED outcome
            /\ timer' = [timer EXCEPT ![t] = IF @ = "off" THEN "off" ELSE "watched"]
    /\ UNCHANGED <<phase, woken, owned, channel, actor, watching>>

PollSendTimer   == PollTimer("timeout", "sendTimer", "SendTimeout")
PollAnswerTimer == PollTimer("timeout_response", "answerTimer", "ReceiveTimeout")

(* The OneshotReceiver. *)
PollAnswer ==
    /\ at = "answer"
    /\ \/ answer = "ready" /\ Resolve("Ok") /\ UNCHANGED watching
       \/ answer = "closed" /\ Resolve("Closed") /\ UNCHANGED watching
       \/ answer = "none" /\ watching' = TRUE /\ at' = "answerTimer" /\ UNCHANGED outcome
    /\ UNCHANGED <<phase, woken, owned, channel, actor, timer>>

(* The caller drops the request, resolved or not. *)
Drop ==
    /\ owned /\ at = "rest"
    /\ owned' = FALSE
    /\ message' = IF message = "held" THEN "dropped" ELSE message
    /\ listener' = "none"
    /\ timer' = [t \in Timers |-> "off"]
    /\ UNCHANGED <<phase, outcome, at, woken, room, closed, seen, answer, panicked, watching>>

-----------------------------------------------------------------------------
(* The channel.  Others take slots and give them back.                      *)
Slot ==
    /\ room' = ~room
    /\ UNCHANGED <<phase, outcome, at, woken, owned, closed, seen, listener, actor, watching, timer>>

Close ==
    /\ ~closed /\ closed' = TRUE
    /\ UNCHANGED <<phase, outcome, at, woken, owned, room, seen, listener, actor, watching, timer>>

(* The receiver that gave a slot back, a sender that sent or that goes, or  *)
(* who closed the channel notifies one listener or all: perhaps this one,   *)
(* perhaps much later and beside no slot, or never, when another sender's   *)
(* was chosen.                                                              *)
Notify ==
    /\ listener \in {"created", "waiting"} /\ listener' = "notified"
    /\ woken' = (woken \/ listener = "waiting")
    /\ UNCHANGED <<phase, outcome, at, owned, room, closed, seen, actor, watching, timer>>

(* A timer goes off. *)
Fire(t) ==
    /\ timer[t] \in {"armed", "watched"}
    /\ timer' = [timer EXCEPT ![t] = "fired"]
    /\ woken' = (woken \/ timer[t] = "watched")
    /\ UNCHANGED <<phase, outcome, at, owned, channel, actor, watching>>

(* The actor takes the message, and starts its handler if the requester is  *)
(* still there (handle() in handler.rs).                                    *)
Take ==
    /\ message = "mailbox"
    /\ message' = IF owned THEN "handling" ELSE "dropped"
    /\ UNCHANGED <<phase, outcome, at, woken, owned, channel, answer, panicked, watching, timer>>

Answer ==
    /\ message = "handling"
    /\ message' = "handled" /\ answer' = "ready"
    /\ woken' = (woken \/ watching)
    /\ UNCHANGED <<phase, outcome, at, owned, channel, panicked, watching, timer>>

(* The message is dropped before the end of its handler: the actor stops at *)
(* once, or it panics.                                                      *)
Lose ==
    /\ message \in {"mailbox", "handling"}
    /\ message' = "dropped" /\ answer' = "closed"
    /\ panicked' \in IF message = "handling" THEN BOOLEAN ELSE {FALSE}
    /\ woken' = (woken \/ watching)
    /\ UNCHANGED <<phase, outcome, at, owned, channel, watching, timer>>

-----------------------------------------------------------------------------
Sending == SendLoad \/ SendReserve \/ SendListen \/ SendNotified \/ SendPending
Polling == \/ Sending \/ PollAccepted \/ PollRefused \/ PollSendTimer
           \/ PollAnswer \/ PollAnswerTimer

Next == \/ Poll \/ Polling \/ Drop
        \/ Slot \/ Close \/ Notify \/ Take \/ Answer \/ Lose
        \/ \E t \in Timers : Fire(t)

Spec == Init /\ [][Next]_vars

(* A poll runs to its end, a woken task is polled, and time passes.  The    *)
(* channel and the actor may do nothing for ever.  Strong fairness: not     *)
(* every look of a poll at its listener comes just after a notification,    *)
(* for ever, so that the poll never gets beyond it.                         *)
FairSpec == /\ Spec
            /\ WF_vars(Polling) /\ SF_vars(SendPending) /\ WF_vars(woken /\ Poll)
            /\ \A t \in Timers : WF_vars(Fire(t))

-----------------------------------------------------------------------------
(* What the caller learns is what became of the message: Ok means that the  *)
(* handler ran to its end, SendTimeout and Closed that it did not and never *)
(* will, SendTimeout moreover that the actor never got the message; only    *)
(* ReceiveTimeout leaves it open.                                           *)
OutcomeTrue ==
    /\ outcome = "Ok" => message = "handled"
    /\ outcome = "Closed" => message = "dropped"
    /\ outcome = "SendTimeout" => message \in {"held", "dropped"} /\ answer = "none"
    /\ outcome = "ReceiveTimeout" => message # "held"

(* A request that rests and was not woken misses nothing it was told: its   *)
(* listener is in the list, with the waker of the task, and nobody has      *)
(* notified it; no answer came; and the timer has not gone off, in any      *)
(* order of these.  There may be a slot: the channel may have told nobody,  *)
(* or another sender (SenderNotStranded of Channel).                        *)
RestsWatched ==
    owned /\ at = "rest" /\ ~woken /\ outcome = "none" =>
        /\ phase = "Request" => listener = "waiting" /\ timer["timeout"] # "fired"
        /\ phase = "Response" => answer = "none" /\ timer["timeout_response"] # "fired"

(* With both timeouts, or with the second once the message was sent, a      *)
(* request resolves, or its caller drops it, whatever the channel and the   *)
(* actor do or fail to do.                                                  *)
Ends ==
    owned /\ timer["timeout_response"] # "off" /\ (phase = "Request" => timer["timeout"] # "off")
        ~> outcome # "none" \/ ~owned

(* With or without timeouts a request resolves once the actor is done with  *)
(* its message.                                                             *)
AnswerHeard == owned /\ answer # "none" ~> outcome # "none" \/ ~owned

(* error.rs: a panic of the thread the actor runs on is reported as         *)
(* ActixAsyncError::Receiver, not as Closed.                                *)
PanicIsReceiver == panicked => outcome # "Closed"
=============================================================================
