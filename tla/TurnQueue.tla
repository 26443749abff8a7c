----------------------------- MODULE TurnQueue -----------------------------
(***************************************************************************)
(* The messages a chat session holds back while its agent is at work       *)
(* (sessions/queue.rs), what the person does with them (the hub's          *)
(* handlers in workspaces/service.rs and transport/connection.rs), and the *)
(* watcher that sends them one by one (watch_chat).                        *)
(*                                                                         *)
(* How a message is sent, and what that does to the session's status, is   *)
(* the backend's: call[m] says how far the task that sends m has come, and *)
(* the module of a backend takes it from "begin" to "done".  A step here   *)
(* is what a task does between two awaits or under one lock.  Time is left *)
(* out: a timer that is armed may fire at any moment.                      *)
(***************************************************************************)
EXTENDS Naturals, SequencesExt

CONSTANTS MaxMessages,  \* bound: messages the person writes
          MaxStops      \* bound: times the person presses stop

ASSUME TurnQueueAssumption == MaxMessages \in Nat /\ MaxStops \in Nat

Messages == 1..MaxMessages
Presses == 1..MaxStops

VARIABLES
    said,       \* messages written so far: a message is its number
    turns,      \* the queue, oldest first
    paused,     \* the queue is held
    status,     \* the session's status, a watch channel
    unseen,     \* the watcher has yet to look at it
    last,       \* last_status: what the watcher saw
    settling,   \* its timer is armed
    checked,    \* the timer fired on an idle session: it is about to take a message
    sending,    \* the message it sent last, 0 at first: it awaits that call
    call,       \* how far the sending of each message has come, "none" before it starts
    stop        \* how far each press of stop has come

queue == <<said, turns, paused>>
watcher == <<last, settling, checked, sending>>
qvars == <<queue, status, unseen, watcher, call, stop>>

Held == {turns[i] : i \in DOMAIN turns}

TurnQueueTypeOK ==
    /\ said \in 0..MaxMessages
    /\ turns \in Seq(Messages)
    /\ status \in {"idle", "thinking", "waiting"}
    /\ last \in {"idle", "thinking", "waiting"}
    /\ {paused, unseen, settling, checked} \subseteq BOOLEAN
    /\ sending \in 0..MaxMessages
    /\ DOMAIN call = Messages /\ DOMAIN stop = Presses

TurnQueueInit ==
    /\ said = 0 /\ turns = <<>> /\ paused = FALSE
    /\ status = "idle" /\ unseen = FALSE
    /\ last = "idle" /\ settling = FALSE /\ checked = FALSE /\ sending = 0
    /\ call = [m \in Messages |-> "none"]
    /\ stop = [p \in Presses |-> "none"]

\* status_tx.send: the watcher is woken even if nothing changed.
Signal(s) == status' = s /\ unseen' = TRUE

-----------------------------------------------------------------------------
\* What the person does, through whichever viewport drives.

\* A queue that is emptied is not kept, so it is not held for the next message either (tidy).
PausedOf(rest, was) == was /\ rest # <<>>

\* ChatTurn: sent at once; a queue held by a stop follows this turn.
ChatTurn ==
    /\ said < MaxMessages
    /\ said' = said + 1
    /\ paused' = FALSE
    /\ call' = [call EXCEPT ![said'] = "begin"]
    /\ UNCHANGED <<turns, status, unseen, watcher, stop>>

\* queue_turn: with the agent idle the oldest message is sent now.
ChatQueue ==
    /\ said < MaxMessages
    /\ said' = said + 1
    /\ LET all == Append(turns, said')
       IN  \/ /\ status # "idle"
              /\ turns' = all
              /\ UNCHANGED <<paused, call>>
           \/ /\ status = "idle"
              /\ turns' = Tail(all)
              /\ paused' = FALSE
              /\ call' = [call EXCEPT ![Head(all)] = "begin"]
    /\ UNCHANGED <<status, unseen, watcher, stop>>

\* unqueue_turn: the message in a place is taken out, and sent now or dropped.
ChatUnqueue(i, send) ==
    /\ i \in DOMAIN turns
    /\ turns' = RemoveAt(turns, i)
    /\ paused' = PausedOf(turns', paused /\ ~send)
    /\ call' = IF send THEN [call EXCEPT ![turns[i]] = "begin"] ELSE call
    /\ UNCHANGED <<said, status, unseen, watcher, stop>>

\* pause: there has to be a queue to hold.
PausedByStop == turns # <<>>

\* ChatInterrupt: what is queued waits, and the session is interrupted.
ChatInterrupt(p) ==
    /\ stop[p] = "none"
    /\ paused' = PausedByStop
    /\ stop' = [stop EXCEPT ![p] = "begin"]
    /\ UNCHANGED <<said, turns, status, unseen, watcher, call>>

-----------------------------------------------------------------------------
\* The watcher (watch_chat).

\* It is back in its select.
Watching == ~checked /\ (sending # 0 => call[sending] = "done")

\* A slip: what a stop ends while the agent waits for the person does not count as a turn.
ArmedAfterWork == IF status = last THEN settling ELSE status = "idle" /\ last = "thinking"

\* A turn that ended arms the timer; the same status again leaves it alone.
Armed == IF status = last THEN settling ELSE status = "idle"

\* The status changed, or was sent again: the watcher looks at it once, however often it changed.
Observe ==
    /\ Watching
    /\ unseen
    /\ unseen' = FALSE
    /\ last' = status
    /\ settling' = Armed
    /\ UNCHANGED <<queue, status, checked, sending, call, stop>>

\* The timer fires.
Fire ==
    /\ Watching
    /\ settling
    /\ settling' = FALSE
    /\ checked' = (status = "idle")
    /\ UNCHANGED <<queue, status, unseen, last, sending, call, stop>>

\* A slip: a queue that is held goes out all the same.
GoesAnyway == turns # <<>>

\* Whether there is a message to send now (next).
MayGo == turns # <<>> /\ ~paused

\* A slip: the oldest message is looked at and left where it is.
LeftInPlace == turns

\* What is left of the queue without its oldest message.
Rest == Tail(turns)

\* It takes the oldest message and sends it.
TakeNext ==
    /\ checked
    /\ checked' = FALSE
    /\ IF MayGo
       THEN /\ sending' = Head(turns)
            /\ turns' = Rest
            /\ call' = [call EXCEPT ![Head(turns)] = "begin"]
       ELSE UNCHANGED <<sending, turns, call>>
    /\ paused' = PausedOf(turns', paused)
    /\ UNCHANGED <<said, status, unseen, last, settling, stop>>

PersonNext ==
    \/ ChatTurn \/ ChatQueue
    \/ \E i \in DOMAIN turns, send \in BOOLEAN : ChatUnqueue(i, send)
    \/ \E p \in Presses : ChatInterrupt(p)

WatcherNext == Observe \/ Fire \/ TakeNext

\* At its best the watcher looks at a change before anything else happens, unless it is held up in
\* a call of its own.
Prompt == Watching /\ unseen => ~unseen'

-----------------------------------------------------------------------------
\* Nothing asked of the session is under way.
Quiet ==
    /\ \A m \in Messages : call[m] \in {"none", "done"}
    /\ \A p \in Presses : stop[p] \in {"none", "done"}

\* The queue is what waits to be sent, in the order in which it was written: no message in it is on
\* its way to the agent already, whoever sends (push, take, next).
QueueSound ==
    /\ \A i, j \in DOMAIN turns : i < j => turns[i] < turns[j]
    /\ \A m \in Held : call[m] = "none"

\* From a stop to the next message sent by hand nothing leaves the queue for the agent, not even
\* what the watcher was about to take (pause, next).
HeldStaysHeld == [][paused /\ paused' => \A m \in Held : call'[m] = "none"]_qvars
=============================================================================
