----------------------------- MODULE SecureLink -----------------------------
(***************************************************************************)
(* The encrypted sessions between a paired device and the computer: the    *)
(* host's end (transport/codec.rs, with the reader and the writer task of  *)
(* transport/server.rs around it) and the device's (relay-crypto.ts, with  *)
(* secure-transport.ts).                                                   *)
(*                                                                         *)
(* What carries their frames (a relay, the network) may lose any of them,  *)
(* deliver it late, and deliver it again: a frame once sent stays in a set *)
(* and may arrive at any time after.  A session is named by what the two   *)
(* sides contributed to its keys, <<device's, host's>>, each fresh every   *)
(* time; a data frame opens under the session it was sealed in and no      *)
(* other.  What a frame says is a number: the place of its message among   *)
(* all that its sender ever sealed or queued.                              *)
(***************************************************************************)
EXTENDS Naturals, Sequences

CONSTANTS MaxAsks,      \* bound: sessions the device asks for
          MaxAnswers,   \* bound: answers of the host
          MaxMessages,  \* bound: messages of each side
          QueueCap,     \* QUEUE_CAPACITY of the host's outbound queue
          None

ASSUME SecureLinkAssumption ==
    /\ MaxAsks \in Nat /\ MaxAnswers \in Nat /\ MaxMessages \in Nat /\ QueueCap \in Nat
    /\ None \notin Nat \X Nat
    /\ None \notin [session : Nat \X Nat, counter : Nat]

VARIABLES
    asked,      \* contributions the device has made; the last one is its latest
    pending,    \* the device's contribution to the session it waits for, 0 if none
    keys,       \* the session the device is on
    dSent, dSeen,   \* the last counter the device used, and the highest it accepted
    answered,   \* contributions the host has made
    receive,    \* the host's receiving half: session and highest counter accepted
    send,       \* its sending half: session and last counter used
    queue,      \* its outbound queue: answers and messages, in order
    ready,      \* the client has said hello (LinkState::is_ready)
    present,    \* somebody is on the other end (LinkState::is_present)
    telling,    \* a task beside the connection's own found the client ready to be told something
    opens, accepts, up, down,   \* the frames sent so far, of each kind
    dCount, hCount,     \* messages the device has sealed, and the host queued
    dGot, hGot          \* messages each has taken from the other, in order

device == <<asked, pending, keys, dSent, dSeen, dCount, dGot>>
host == <<answered, receive, send, queue, ready, present, telling, hCount, hGot>>
net == <<opens, accepts, up, down>>
vars == <<device, host, net>>

Sessions == Nat \X Nat
Halves == [session : Sessions, counter : Nat]

\* A queued answer names its session.  A queued message names the session of the client it is
\* for, or None when it is for whoever is there.
Answer(s) == [start |-> TRUE, session |-> s, message |-> 0]
Message(s, n) == [start |-> FALSE, session |-> s, message |-> n]
Queued == [start : {TRUE}, session : Sessions, message : {0}]
              \cup [start : {FALSE}, session : Sessions \cup {None}, message : Nat]

UpFrames == [session : Sessions, counter : Nat, message : Nat]
DownFrames == [session : Sessions, counter : Nat, message : Nat,
               for : Sessions \cup {None}]

TypeOK ==
    /\ asked \in Nat /\ pending \in Nat /\ answered \in Nat
    /\ dSent \in Nat /\ dSeen \in Nat /\ dCount \in Nat /\ hCount \in Nat
    /\ keys \in Sessions \cup {None}
    /\ receive \in Halves \cup {None}
    /\ send \in Halves \cup {None}
    /\ queue \in Seq(Queued)
    /\ ready \in BOOLEAN
    /\ present \in BOOLEAN
    /\ telling \in BOOLEAN
    /\ opens \subseteq Nat
    /\ accepts \subseteq Sessions
    /\ up \subseteq UpFrames
    /\ down \subseteq DownFrames
    /\ dGot \in Seq(Nat)
    /\ hGot \in Seq(Nat)
    /\ ready => receive # None

Init ==
    /\ asked = 0 /\ pending = 0 /\ keys = None
    /\ dSent = 0 /\ dSeen = 0 /\ dCount = 0 /\ dGot = <<>>
    /\ answered = 0 /\ receive = None /\ send = None /\ queue = <<>>
    /\ ready = FALSE /\ present = FALSE /\ telling = FALSE /\ hCount = 0 /\ hGot = <<>>
    /\ opens = {} /\ accepts = {} /\ up = {} /\ down = {}

-----------------------------------------------------------------------------
\* The device.

\* DeviceLink.open, as the link is prepared and again while no answer comes.
Ask ==
    /\ keys = None
    /\ asked < MaxAsks
    /\ asked' = asked + 1
    /\ pending' = asked'
    /\ opens' = opens \cup {asked'}
    /\ dSent' = 0 /\ dSeen' = 0
    /\ UNCHANGED <<keys, dCount, dGot, host, accepts, up, down>>

\* accepted: the answer to the request that waits turns the session on.
Accepted(s) ==
    /\ pending # 0
    /\ s[1] = pending
    /\ keys' = s
    /\ pending' = 0
    /\ UNCHANGED <<asked, dSent, dSeen, dCount, dGot, host, net>>

\* seal: hello first, as soon as the session is on, and then whatever the app says.
Seal ==
    /\ keys # None
    /\ dCount < MaxMessages
    /\ dSent' = dSent + 1
    /\ dCount' = dCount + 1
    /\ up' = up \cup {[session |-> keys, counter |-> dSent', message |-> dCount']}
    /\ UNCHANGED <<asked, pending, keys, dSeen, dGot, host, opens, accepts, down>>

\* A slip: the frame last accepted would be accepted again.
NotBefore(counter, seen) == counter >= seen

\* A counter that is not past every one already accepted is of a frame seen before.
Past(counter, seen) == counter > seen

\* receive, openFrame
DeviceReceive(f) ==
    /\ f.session = keys
    /\ Past(f.counter, dSeen)
    /\ dSeen' = f.counter
    /\ dGot' = Append(dGot, f.message)
    /\ UNCHANGED <<asked, pending, keys, dSent, dCount, host, net>>

\* end: the host left, or the socket closed.
End ==
    /\ keys # None \/ pending # 0
    /\ pending' = 0
    /\ keys' = None
    /\ dSent' = 0 /\ dSeen' = 0
    /\ UNCHANGED <<asked, dCount, dGot, host, net>>

-----------------------------------------------------------------------------
\* The host.

\* A slip: the host contributes the same to every session.
SameContribution == 1

\* What the host contributes to the next session.
Contribution == answered + 1

\* A slip: sending switches to a new session at once, as reading does.
SwitchesAtOnce(s) == [session |-> s, counter |-> 0]

\* The half the host sends with while its answer waits in the queue.
SendsUntilBegun(s) == send

\* accept, and what the connection does with a request: the last client's state is void, and the
\* answer takes its place in the queue.  With no room for it the connection ends.
Accept(d) ==
    /\ answered < MaxAnswers
    /\ Len(queue) < QueueCap
    /\ LET s == <<d, Contribution>>
       IN  /\ answered' = answered + 1
           /\ receive' = [session |-> s, counter |-> 0]
           /\ send' = SendsUntilBegun(s)
           /\ queue' = Append(queue, Answer(s))
    /\ ready' = FALSE
    /\ present' = TRUE
    /\ UNCHANGED <<telling, hCount, hGot, device, net>>

\* Half::open: a data frame of the session.  The first one the device seals is its hello.
HostReceive(f) ==
    /\ receive # None
    /\ f.session = receive.session
    /\ Past(f.counter, receive.counter)
    /\ receive' = [receive EXCEPT !.counter = f.counter]
    /\ hGot' = Append(hGot, f.message)
    /\ ready' = (ready \/ f.counter = 1)
    /\ present' = TRUE
    /\ UNCHANGED <<answered, send, queue, telling, hCount, device, net>>

\* A message takes its place in the queue.  (With no room for it the connection ends.)
Enqueue(s) ==
    /\ hCount < MaxMessages
    /\ Len(queue) < QueueCap
    /\ hCount' = hCount + 1
    /\ queue' = Append(queue, Message(s, hCount'))
    /\ UNCHANGED <<answered, receive, send, ready, present, hGot, device, net>>

\* The connection's own task answers its client: nothing comes between finding it ready and that.
Reply ==
    /\ ready
    /\ Enqueue(receive.session)
    /\ UNCHANGED telling

\* A task of its own (control_task, routes_task, relay_task ...) has news and finds the client
\* ready ...
FindReady ==
    /\ ready
    /\ ~telling
    /\ telling' = TRUE
    /\ UNCHANGED <<answered, receive, send, queue, ready, present, hCount, hGot, device, net>>

\* ... and queues them, for whoever is there by then.
Tell ==
    /\ telling
    /\ telling' = FALSE
    /\ Enqueue(None)

\* The writer task takes an answer: the session begins.
Begin ==
    /\ queue # <<>>
    /\ Head(queue).start
    /\ queue' = Tail(queue)
    /\ send' = [session |-> Head(queue).session, counter |-> 0]
    /\ accepts' = accepts \cup {Head(queue).session}
    /\ UNCHANGED <<answered, receive, ready, present, telling, hCount, hGot, device, opens, up,
                   down>>

\* The writer task takes a message: sealed for the session that is on, or dropped.
Write ==
    /\ queue # <<>>
    /\ ~Head(queue).start
    /\ queue' = Tail(queue)
    /\ IF send = None
       THEN UNCHANGED <<send, down>>
       ELSE /\ send' = [send EXCEPT !.counter = @ + 1]
            /\ down' = down \cup {[session |-> send.session, counter |-> send.counter + 1,
                                   message |-> Head(queue).message, for |-> Head(queue).session]}
    /\ UNCHANGED <<answered, receive, ready, present, telling, hCount, hGot, device, opens,
                   accepts, up>>

\* A slip: what the last client said of itself is kept.
StillReady == ready

\* The link's state once its client is gone (LinkState::reset).
ReadyOnceGone == FALSE

\* The relay says the device left: its client's state is void and its session over.
Left ==
    /\ present
    /\ present' = FALSE
    /\ ready' = ReadyOnceGone
    /\ receive' = None
    /\ send' = None
    /\ UNCHANGED <<answered, queue, telling, hCount, hGot, device, net>>

-----------------------------------------------------------------------------
Next ==
    \/ Ask \/ Seal \/ End
    \/ \E s \in accepts : Accepted(s)
    \/ \E f \in down : DeviceReceive(f)
    \/ \E d \in opens : Accept(d)
    \/ \E f \in up : HostReceive(f)
    \/ Reply \/ FindReady \/ Tell
    \/ Begin \/ Write \/ Left

Spec == Init /\ [][Next]_vars

-----------------------------------------------------------------------------
Increasing(q) == \A i, j \in 1..Len(q) : i < j => q[i] < q[j]

\* Whatever is delivered late or twice, and over however many sessions, each end takes a message of
\* the other at most once, and in the order in which they were sealed or queued (Half::open,
\* openFrame, session_keys).
InOrder == Increasing(dGot) /\ Increasing(hGot)

\* No two frames are ever sealed with one key and one counter: a counter is the cipher's nonce.
NonceOnce ==
    /\ \A f, g \in up : f.session = g.session /\ f.counter = g.counter => f = g
    /\ \A f, g \in down : f.session = g.session /\ f.counter = g.counter => f = g

\* "Frames ahead of it belong to the previous session, frames behind it to the new one": what is
\* said to one client of a link is never sealed for another.
ScopedToSession == \A f \in down : f.for # None => f.for = f.session
=============================================================================
