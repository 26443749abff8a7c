----------------------------- MODULE RelayRoom -----------------------------
(* One room of the relay, and the sessions the daemon and the phone in it   *)
(* agree on.  A Durable Object runs one handler at a time and none of the   *)
(* room's awaits anything, so a handler is one action.  Frames of one       *)
(* socket arrive in order; frames of two, in any order.  A peer that comes  *)
(* back does so on a new socket, so a socket is used once.                  *)
EXTENDS Naturals, Sequences, FiniteSets

CONSTANTS
    Hosts,      \* the sockets the daemon opens
    Devices,    \* the sockets the phone opens
    None,       \* no socket, no session
    MaxAsks     \* bound: how often one socket asks again for a session

ASSUME RoomAssumption ==
    /\ Hosts \cap Devices = {}
    /\ None \notin Hosts \cup Devices
    /\ None \notin Devices \X Nat
    /\ MaxAsks \in Nat

Sockets == Hosts \cup Devices

VARIABLES
    room,       \* what the relay holds: each socket's seat, whether it is open, frames to it
    up,         \* frames on their way from each peer to the room
    peer,       \* each peer's end of its socket
    asked,      \* requests for a session made on a device's socket
    pending,    \* the last of them, while it waits for an answer
    session     \* the request whose session each end is on

ends == <<asked, pending, session>>
vars == <<room, up, peer, ends>>

\* A session is named by the request that began it: each has keys of its own.
Asks == Devices \X Nat

Peers(n) == [kind |-> "peers", n |-> n, ask |-> None]
Ask(a) == [kind |-> "ask", n |-> 0, ask |-> a]
Accept(a) == [kind |-> "accept", n |-> 0, ask |-> a]
Close == [kind |-> "close", n |-> 0, ask |-> None]

Frames ==
    {f \in [kind : {"peers", "ask", "accept", "close"}, n : 0..2, ask : Asks \cup {None}] :
        f.ask # None <=> f.kind \in {"ask", "accept"}}

TypeOK ==
    /\ DOMAIN room = {"seat", "open", "down"}
    /\ room.seat \in [Sockets -> {"new", "seated", "gone", "refused"}]
    /\ room.open \subseteq Sockets
    /\ room.down \in [Sockets -> Seq(Frames)]
    /\ up \in [Sockets -> Seq(Frames)]
    /\ peer \in [Sockets -> {"new", "open", "closed"}]
    /\ asked \in [Sockets -> Nat]
    /\ pending \in [Sockets -> Asks \cup {None}]
    /\ session \in [Sockets -> Asks \cup {None}]

Init ==
    /\ room = [seat |-> [s \in Sockets |-> "new"], open |-> {}, down |-> [s \in Sockets |-> <<>>]]
    /\ up = [s \in Sockets |-> <<>>]
    /\ peer = [s \in Sockets |-> "new"]
    /\ asked = [s \in Sockets |-> 0]
    /\ pending = [s \in Sockets |-> None]
    /\ session = [s \in Sockets |-> None]

-----------------------------------------------------------------------------
(* The room. *)

Side(s) == IF s \in Hosts THEN Hosts ELSE Devices
OtherSide(s) == IF s \in Hosts THEN Devices ELSE Hosts

Holds(m, s) == m.seat[s] = "seated" /\ s \in m.open

\* seated: the socket holding a side's seat.
Seated(m, side) ==
    IF \E s \in side : Holds(m, s) THEN CHOOSE s \in side : Holds(m, s) ELSE None

\* Frames to a peer that has gone are lost, noticed or not.
Queued(m, s, frame) == IF peer[s] = "closed" THEN m.down[s] ELSE Append(m.down[s], frame)

\* announce: every peer in the room is told how many are in it.
Announce(m) ==
    LET in == {Seated(m, Hosts), Seated(m, Devices)} \ {None}
    IN  [m EXCEPT !.down = [s \in Sockets |->
            IF s \in in THEN Queued(m, s, Peers(Cardinality(in))) ELSE @[s]]]

\* A slip: the room is not told that a socket's place was taken.
VacateQuietly(m, s) ==
    IF m.seat[s] # "seated" THEN m ELSE [m EXCEPT !.seat[s] = "gone"]

Vacate(m, s) ==
    IF m.seat[s] # "seated" THEN m ELSE Announce([m EXCEPT !.seat[s] = "gone"])

\* A slip: leaves the socket whose place is taken in its seat.
EvictLate(m, s) ==
    [m EXCEPT !.down[s] = Queued(m, s, Close)]

\* A stale socket leaves before the one that takes its place arrives.
Evict(m, s) ==
    LET left == Vacate(m, s)
    IN  [left EXCEPT !.open = @ \ {s}, !.down[s] = Queued(left, s, Close)]

Seat(m, s) == Announce([m EXCEPT !.seat[s] = "seated", !.open = @ \cup {s}])

\* A slip: lets a device that found no host wait for one.
RefuseLater(m, s) == [m EXCEPT !.seat[s] = "waiting"]

Refuse(m, s) == [m EXCEPT !.seat[s] = "refused", !.down[s] = Append(@, Close)]

\* fetch: a device needs a host to join.
Join(s) ==
    LET stale == Seated(room, Side(s))
    IN  /\ peer[s] = "new"
        /\ peer' = [peer EXCEPT ![s] = "open"]
        /\ room' = IF s \in Devices /\ Seated(room, Hosts) = None THEN Refuse(room, s)
                   ELSE IF stale = None THEN Seat(room, s)
                   ELSE Seat(Evict(room, stale), s)
        /\ UNCHANGED <<up, ends>>

\* A slip: forwards what a replaced socket still says.
ForwardAny(m, s, frame) ==
    LET to == Seated(m, OtherSide(s))
    IN  IF to = None THEN m
        ELSE [m EXCEPT !.down[to] = Queued(m, to, frame)]

\* webSocketMessage: to the other side's socket, if this one still holds a seat.
Forward(m, s, frame) ==
    LET to == Seated(m, OtherSide(s))
    IN  IF m.seat[s] # "seated" \/ to = None THEN m
        ELSE [m EXCEPT !.down[to] = Queued(m, to, frame)]

Arrives(s) ==
    LET frame == Head(up[s])
    IN  /\ up[s] # <<>>
        /\ up' = [up EXCEPT ![s] = Tail(@)]
        /\ room' = IF frame = Close THEN Vacate([room EXCEPT !.open = @ \ {s}], s)
                   ELSE Forward(room, s, frame)
        /\ UNCHANGED <<peer, ends>>

\* webSocketError: the runtime notices, sooner or later, that a peer went without
\* a word; what it had sent is lost.
Errored(s) ==
    /\ peer[s] = "closed"
    /\ s \in room.open
    /\ room' = Vacate([room EXCEPT !.open = @ \ {s}], s)
    /\ up' = [up EXCEPT ![s] = <<>>]
    /\ UNCHANGED <<peer, ends>>

-----------------------------------------------------------------------------
(* The ends. *)

Send(s, frame) == up' = [up EXCEPT ![s] = Append(@, frame)]

Answers(s, frame) == frame.kind = "accept" /\ frame.ask = pending[s]

\* The phone asks for a session once it is told that the daemon is there, and
\* drops what it has when told that it is not.
DeviceReads(s, frame) ==
    \/ /\ frame.kind = "peers" /\ frame.n > 1
       /\ IF pending[s] = None /\ session[s] = None
          THEN LET a == <<s, asked[s] + 1>>
               IN  /\ asked' = [asked EXCEPT ![s] = @ + 1]
                   /\ pending' = [pending EXCEPT ![s] = a]
                   /\ Send(s, Ask(a))
          ELSE UNCHANGED <<asked, pending, up>>
       /\ UNCHANGED session
    \/ /\ frame.kind = "peers" /\ frame.n < 2
       /\ pending' = [pending EXCEPT ![s] = None]
       /\ session' = [session EXCEPT ![s] = None]
       /\ UNCHANGED <<asked, up>>
    \/ /\ Answers(s, frame)
       /\ pending' = [pending EXCEPT ![s] = None]
       /\ session' = [session EXCEPT ![s] = frame.ask]
       /\ UNCHANGED <<asked, up>>
    \/ /\ frame.kind \in {"accept", "ask"}
       /\ ~Answers(s, frame)
       /\ UNCHANGED <<up, ends>>

\* The daemon answers each request, and lets go of the session when the phone
\* has left.
HostReads(s, frame) ==
    \/ /\ frame.kind = "ask"
       /\ session' = [session EXCEPT ![s] = frame.ask]
       /\ Send(s, Accept(frame.ask))
       /\ UNCHANGED <<asked, pending>>
    \/ /\ frame.kind = "peers"
       /\ session' = IF frame.n > 1 THEN session ELSE [session EXCEPT ![s] = None]
       /\ UNCHANGED <<up, asked, pending>>
    \/ /\ frame.kind = "accept"
       /\ UNCHANGED <<up, ends>>

\* A close ends it on both ends, and is answered.
ReadsClose(s) ==
    /\ peer' = [peer EXCEPT ![s] = "closed"]
    /\ pending' = [pending EXCEPT ![s] = None]
    /\ session' = [session EXCEPT ![s] = None]
    /\ Send(s, Close)
    /\ UNCHANGED asked

Reads(s) ==
    LET frame == Head(room.down[s])
    IN  /\ peer[s] = "open"
        /\ room.down[s] # <<>>
        /\ room' = [room EXCEPT !.down[s] = Tail(@)]
        /\ \/ frame = Close /\ ReadsClose(s)
           \/ frame # Close /\ s \in Devices /\ DeviceReads(s, frame) /\ UNCHANGED peer
           \/ frame # Close /\ s \in Hosts /\ HostReads(s, frame) /\ UNCHANGED peer

\* No answer came for a while: the phone asks again, and only that answer counts.
AskAgain(s) ==
    LET a == <<s, asked[s] + 1>>
    IN  /\ s \in Devices
        /\ peer[s] = "open"
        /\ pending[s] # None
        /\ asked[s] < MaxAsks
        /\ asked' = [asked EXCEPT ![s] = @ + 1]
        /\ pending' = [pending EXCEPT ![s] = a]
        /\ Send(s, Ask(a))
        /\ UNCHANGED <<room, peer, session>>

\* What was on its way to a peer that left is lost.
Leave(s) ==
    /\ peer[s] = "open"
    /\ peer' = [peer EXCEPT ![s] = "closed"]
    /\ pending' = [pending EXCEPT ![s] = None]
    /\ session' = [session EXCEPT ![s] = None]
    /\ Send(s, Close)
    /\ room' = [room EXCEPT !.down[s] = <<>>]
    /\ UNCHANGED asked

-----------------------------------------------------------------------------
Step(s) ==
    \/ Join(s) \/ Arrives(s) \/ Errored(s)
    \/ Reads(s) \/ AskAgain(s) \/ Leave(s)

Next == \E s \in Sockets : Step(s)

Spec == Init /\ [][Next]_vars

-----------------------------------------------------------------------------
\* A room has at most one socket of each side in it, whatever sockets a peer
\* left behind, and no device that a host did not let in.
OnePerSide ==
    \A s, t \in Sockets : Holds(room, s) /\ Holds(room, t) /\ Side(s) = Side(t) => s = t

\* The last presence on its way in q, if one is, says n.
Unsaid(q) == \A i \in DOMAIN q : q[i].kind # "peers"
LastSays(q, n) ==
    \/ Unsaid(q)
    \/ \E i \in DOMAIN q :
          /\ q[i].kind = "peers" /\ q[i].n = n
          /\ \A j \in DOMAIN q : j > i => q[j].kind # "peers"

\* The presence a seated peer hears last is how many are seated now: nobody is
\* left waiting for one who has gone, nor unaware of one who came.
ToldRight ==
    LET in == {s \in Sockets : Holds(room, s)}
    IN  \A s \in in : LastSays(room.down[s], Cardinality(in))

\* Once every frame has been read, a daemon and a phone that are in the room
\* are on one session, whoever held the two seats before them and whatever was
\* said to those: each newcomer is greeted as one.  And one that is alone in it
\* is on none.
Quiet(s) == peer[s] = "open" /\ Holds(room, s) /\ up[s] = <<>> /\ room.down[s] = <<>>

GreetedAsOne ==
    /\ \A h \in Hosts, d \in Devices :
          Quiet(h) /\ Quiet(d) => session[d] # None /\ session[h] = session[d]
    /\ \A s \in Sockets :
          Quiet(s) /\ Seated(room, OtherSide(s)) = None => session[s] = None /\ pending[s] = None
=============================================================================
