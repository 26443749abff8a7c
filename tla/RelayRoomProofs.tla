-------------------------- MODULE RelayRoomProofs --------------------------
(* A room's seats, and what those in it come to know of each other, for any *)
(* number of sockets.                                                       *)
EXTENDS RelayRoom, FiniteSetTheorems, SequenceTheorems, TLAPS

\* What the relay holds, as TypeOK says it.
Held(m) ==
    /\ DOMAIN m = {"seat", "open", "down"}
    /\ m.seat \in [Sockets -> {"new", "seated", "gone", "refused"}]
    /\ m.open \subseteq Sockets
    /\ m.down \in [Sockets -> Seq(Frames)]

Alone(m) == \A s, t \in Sockets : Holds(m, s) /\ Holds(m, t) /\ Side(s) = Side(t) => s = t

\* The seats are inductive by themselves.
IInv == TypeOK /\ OnePerSide

LEMMA SidesOf ==
    ASSUME NEW s \in Sockets
    PROVE  /\ Side(s) \subseteq Sockets /\ OtherSide(s) \subseteq Sockets
           /\ s \in Side(s) /\ None \notin Sockets
           /\ \A t \in Side(s) : Side(t) = Side(s)
BY RoomAssumption DEF Side, OtherSide, Sockets

LEMMA SeatedIs ==
    ASSUME NEW m, NEW side, side \subseteq Sockets
    PROVE  /\ Seated(m, side) = None => \A s \in side : ~Holds(m, s)
           /\ Seated(m, side) # None => Seated(m, side) \in side /\ Holds(m, Seated(m, side))
<1>1. None \notin Sockets
  BY RoomAssumption DEF Sockets
<1>2. CASE \E s \in side : Holds(m, s)
  <2>1. Seated(m, side) \in side /\ Holds(m, Seated(m, side))
    BY <1>2 DEF Seated
  <2> QED BY <1>1, <2>1
<1>3. CASE ~\E s \in side : Holds(m, s)
  BY <1>3 DEF Seated
<1> QED BY <1>2, <1>3

LEMMA FramesAre ==
    /\ \A n \in 0..2 : Peers(n) \in Frames
    /\ \A a \in Asks : Ask(a) \in Frames /\ Accept(a) \in Frames
    /\ Close \in Frames
BY RoomAssumption DEF Peers, Ask, Accept, Close, Frames, Asks

LEMMA QueuedIs ==
    ASSUME NEW m, Held(m), NEW s \in Sockets, NEW f \in Frames
    PROVE  Queued(m, s, f) \in Seq(Frames)
BY DEF Held, Queued

LEMMA AnnounceIs ==
    ASSUME NEW m, Held(m), NEW t, t = Announce(m)
    PROVE  Held(t) /\ t.seat = m.seat /\ t.open = m.open
<1>1. PICK in : in = {Seated(m, Hosts), Seated(m, Devices)} \ {None}
  OBVIOUS
<1>2. IsFiniteSet(in) /\ Cardinality(in) \in 0..2
  <2>1. /\ IsFiniteSet({Seated(m, Hosts), Seated(m, Devices)})
        /\ Cardinality({Seated(m, Hosts), Seated(m, Devices)}) \in 0..2
    <3>1. IsFiniteSet({Seated(m, Hosts)}) /\ Cardinality({Seated(m, Hosts)}) = 1
      BY FS_Singleton
    <3>2. {Seated(m, Hosts), Seated(m, Devices)} = {Seated(m, Hosts)} \cup {Seated(m, Devices)}
      OBVIOUS
    <3> QED BY <3>1, <3>2, FS_AddElement
  <2>2. in \subseteq {Seated(m, Hosts), Seated(m, Devices)}
    BY <1>1
  <2>3. IsFiniteSet(in) /\ Cardinality(in) <= Cardinality({Seated(m, Hosts), Seated(m, Devices)})
    BY <2>1, <2>2, FS_Subset
  <2>4. Cardinality(in) \in Nat
    BY <2>3, FS_CardinalityType
  <2> QED BY <2>1, <2>3, <2>4
<1>3. PICK f \in Frames : f = Peers(Cardinality(in))
  BY <1>2, FramesAre
<1>4. t = [m EXCEPT !.down = [s \in Sockets |-> IF s \in in THEN Queued(m, s, f) ELSE @[s]]]
  BY <1>1, <1>3 DEF Announce
<1>5. \A s \in Sockets : Queued(m, s, f) \in Seq(Frames)
  BY QueuedIs
<1>6. t.seat = m.seat /\ t.open = m.open /\ DOMAIN t = DOMAIN m
      /\ t.down = [s \in Sockets |-> IF s \in in THEN Queued(m, s, f) ELSE m.down[s]]
  BY <1>4 DEF Held
<1>7. t.down \in [Sockets -> Seq(Frames)]
  BY <1>5, <1>6 DEF Held
<1> QED BY <1>6, <1>7 DEF Held

LEMMA VacateIs ==
    ASSUME NEW m, Held(m), NEW s \in Sockets, NEW t, t = Vacate(m, s)
    PROVE  /\ Held(t) /\ t.open = m.open
           /\ \A r \in Sockets : Holds(t, r) => Holds(m, r) /\ r # s
<1>1. CASE m.seat[s] # "seated"
  BY <1>1 DEF Vacate, Holds
<1>2. CASE m.seat[s] = "seated"
  <2>1. PICK u : u = [m EXCEPT !.seat[s] = "gone"]
    OBVIOUS
  <2>2. Held(u) /\ u.open = m.open /\ u.seat = [m.seat EXCEPT ![s] = "gone"]
    BY <2>1 DEF Held
  <2>3. t = Announce(u)
    BY <1>2, <2>1 DEF Vacate
  <2>4. Held(t) /\ t.seat = u.seat /\ t.open = u.open
    BY <2>2, <2>3, AnnounceIs
  <2> QED BY <2>2, <2>4 DEF Holds, Held
<1> QED BY <1>1, <1>2

LEMMA EvictIs ==
    ASSUME NEW m, Held(m), NEW s \in Sockets, NEW t, t = Evict(m, s)
    PROVE  Held(t) /\ \A r \in Sockets : Holds(t, r) => Holds(m, r) /\ r # s
<1>1. PICK u : u = Vacate(m, s)
  OBVIOUS
<1>2. Held(u) /\ u.open = m.open /\ \A r \in Sockets : Holds(u, r) => Holds(m, r) /\ r # s
  BY <1>1, VacateIs
<1>3. Queued(u, s, Close) \in Seq(Frames)
  BY <1>2, QueuedIs, FramesAre
<1>4. t = [u EXCEPT !.open = @ \ {s}, !.down[s] = Queued(u, s, Close)]
  BY <1>1 DEF Evict
<1>5. Held(t) /\ t.seat = u.seat /\ t.open = u.open \ {s}
  BY <1>2, <1>3, <1>4 DEF Held
<1> QED BY <1>2, <1>5 DEF Holds

\* A seat is taken only when it is free.
LEMMA SeatIs ==
    ASSUME NEW m, Held(m), NEW s \in Sockets, Alone(m), \A r \in Side(s) : ~Holds(m, r),
           NEW t, t = Seat(m, s)
    PROVE  Held(t) /\ Alone(t)
<1>1. PICK u : u = [m EXCEPT !.seat[s] = "seated", !.open = @ \cup {s}]
  OBVIOUS
<1>2. Held(u) /\ u.open = m.open \cup {s} /\ u.seat = [m.seat EXCEPT ![s] = "seated"]
  BY <1>1 DEF Held
<1>3. t = Announce(u)
  BY <1>1 DEF Seat
<1>4. Held(t) /\ t.seat = u.seat /\ t.open = u.open
  BY <1>2, <1>3, AnnounceIs
<1>5. \A r \in Sockets : Holds(t, r) => Holds(m, r) \/ r = s
  BY <1>2, <1>4 DEF Holds, Held
<1>6. \A r \in Sockets : Side(r) = Side(s) => r \in Side(s)
  BY SidesOf
<1> QED BY <1>4, <1>5, <1>6 DEF Alone

LEMMA FewerAlone ==
    ASSUME NEW m, NEW t, Alone(m), \A r \in Sockets : Holds(t, r) => Holds(m, r)
    PROVE  Alone(t)
BY DEF Alone

LEMMA InitInv == Init => IInv
BY RoomAssumption DEF Init, IInv, TypeOK, OnePerSide, Holds

LEMMA JoinStep ==
    ASSUME IInv, NEW s \in Sockets, Join(s)
    PROVE  IInv'
<1>1. Held(room) /\ Alone(room)
  BY DEF IInv, TypeOK, OnePerSide, Held, Alone
<1>2. PICK stale : stale = Seated(room, Side(s))
  OBVIOUS
<1>3. Side(s) \subseteq Sockets /\ None \notin Sockets
  BY SidesOf
<1>4. /\ stale = None => \A r \in Side(s) : ~Holds(room, r)
      /\ stale # None => stale \in Side(s) /\ Holds(room, stale)
  BY <1>2, <1>3, SeatedIs
<1>5. Held(room') /\ Alone(room')
  <2>1. CASE room' = Refuse(room, s)
    <3>1. /\ Held(room') /\ room'.open = room.open
          /\ room'.seat = [room.seat EXCEPT ![s] = "refused"]
      BY <1>1, <2>1, FramesAre DEF Refuse, Held
    <3>2. \A r \in Sockets : Holds(room', r) => Holds(room, r)
      BY <1>1, <3>1 DEF Holds, Held
    <3> QED BY <1>1, <3>1, <3>2, FewerAlone
  <2>2. CASE stale = None /\ room' = Seat(room, s)
    BY <1>1, <1>4, <2>2, SeatIs
  <2>3. CASE stale # None /\ room' = Seat(Evict(room, stale), s)
    <3>1. PICK u : u = Evict(room, stale)
      OBVIOUS
    <3>2. stale \in Sockets
      BY <1>3, <1>4, <2>3
    <3>3. Held(u) /\ \A r \in Sockets : Holds(u, r) => Holds(room, r) /\ r # stale
      BY <1>1, <3>1, <3>2, EvictIs
    <3>4. Alone(u)
      BY <1>1, <3>3, FewerAlone
    <3>5. \A r \in Side(s) : ~Holds(u, r)
      <4>1. SUFFICES ASSUME NEW r \in Side(s), Holds(u, r) PROVE FALSE
        OBVIOUS
      <4>2. r \in Sockets /\ Holds(room, r) /\ r # stale /\ Side(r) = Side(stale)
        BY <1>3, <1>4, <2>3, <3>3, <4>1, SidesOf
      <4> QED BY <1>1, <1>4, <2>3, <3>2, <4>2 DEF Alone
    <3>6. room' = Seat(u, s)
      BY <2>3, <3>1
    <3> QED BY <3>3, <3>4, <3>5, <3>6, SeatIs
  <2> QED BY <1>2, <2>1, <2>2, <2>3 DEF Join
<1>6. /\ peer' \in [Sockets -> {"new", "open", "closed"}] /\ up' = up
      /\ asked' = asked /\ pending' = pending /\ session' = session
  BY DEF Join, IInv, TypeOK, ends
<1> QED BY <1>5, <1>6 DEF IInv, TypeOK, OnePerSide, Held, Alone

LEMMA RoomSteps ==
    ASSUME IInv, NEW s \in Sockets, Arrives(s) \/ Errored(s)
    PROVE  IInv'
<1>1. Held(room) /\ Alone(room)
  BY DEF IInv, TypeOK, OnePerSide, Held, Alone
<1>2. PICK u : u = [room EXCEPT !.open = @ \ {s}]
  OBVIOUS
<1>3. Held(u) /\ u.seat = room.seat /\ u.open = room.open \ {s}
  BY <1>1, <1>2 DEF Held
<1>4. /\ up' \in [Sockets -> Seq(Frames)] /\ peer' = peer
      /\ asked' = asked /\ pending' = pending /\ session' = session
  <2>1. peer' = peer /\ asked' = asked /\ pending' = pending /\ session' = session
    BY DEF Arrives, Errored, ends
  <2>2. CASE Arrives(s)
    <3>1. Tail(up[s]) \in Seq(Frames)
      BY <2>2 DEF Arrives, IInv, TypeOK
    <3> QED BY <2>1, <2>2, <3>1 DEF Arrives, IInv, TypeOK
  <2>3. CASE Errored(s)
    BY <2>1, <2>3 DEF Errored, IInv, TypeOK
  <2> QED BY <2>1, <2>2, <2>3
<1>5. CASE room' = Vacate(u, s)
  <2>1. Held(room') /\ \A r \in Sockets : Holds(room', r) => Holds(u, r) /\ r # s
    BY <1>3, <1>5, VacateIs
  <2>2. \A r \in Sockets : Holds(room', r) => Holds(room, r)
    BY <1>3, <2>1 DEF Holds
  <2> QED BY <1>1, <1>4, <2>1, <2>2, FewerAlone DEF IInv, TypeOK, OnePerSide, Held, Alone
<1>6. CASE up[s] # <<>> /\ room' = Forward(room, s, Head(up[s]))
  <2>1. PICK f \in Frames : f = Head(up[s])
    BY <1>6 DEF IInv, TypeOK
  <2>2. PICK to : to = Seated(room, OtherSide(s))
    OBVIOUS
  <2>3. to # None => to \in Sockets
    BY <2>2, SidesOf, SeatedIs
  <2>4. Held(room') /\ room'.seat = room.seat /\ room'.open = room.open
    <3>1. CASE room' = room
      BY <1>1, <3>1
    <3>2. CASE to # None /\ room' = [room EXCEPT !.down[to] = Queued(room, to, f)]
      <4>1. Queued(room, to, f) \in Seq(Frames)
        BY <1>1, <2>3, <3>2, QueuedIs
      <4> QED BY <1>1, <2>3, <3>2, <4>1 DEF Held
    <3> QED BY <1>6, <2>1, <2>2, <3>1, <3>2 DEF Forward
  <2>5. \A r \in Sockets : Holds(room', r) => Holds(room, r)
    BY <2>4 DEF Holds
  <2> QED BY <1>1, <1>4, <2>4, <2>5, FewerAlone DEF IInv, TypeOK, OnePerSide, Held, Alone
<1> QED BY <1>2, <1>5, <1>6 DEF Arrives, Errored

LEMMA EndSteps ==
    ASSUME IInv, NEW s \in Sockets, Reads(s) \/ AskAgain(s) \/ Leave(s)
    PROVE  IInv'
<1>1. Held(room) /\ Alone(room)
  BY DEF IInv, TypeOK, OnePerSide, Held, Alone
<1>2. /\ room'.seat = room.seat /\ room'.open = room.open /\ DOMAIN room' = DOMAIN room
      /\ room'.down \in [Sockets -> Seq(Frames)]
  <2>1. CASE Reads(s)
    <3>1. Tail(room.down[s]) \in Seq(Frames)
      BY <1>1, <2>1 DEF Reads, Held
    <3>2. room' = [room EXCEPT !.down[s] = Tail(@)]
      BY <2>1 DEF Reads
    <3> QED BY <1>1, <3>1, <3>2 DEF Held
  <2>2. CASE AskAgain(s)
    BY <1>1, <2>2 DEF AskAgain, Held
  <2>3. CASE Leave(s)
    <3>1. room' = [room EXCEPT !.down[s] = <<>>]
      BY <2>3 DEF Leave
    <3> QED BY <1>1, <3>1 DEF Held
  <2> QED BY <2>1, <2>2, <2>3
<1>3. Held(room')
  BY <1>1, <1>2 DEF Held
<1>4. Alone(room')
  BY <1>1, <1>2, FewerAlone DEF Holds
<1>5. /\ up' \in [Sockets -> Seq(Frames)] /\ peer' \in [Sockets -> {"new", "open", "closed"}]
      /\ asked' \in [Sockets -> Nat] /\ pending' \in [Sockets -> Asks \cup {None}]
      /\ session' \in [Sockets -> Asks \cup {None}]
  <2>1. \A f \in Frames : [up EXCEPT ![s] = Append(@, f)] \in [Sockets -> Seq(Frames)]
    BY DEF IInv, TypeOK
  <2>2. s \in Devices => <<s, asked[s] + 1>> \in Asks
    BY DEF IInv, TypeOK, Asks
  <2>3. CASE Leave(s)
    BY <2>1, <2>3, FramesAre DEF Leave, Send, IInv, TypeOK
  <2>4. CASE AskAgain(s)
    BY <2>1, <2>2, <2>4, FramesAre DEF AskAgain, Send, IInv, TypeOK
  <2>5. CASE Reads(s)
    <3>1. PICK f \in Frames : f = Head(room.down[s])
      BY <1>1, <2>5 DEF Reads, Held
    <3>2. CASE ReadsClose(s)
      BY <2>1, <3>2, FramesAre DEF ReadsClose, Send, IInv, TypeOK
    <3>3. CASE s \in Devices /\ DeviceReads(s, f) /\ peer' = peer
      <4>1. f.ask \in Asks \cup {None}
        BY DEF Frames
      <4>2. up' \in [Sockets -> Seq(Frames)]
        BY ZenonT(60), <2>1, <2>2, <3>3, FramesAre DEF DeviceReads, Send, IInv, TypeOK, ends
      <4>3. asked' \in [Sockets -> Nat]
        BY <3>3 DEF DeviceReads, IInv, TypeOK, ends
      <4>4. pending' \in [Sockets -> Asks \cup {None}]
        <5>1. \/ pending' = pending
              \/ \E a \in Asks \cup {None} : pending' = [pending EXCEPT ![s] = a]
          BY <2>2, <3>3 DEF DeviceReads, ends
        <5> QED BY <5>1 DEF IInv, TypeOK
      <4>5. session' \in [Sockets -> Asks \cup {None}]
        <5>1. \/ session' = session
              \/ \E a \in Asks \cup {None} : session' = [session EXCEPT ![s] = a]
          BY <3>3, <4>1 DEF DeviceReads, ends
        <5> QED BY <5>1 DEF IInv, TypeOK
      <4> QED BY <3>3, <4>2, <4>3, <4>4, <4>5 DEF IInv, TypeOK
    <3>4. CASE s \in Hosts /\ HostReads(s, f) /\ peer' = peer
      <4>1. f.ask \in Asks \cup {None}
        BY DEF Frames
      <4>2. CASE f.kind = "ask" /\ session' = [session EXCEPT ![s] = f.ask] /\ Send(s, Accept(f.ask))
                 /\ UNCHANGED <<asked, pending>>
        <5>1. Accept(f.ask) \in Frames
          BY <4>2, FramesAre DEF Frames
        <5> QED BY <2>1, <3>4, <4>1, <4>2, <5>1 DEF Send, IInv, TypeOK
      <4>3. CASE session' \in {session, [session EXCEPT ![s] = None]} /\ UNCHANGED <<up, asked, pending>>
        BY <3>4, <4>3 DEF IInv, TypeOK
      <4> QED BY <3>4, <4>2, <4>3 DEF HostReads, ends
    <3> QED BY <2>5, <3>1, <3>2, <3>3, <3>4 DEF Reads
  <2> QED BY <2>3, <2>4, <2>5
<1> QED BY <1>3, <1>4, <1>5 DEF IInv, TypeOK, OnePerSide, Held, Alone

\* The room keeps to its types and seats one socket a side: this much needs neither end.
THEOREM Inductive == Spec => []IInv
<1>1. IInv /\ [Next]_vars => IInv'
  <2> SUFFICES ASSUME IInv, [Next]_vars PROVE IInv'
    OBVIOUS
  <2>1. CASE UNCHANGED vars
    BY <2>1 DEF vars, ends, IInv, TypeOK, OnePerSide, Holds
  <2>2. ASSUME NEW s \in Sockets, Step(s) PROVE IInv'
    BY <2>2, JoinStep, RoomSteps, EndSteps DEF Step
  <2> QED BY <2>1, <2>2 DEF Next
<1> QED BY <1>1, InitInv, PTL DEF Spec

\* The room and the ends of its sockets keep to what they are made of, for any
\* number of sockets.
THEOREM TypeCorrect == Spec => []TypeOK
BY Inductive, PTL DEF IInv

\* However many sockets the two peers leave behind, and whenever the room hears
\* of their end, each side has at most one seat in it: an arrival takes the
\* place of the socket there was, and a late close takes no one's.
THEOREM OneSeatPerSide == Spec => []OnePerSide
BY Inductive, PTL DEF IInv

-----------------------------------------------------------------------------
(* What a peer will have heard once it has read a queue. *)

Has(q, f) == \E i \in DOMAIN q : q[i] = f

\* Frames that tell the daemon which session it is on; peers that say it is alone name none.
Tells(f) == f.kind = "ask" \/ (f.kind = "peers" /\ f.n < 2)

\* A daemon that is on `now` and reads q is then on v.
LeadsTo(q, now, v) ==
    \/ (\A i \in DOMAIN q : ~Tells(q[i])) /\ now = v
    \/ \E i \in DOMAIN q :
          Tells(q[i]) /\ q[i].ask = v /\ \A j \in DOMAIN q : j > i => ~Tells(q[j])

\* A phone that reads q drops its session.
Dropped(q) == \E i \in DOMAIN q : q[i].kind = "peers" /\ q[i].n < 2

LEMMA AppendIs ==
    ASSUME NEW q \in Seq(Frames), NEW f \in Frames
    PROVE  /\ Append(q, f) \in Seq(Frames)
           /\ DOMAIN q = 1..Len(q) /\ Len(q) \in Nat
           /\ DOMAIN Append(q, f) = 1..Len(q) + 1
           /\ \A i \in 1..Len(q) : Append(q, f)[i] = q[i]
           /\ Append(q, f)[Len(q) + 1] = f
BY AppendProperties, LenProperties

LEMMA TailIs ==
    ASSUME NEW q \in Seq(Frames), q # <<>>
    PROVE  /\ Head(q) \in Frames /\ Head(q) = q[1]
           /\ Tail(q) \in Seq(Frames)
           /\ DOMAIN q = 1..Len(q) /\ Len(q) \in Nat /\ Len(q) >= 1
           /\ DOMAIN Tail(q) = 1..Len(q) - 1
           /\ \A i \in 1..Len(q) - 1 : Tail(q)[i] = q[i + 1]
           /\ \A i \in 2..Len(q) : i - 1 \in DOMAIN Tail(q) /\ Tail(q)[i - 1] = q[i]
<1>1. /\ DOMAIN q = 1..Len(q) /\ Len(q) \in Nat /\ Len(q) >= 1
  BY LenProperties, EmptySeq
<1>2. Head(q) = q[1] /\ Head(q) \in Frames
  BY <1>1, ElementOfSeq
<1>3. /\ Tail(q) \in Seq(Frames) /\ Len(Tail(q)) = Len(q) - 1
      /\ \A i \in 1..Len(Tail(q)) : Tail(q)[i] = q[i + 1]
  BY HeadTailProperties
<1>4. DOMAIN Tail(q) = 1..Len(q) - 1
  BY <1>3, LenProperties
<1>5. \A i \in 2..Len(q) : i - 1 \in 1..Len(q) - 1 /\ (i - 1) + 1 = i
  BY <1>1
<1> QED BY <1>1, <1>2, <1>3, <1>4, <1>5

LEMMA HeardMore ==
    ASSUME NEW q \in Seq(Frames), NEW f \in Frames, NEW t, t = Append(q, f)
    PROVE  /\ f.kind = "peers" => LastSays(t, f.n) /\ ~Unsaid(t)
           /\ f.kind # "peers" => /\ Unsaid(t) <=> Unsaid(q)
                                  /\ \A n : LastSays(q, n) => LastSays(t, n)
           /\ Dropped(t) <=> Dropped(q) \/ (f.kind = "peers" /\ f.n < 2)
           /\ Tells(f) => \A now : LeadsTo(t, now, f.ask)
           /\ ~Tells(f) => \A now, v : LeadsTo(q, now, v) => LeadsTo(t, now, v)
           /\ \A g : Has(t, g) <=> Has(q, g) \/ g = f
<1>0. PICK k : k = Len(q)
  OBVIOUS
<1>1. /\ DOMAIN q = 1..k /\ k \in Nat /\ DOMAIN t = 1..k + 1
      /\ \A i \in 1..k : t[i] = q[i]
      /\ t[k + 1] = f
  BY <1>0, AppendIs
<1>2. \A i \in 1..k + 1 : i \in 1..k \/ i = k + 1
  BY <1>1
<1>3. k + 1 \in 1..k + 1 /\ (\A i \in 1..k : i \in 1..k + 1 /\ ~(i > k + 1) /\ k + 1 > i) /\ ~(k + 1 > k + 1)
  BY <1>1
<1>4. Unsaid(t) <=> Unsaid(q) /\ f.kind # "peers"
  BY <1>1, <1>2, <1>3 DEF Unsaid
<1>5. f.kind = "peers" => LastSays(t, f.n)
  BY <1>1, <1>2, <1>3 DEF LastSays
<1>6. f.kind # "peers" => \A n : LastSays(q, n) => LastSays(t, n)
  BY <1>1, <1>2, <1>3, <1>4 DEF LastSays
<1>7. Dropped(t) <=> Dropped(q) \/ (f.kind = "peers" /\ f.n < 2)
  BY <1>1, <1>2, <1>3 DEF Dropped
<1>8. Tells(f) => \A now : LeadsTo(t, now, f.ask)
  BY <1>1, <1>2, <1>3 DEF LeadsTo
<1>9. ~Tells(f) => \A now, v : LeadsTo(q, now, v) => LeadsTo(t, now, v)
  BY <1>1, <1>2, <1>3 DEF LeadsTo
<1>10. \A g : Has(t, g) <=> Has(q, g) \/ g = f
  BY <1>1, <1>2, <1>3 DEF Has
<1> QED BY <1>4, <1>5, <1>6, <1>7, <1>8, <1>9, <1>10

LEMMA HeardFirst ==
    ASSUME NEW q \in Seq(Frames), q # <<>>, NEW f, f = Head(q), NEW t, t = Tail(q)
    PROVE  /\ Unsaid(q) <=> Unsaid(t) /\ f.kind # "peers"
           /\ \A n : LastSays(q, n) => LastSays(t, n)
           /\ \A n : LastSays(q, n) /\ Unsaid(t) /\ f.kind = "peers" => f.n = n
           /\ Dropped(q) <=> Dropped(t) \/ (f.kind = "peers" /\ f.n < 2)
           /\ Tells(f) => \A now, v : LeadsTo(q, now, v) => LeadsTo(t, f.ask, v)
           /\ ~Tells(f) => \A now, v : LeadsTo(q, now, v) => LeadsTo(t, now, v)
           /\ \A g : Has(q, g) <=> Has(t, g) \/ g = f
<1>0. PICK k : k = Len(q)
  OBVIOUS
<1>1. /\ DOMAIN q = 1..k /\ k \in Nat /\ k >= 1 /\ DOMAIN t = 1..k - 1
      /\ f = q[1]
      /\ \A i \in 1..k - 1 : t[i] = q[i + 1]
      /\ \A i \in 2..k : t[i - 1] = q[i]
  BY <1>0, TailIs
<1>2. /\ 1 \in 1..k
      /\ \A i \in 1..k : i = 1 \/ i \in 2..k
      /\ \A i \in 2..k : i \in 1..k /\ i - 1 \in 1..k - 1 /\ i > 1 /\ ~(1 > i)
      /\ \A i \in 1..k - 1 : i + 1 \in 2..k
      /\ \A i \in 1..k - 1, j \in 2..k : j - 1 > i <=> j > i + 1
      /\ \A i \in 1..k - 1, j \in 2..k : i > j - 1 <=> i + 1 > j
      /\ \A i, j \in 1..k - 1 : j > i <=> j + 1 > i + 1
      /\ \A i, j \in 2..k : j > i <=> j - 1 > i - 1
  BY <1>1
<1>3. /\ \A i \in DOMAIN q : q[i] = f \/ \E j \in DOMAIN t : t[j] = q[i]
      /\ \A j \in DOMAIN t : \E i \in DOMAIN q : q[i] = t[j]
      /\ \E i \in DOMAIN q : q[i] = f
  <2>1. ASSUME NEW i \in DOMAIN q PROVE q[i] = f \/ \E j \in DOMAIN t : t[j] = q[i]
    BY <1>1, <1>2
  <2>2. ASSUME NEW j \in DOMAIN t PROVE \E i \in DOMAIN q : q[i] = t[j]
    <3>1. j + 1 \in DOMAIN q /\ q[j + 1] = t[j]
      BY <1>1, <1>2
    <3> QED BY <3>1
  <2>3. 1 \in DOMAIN q /\ q[1] = f
    BY <1>1, <1>2
  <2> QED BY <2>1, <2>2, <2>3
<1>4. Unsaid(q) <=> Unsaid(t) /\ f.kind # "peers"
  BY SMTT(30), <1>3 DEF Unsaid
<1>5. ASSUME NEW n, LastSays(q, n) PROVE LastSays(t, n)
  <2>1. CASE Unsaid(q)
    BY <2>1, <1>4 DEF LastSays
  <2>2. ASSUME NEW i \in 1..k, q[i].kind = "peers", q[i].n = n,
               \A j \in 1..k : j > i => q[j].kind # "peers"
        PROVE  LastSays(t, n)
    <3>1. CASE i = 1
      BY <1>1, <1>2, <2>2, <3>1 DEF LastSays, Unsaid
    <3>2. CASE i \in 2..k
      <4>1. i - 1 \in 1..k - 1 /\ t[i - 1] = q[i]
        BY <1>1, <1>2, <3>2
      <4>2. \A j \in 1..k - 1 : j > i - 1 => j + 1 > i /\ j + 1 \in 1..k
        BY <1>1, <3>2
      <4>3. \A j \in 1..k - 1 : j > i - 1 => t[j].kind # "peers"
        BY <1>1, <2>2, <4>2
      <4> QED BY <1>1, <2>2, <4>1, <4>3 DEF LastSays
    <3> QED BY <1>2, <3>1, <3>2
  <2> QED BY <1>1, <1>5, <2>1, <2>2 DEF LastSays
<1>6. ASSUME NEW n, LastSays(q, n), Unsaid(t), f.kind = "peers" PROVE f.n = n
  <2>1. PICK i \in DOMAIN q : q[i].kind = "peers" /\ q[i].n = n
    BY <1>4, <1>6 DEF LastSays
  <2>2. q[i] = f
    BY <1>3, <1>6, <2>1 DEF Unsaid
  <2> QED BY <2>1, <2>2
<1>7. Dropped(q) <=> Dropped(t) \/ (f.kind = "peers" /\ f.n < 2)
  BY <1>3 DEF Dropped
<1>8. ASSUME NEW now, NEW v, LeadsTo(q, now, v), NEW then,
             Tells(f) => then = f.ask, ~Tells(f) => then = now
      PROVE  LeadsTo(t, then, v)
  <2>1. CASE (\A i \in 1..k : ~Tells(q[i])) /\ now = v
    BY <1>1, <1>2, <1>8, <2>1 DEF LeadsTo
  <2>2. ASSUME NEW i \in 1..k, Tells(q[i]), q[i].ask = v,
               \A j \in 1..k : j > i => ~Tells(q[j])
        PROVE  LeadsTo(t, then, v)
    <3>1. CASE i = 1
      <4>1. \A j \in 1..k - 1 : j + 1 \in 1..k /\ j + 1 > 1
        BY <1>1
      <4> QED BY <1>1, <1>8, <2>2, <3>1, <4>1 DEF LeadsTo
    <3>2. CASE i \in 2..k
      <4>1. i - 1 \in 1..k - 1 /\ t[i - 1] = q[i]
        BY <1>1, <1>2, <3>2
      <4>2. \A j \in 1..k - 1 : j > i - 1 => j + 1 > i /\ j + 1 \in 1..k
        BY <1>1, <3>2
      <4>3. \A j \in 1..k - 1 : j > i - 1 => ~Tells(t[j])
        BY <1>1, <2>2, <4>2
      <4> QED BY <1>1, <2>2, <4>1, <4>3 DEF LeadsTo
    <3> QED BY <1>2, <3>1, <3>2
  <2> QED BY <1>1, <1>8, <2>1, <2>2 DEF LeadsTo
<1>9. \A g : Has(q, g) <=> Has(t, g) \/ g = f
  BY <1>3 DEF Has
<1>10. /\ Tells(f) => \A now, v : LeadsTo(q, now, v) => LeadsTo(t, f.ask, v)
       /\ ~Tells(f) => \A now, v : LeadsTo(q, now, v) => LeadsTo(t, now, v)
  <2>1. ASSUME Tells(f), NEW now, NEW v, LeadsTo(q, now, v) PROVE LeadsTo(t, f.ask, v)
    <3>1. PICK then : then = f.ask
      OBVIOUS
    <3>2. LeadsTo(t, then, v)
      BY <1>8, <2>1, <3>1
    <3> QED BY <3>1, <3>2
  <2>2. ASSUME ~Tells(f), NEW now, NEW v, LeadsTo(q, now, v) PROVE LeadsTo(t, now, v)
    BY <1>8, <2>2
  <2> QED BY <2>1, <2>2
<1> QED BY <1>4, <1>5, <1>6, <1>7, <1>9, <1>10

\* A frame that passes from one queue to the next does not change what the two say in turn.
LEMMA InTurn ==
    ASSUME NEW a \in Seq(Frames), NEW b \in Seq(Frames)
    PROVE  /\ a \o b \in Seq(Frames)
           /\ a \o <<>> = a
           /\ a # <<>> => a \o b # <<>> /\ Head(a \o b) = Head(a) /\ Tail(a \o b) = Tail(a) \o b
           /\ b # <<>> => Append(a, Head(b)) \o Tail(b) = a \o b
           /\ \A f \in Frames : a \o Append(b, f) = Append(a \o b, f)
<1>1. a \o b \in Seq(Frames) /\ a \o <<>> = a
  BY ConcatProperties, ConcatEmptySeq
<1>2. ASSUME a # <<>>
      PROVE  a \o b # <<>> /\ Head(a \o b) = Head(a) /\ Tail(a \o b) = Tail(a) \o b
  <2>1. a \o b # <<>>
    BY <1>2, ConcatEqualIffEmpty
  <2>2. /\ Len(a) \in Nat /\ Len(a) >= 1 /\ Len(b) \in Nat /\ Len(a \o b) = Len(a) + Len(b)
        /\ \A i \in 1..Len(a) + Len(b) : (a \o b)[i] = IF i <= Len(a) THEN a[i] ELSE b[i - Len(a)]
    BY <1>2, ConcatProperties, TailIs, LenProperties
  <2>3. Head(a \o b) = Head(a)
    BY <1>1, <1>2, <2>1, <2>2, TailIs
  <2>4. /\ Tail(a) \in Seq(Frames) /\ Len(Tail(a)) = Len(a) - 1
        /\ \A i \in 1..Len(a) - 1 : Tail(a)[i] = a[i + 1]
    BY <1>2, HeadTailProperties
  <2>5. /\ Tail(a \o b) \in Seq(Frames) /\ Len(Tail(a \o b)) = Len(a) + Len(b) - 1
        /\ \A i \in 1..Len(a) + Len(b) - 1 : Tail(a \o b)[i] = (a \o b)[i + 1]
    BY <1>1, <2>1, <2>2, HeadTailProperties
  <2>6. /\ Tail(a) \o b \in Seq(Frames) /\ Len(Tail(a) \o b) = Len(a) + Len(b) - 1
        /\ \A i \in 1..Len(a) + Len(b) - 1 :
              (Tail(a) \o b)[i] = IF i <= Len(a) - 1 THEN Tail(a)[i] ELSE b[i - (Len(a) - 1)]
    BY <2>2, <2>4, ConcatProperties
  <2>7. ASSUME NEW i \in 1..Len(a) + Len(b) - 1 PROVE Tail(a \o b)[i] = (Tail(a) \o b)[i]
    <3>1. i + 1 \in 1..Len(a) + Len(b) /\ (i + 1) - Len(a) = i - (Len(a) - 1)
      BY <2>2
    <3>2. CASE i <= Len(a) - 1
      BY <2>2, <2>4, <2>5, <2>6, <3>1, <3>2
    <3>3. CASE ~(i <= Len(a) - 1)
      BY <2>2, <2>5, <2>6, <3>1, <3>3
    <3> QED BY <3>2, <3>3
  <2>8. Tail(a \o b) = Tail(a) \o b
    BY <2>5, <2>6, <2>7, SeqEqual
  <2> QED BY <2>1, <2>3, <2>8
<1>3. ASSUME b # <<>> PROVE Append(a, Head(b)) \o Tail(b) = a \o b
  <2>1. Head(b) \in Frames /\ Tail(b) \in Seq(Frames) /\ b = <<Head(b)>> \o Tail(b)
    <3>1. Head(b) \in Frames /\ Tail(b) \in Seq(Frames) /\ Len(b) \in Nat /\ Len(b) >= 1 /\ Head(b) = b[1]
      BY <1>3, TailIs
    <3>2. Len(Tail(b)) = Len(b) - 1 /\ \A i \in 1..Len(b) - 1 : Tail(b)[i] = b[i + 1]
      BY <1>3, HeadTailProperties
    <3>3. <<Head(b)>> \in Seq(Frames) /\ Len(<<Head(b)>>) = 1 /\ <<Head(b)>>[1] = Head(b)
      BY <3>1
    <3>4. /\ <<Head(b)>> \o Tail(b) \in Seq(Frames) /\ Len(<<Head(b)>> \o Tail(b)) = Len(b)
          /\ \A i \in 1..Len(b) : (<<Head(b)>> \o Tail(b))[i] =
                IF i <= 1 THEN <<Head(b)>>[i] ELSE Tail(b)[i - 1]
      BY <3>1, <3>2, <3>3, ConcatProperties
    <3>5. ASSUME NEW i \in 1..Len(b) PROVE (<<Head(b)>> \o Tail(b))[i] = b[i]
      <4>1. CASE i = 1
        BY <3>1, <3>3, <3>4, <4>1
      <4>2. CASE i # 1
        <5>1. i - 1 \in 1..Len(b) - 1 /\ (i - 1) + 1 = i /\ ~(i <= 1)
          BY <3>1, <4>2
        <5> QED BY <3>2, <3>4, <5>1
      <4> QED BY <4>1, <4>2
    <3> QED BY <3>1, <3>4, <3>5, SeqEqual
  <2>2. Append(a, Head(b)) = a \o <<Head(b)>> /\ <<Head(b)>> \in Seq(Frames)
    BY <2>1, AppendIsConcat
  <2>3. (a \o <<Head(b)>>) \o Tail(b) = a \o (<<Head(b)>> \o Tail(b))
    BY <2>1, <2>2, ConcatAssociative
  <2> QED BY <2>1, <2>2, <2>3
<1>4. ASSUME NEW f \in Frames PROVE a \o Append(b, f) = Append(a \o b, f)
  <2>1. <<f>> \in Seq(Frames)
    OBVIOUS
  <2>2. (a \o b) \o <<f>> = a \o (b \o <<f>>)
    BY <2>1, ConcatAssociative
  <2> QED BY <1>1, <2>2, AppendIsConcat
<1> QED BY <1>1, <1>2, <1>3, <1>4

-----------------------------------------------------------------------------
(* What the two ends have been told, and what is still on its way to them. *)

In(m) == {s \in Sockets : Holds(m, s)}
Here(m, s) == Holds(m, s) /\ peer[s] # "closed"

\* Seats are of open sockets; a socket told to close has lost its seat, and
\* nothing waits for a peer that left.
Closing(m) == \A s \in Sockets :
    /\ m.seat[s] = "seated" => s \in m.open
    /\ Has(m.down[s], Close) => m.seat[s] # "seated"
    /\ peer[s] = "closed" /\ m.seat[s] = "seated" => m.down[s] = <<>>

Told(m) == \A s \in In(m) : LastSays(m.down[s], Cardinality(In(m)))

\* A phone that is after a session or on one, and which.
Engaged(d) == pending[d] # None \/ session[d] # None
On(d) == IF pending[d] # None THEN pending[d] ELSE session[d]

\* A phone that has read all it was told is after a session, or on one, just
\* when a daemon is there.
Aware(m) == \A d \in Devices :
    Here(m, d) /\ Unsaid(m.down[d]) => (Engaged(d) <=> \E h \in Hosts : Holds(m, h))

\* Unless it is about to drop it, the phone's session is the one the daemon
\* ends on, and the answer it waits for comes.
Paired(m) == \A h \in Hosts, d \in Devices :
    Here(m, h) /\ Here(m, d) /\ Engaged(d) /\ ~Dropped(m.down[d]) =>
        /\ LeadsTo(m.down[h] \o up[d], session[h], On(d))
        /\ pending[d] # None =>
              \/ Has(m.down[h], Ask(pending[d])) \/ Has(up[d], Ask(pending[d]))
              \/ Has(up[h], Accept(pending[d])) \/ Has(m.down[d], Accept(pending[d]))

\* A daemon left alone ends on no session.
LoneHost(m) == \A h \in Hosts :
    Here(m, h) /\ (\A d \in Devices : ~Holds(m, d)) => LeadsTo(m.down[h], session[h], None)

Sound(m) ==
    Held(m) /\ Alone(m) /\ Closing(m) /\ Told(m) /\ Aware(m) /\ Paired(m) /\ LoneHost(m)

\* A socket that has not come yet.
Fresh == \A s \in Sockets :
    peer[s] = "new" =>
        /\ room.seat[s] = "new" /\ room.down[s] = <<>> /\ up[s] = <<>>
        /\ pending[s] = None /\ session[s] = None

\* Only the room speaks of presence, and a peer says that it closes last.
Upward == \A s \in Sockets :
    /\ Unsaid(up[s])
    /\ Has(up[s], Close) => peer[s] = "closed"
    /\ s \in Hosts => pending[s] = None

RInv == IInv /\ Sound(room) /\ Fresh /\ Upward

LEMMA EmptyIs ==
    /\ Unsaid(<<>>) /\ ~Dropped(<<>>)
    /\ \A f : ~Has(<<>>, f)
    /\ \A n : LastSays(<<>>, n)
    /\ \A v : LeadsTo(<<>>, v, v)
BY DEF Unsaid, Dropped, Has, LastSays, LeadsTo

LEMMA InIs ==
    ASSUME NEW m, Alone(m)
    PROVE  /\ In(m) = {Seated(m, Hosts), Seated(m, Devices)} \ {None}
           /\ \A h \in Hosts, d \in Devices : Holds(m, h) /\ Holds(m, d) => Cardinality(In(m)) = 2
           /\ \A s \in In(m) : (\A r \in OtherSide(s) : ~Holds(m, r)) => Cardinality(In(m)) = 1
<1>0. /\ Hosts \subseteq Sockets /\ Devices \subseteq Sockets /\ None \notin Sockets
      /\ \A h \in Hosts, d \in Devices : h # d
      /\ \A h \in Hosts : Side(h) = Hosts /\ OtherSide(h) = Devices
      /\ \A d \in Devices : Side(d) = Devices /\ OtherSide(d) = Hosts
      /\ Sockets = Hosts \cup Devices
  BY RoomAssumption DEF Sockets, Side, OtherSide
<1>1. ASSUME NEW side \in {Hosts, Devices}, NEW s \in side, Holds(m, s) PROVE s = Seated(m, side)
  BY <1>0, <1>1, SeatedIs DEF Alone
<1>2. In(m) = {Seated(m, Hosts), Seated(m, Devices)} \ {None}
  <2>1. ASSUME NEW s \in In(m) PROVE s \in {Seated(m, Hosts), Seated(m, Devices)} \ {None}
    BY <1>0, <1>1 DEF In
  <2>2. ASSUME NEW s \in {Seated(m, Hosts), Seated(m, Devices)} \ {None} PROVE s \in In(m)
    BY <1>0, SeatedIs DEF In
  <2> QED BY <2>1, <2>2
<1>3. ASSUME NEW h \in Hosts, NEW d \in Devices, Holds(m, h), Holds(m, d)
      PROVE  Cardinality(In(m)) = 2
  <2>1. In(m) = {h} \cup {d} /\ d \notin {h}
    <3>1. h = Seated(m, Hosts) /\ d = Seated(m, Devices)
      BY <1>1, <1>3
    <3> QED BY <1>0, <1>2, <3>1
  <2>2. IsFiniteSet({h}) /\ Cardinality({h}) = 1
    BY FS_Singleton
  <2> QED BY <2>1, <2>2, FS_AddElement
<1>4. ASSUME NEW s \in In(m), \A r \in OtherSide(s) : ~Holds(m, r)
      PROVE  Cardinality(In(m)) = 1
  <2>1. In(m) = {s}
    <3>1. ASSUME NEW r \in In(m) PROVE r = s
      <4>1. Holds(m, r) /\ r \in Sockets /\ s \in Sockets /\ Holds(m, s)
        BY DEF In
      <4>2. Side(r) = Side(s)
        BY <1>0, <1>4, <4>1
      <4> QED BY <4>1, <4>2 DEF Alone
    <3> QED BY <3>1
  <2> QED BY <2>1, FS_Singleton
<1> QED BY <1>2, <1>3, <1>4

LEMMA CountOfIn ==
    ASSUME NEW m, Alone(m)
    PROVE  Cardinality(In(m)) \in 0..2
<1>1. In(m) \subseteq {Seated(m, Hosts), Seated(m, Devices)}
  BY InIs
<1>2. IsFiniteSet({Seated(m, Hosts)}) /\ Cardinality({Seated(m, Hosts)}) = 1
  BY FS_Singleton
<1>3. {Seated(m, Hosts), Seated(m, Devices)} = {Seated(m, Hosts)} \cup {Seated(m, Devices)}
  OBVIOUS
<1>4. /\ IsFiniteSet({Seated(m, Hosts), Seated(m, Devices)})
      /\ Cardinality({Seated(m, Hosts), Seated(m, Devices)}) \in 0..2
  BY <1>2, <1>3, FS_AddElement
<1>5. IsFiniteSet(In(m)) /\ Cardinality(In(m)) <= Cardinality({Seated(m, Hosts), Seated(m, Devices)})
  BY <1>1, <1>4, FS_Subset
<1>6. Cardinality(In(m)) \in Nat
  BY <1>5, FS_CardinalityType
<1> QED BY <1>4, <1>5, <1>6

\* Everybody who is in the room and has not left hears how many are.
LEMMA AnnounceTells ==
    ASSUME NEW m, Held(m), Alone(m), NEW t, t = Announce(m)
    PROVE  /\ Held(t) /\ t.seat = m.seat /\ t.open = m.open
           /\ Peers(Cardinality(In(m))) \in Frames
           /\ \A s \in Sockets :
                 t.down[s] = IF Here(m, s) THEN Append(m.down[s], Peers(Cardinality(In(m))))
                             ELSE m.down[s]
<1>1. Held(t) /\ t.seat = m.seat /\ t.open = m.open
  BY AnnounceIs
<1>2. PICK c : c = Cardinality(In(m))
  OBVIOUS
<1>3. Peers(c) \in Frames
  BY <1>2, CountOfIn, FramesAre
<1>4. t = [m EXCEPT !.down = [s \in Sockets |-> IF s \in In(m) THEN Queued(m, s, Peers(c)) ELSE @[s]]]
  BY <1>2, InIs DEF Announce
<1>5. t.down = [s \in Sockets |-> IF s \in In(m) THEN Queued(m, s, Peers(c)) ELSE m.down[s]]
  BY <1>4 DEF Held
<1>6. \A s \in Sockets : t.down[s] = IF Here(m, s) THEN Append(m.down[s], Peers(c)) ELSE m.down[s]
  BY <1>5 DEF In, Here, Queued
<1> QED BY <1>1, <1>2, <1>3, <1>6

-----------------------------------------------------------------------------
(* The room's operations. *)

LEMMA SideOf ==
    /\ Hosts \subseteq Sockets /\ Devices \subseteq Sockets /\ Sockets = Hosts \cup Devices
    /\ None \notin Sockets
    /\ \A h \in Hosts : h \notin Devices /\ Side(h) = Hosts /\ OtherSide(h) = Devices
    /\ \A d \in Devices : d \notin Hosts /\ Side(d) = Devices /\ OtherSide(d) = Hosts
BY RoomAssumption DEF Sockets, Side, OtherSide

\* What is announced is right, if no phone is told that there is a daemon
\* while the last it will have heard is about another.
LEMMA AnnounceSound ==
    ASSUME NEW m, Held(m), Alone(m), Closing(m), NEW t, t = Announce(m),
           \A h \in Hosts, d \in Devices :
              Here(m, h) /\ Here(m, d) /\ Engaged(d) => Dropped(m.down[d])
    PROVE  Sound(t)
<1>1. PICK f \in Frames : f = Peers(Cardinality(In(m)))
  BY AnnounceTells
<1>2. /\ Held(t) /\ t.seat = m.seat /\ t.open = m.open
      /\ \A s \in Sockets : t.down[s] = IF Here(m, s) THEN Append(m.down[s], f) ELSE m.down[s]
  BY <1>1, AnnounceTells
<1>3. f.kind = "peers" /\ f.n = Cardinality(In(m)) /\ f.ask = None /\ f # Close
  BY <1>1 DEF Peers, Close
<1>4. In(t) = In(m) /\ \A s \in Sockets : (Holds(t, s) <=> Holds(m, s)) /\ (Here(t, s) <=> Here(m, s))
  BY <1>2 DEF In, Here, Holds
<1>5. \A s \in Sockets : m.down[s] \in Seq(Frames)
  BY DEF Held
<1>6. ASSUME NEW s \in Sockets, Here(m, s)
       PROVE  /\ LastSays(t.down[s], f.n) /\ ~Unsaid(t.down[s])
              /\ Dropped(m.down[s]) => Dropped(t.down[s])
              /\ Has(t.down[s], Close) => Has(m.down[s], Close)
              /\ Tells(f) => \A now : LeadsTo(t.down[s], now, f.ask)
  <2>1. PICK q \in Seq(Frames) : q = m.down[s]
    BY <1>5
  <2>2. PICK r : r = Append(q, f)
    OBVIOUS
  <2>3. t.down[s] = r
    BY <1>2, <1>6, <2>1, <2>2
  <2>4. /\ LastSays(r, f.n) /\ ~Unsaid(r)
        /\ Dropped(q) => Dropped(r)
        /\ Has(r, Close) => Has(q, Close)
        /\ Tells(f) => \A now : LeadsTo(r, now, f.ask)
    BY <1>3, <2>2, HeardMore
  <2> QED BY <2>1, <2>3, <2>4
<1>7. Alone(t)
  BY <1>4 DEF Alone
<1>8. Closing(t)
  <2>1. ASSUME NEW s \in Sockets, Has(t.down[s], Close) PROVE t.seat[s] # "seated"
    BY <1>2, <1>6, <2>1 DEF Closing
  <2> QED BY <1>2, <2>1 DEF Closing, Here
<1>9. Told(t)
  <2>1. ASSUME NEW s \in In(m) PROVE LastSays(t.down[s], f.n)
    <3>1. CASE Here(m, s)
      BY <1>6, <3>1 DEF In
    <3>2. CASE ~Here(m, s)
      <4>1. m.down[s] = <<>> /\ t.down[s] = m.down[s]
        BY <1>2, <3>2 DEF Closing, Here, In, Holds
      <4> QED BY <4>1, EmptyIs
    <3> QED BY <3>1, <3>2
  <2> QED BY <1>3, <1>4, <2>1 DEF Told
<1>10. Aware(t)
  <2>1. \A d \in Devices : Here(t, d) => ~Unsaid(t.down[d])
    BY <1>4, <1>6, SideOf
  <2> QED BY <2>1 DEF Aware
<1>11. Paired(t)
  <2>1. ASSUME NEW h \in Hosts, NEW d \in Devices, Here(t, h), Here(t, d), Engaged(d)
        PROVE  Dropped(t.down[d])
    BY <1>4, <1>6, <2>1, SideOf
  <2> QED BY <2>1 DEF Paired
<1>12. LoneHost(t)
  <2>1. ASSUME NEW h \in Hosts, Here(t, h), \A d \in Devices : ~Holds(t, d)
        PROVE  LeadsTo(t.down[h], session[h], None)
    <3>1. h \in In(m) /\ Here(m, h) /\ \A r \in OtherSide(h) : ~Holds(m, r)
      BY <1>4, <2>1, SideOf DEF In, Here
    <3>2. f.n = 1
      BY <1>3, <3>1, InIs
    <3>3. Tells(f)
      BY <1>3, <3>2 DEF Tells
    <3> QED BY <1>3, <1>6, <3>1, <3>3, SideOf
  <2> QED BY <2>1 DEF LoneHost
<1> QED BY <1>2, <1>7, <1>8, <1>9, <1>10, <1>11, <1>12 DEF Sound

LEMMA VacateSound ==
    ASSUME NEW m, Sound(m), NEW s \in Sockets, m.seat[s] = "seated",
           NEW u, Held(u), u.seat = [m.seat EXCEPT ![s] = "gone"],
           u.open \in {m.open, m.open \ {s}}, u.down = m.down,
           NEW t, t = Announce(u)
    PROVE  Sound(t) /\ t.seat = u.seat
<1>1. \A r \in Sockets : Holds(u, r) => Holds(m, r) /\ r # s
  BY DEF Holds, Sound, Held
<1>2. Alone(u)
  BY <1>1, FewerAlone DEF Sound
<1>3. Closing(u)
  BY DEF Closing, Sound, Held
<1>4. ASSUME NEW h \in Hosts, NEW d \in Devices, Here(u, h), Here(u, d)
      PROVE  FALSE
  <2>1. /\ Holds(m, h) /\ Holds(m, d) /\ h # s /\ d # s
        /\ h \in Sockets /\ d \in Sockets /\ Side(h) = Hosts /\ Side(d) = Devices
        /\ Side(s) \in {Hosts, Devices}
    BY <1>1, <1>4, SideOf DEF Here
  <2>2. Holds(m, s)
    BY DEF Holds, Sound, Closing
  <2> QED BY <2>1, <2>2 DEF Sound, Alone
<1>5. Sound(t)
  BY <1>2, <1>3, <1>4, AnnounceSound
<1> QED BY <1>2, <1>5, AnnounceTells

\* A socket without a seat may be told or closed as the room likes.
LEMMA SeatlessSound ==
    ASSUME NEW m, Sound(m), NEW s \in Sockets, m.seat[s] # "seated",
           NEW t, Held(t), t.seat[s] # "seated",
           \A r \in Sockets \ {s} : /\ t.seat[r] = m.seat[r] /\ t.down[r] = m.down[r]
                                    /\ r \in t.open <=> r \in m.open
    PROVE  Sound(t)
<1>1. \A r \in Sockets : Holds(t, r) <=> Holds(m, r)
  BY DEF Holds
<1>2. In(t) = In(m) /\ \A r \in Sockets : Here(t, r) <=> Here(m, r)
  BY <1>1 DEF In, Here
<1>3. \A r \in Sockets : Holds(t, r) => r # s /\ t.down[r] = m.down[r]
  BY DEF Holds
<1>4. Alone(t)
  BY <1>1 DEF Alone, Sound
<1>5. Closing(t)
  BY DEF Closing, Sound
<1>6. Told(t)
  BY <1>2, <1>3 DEF Told, Sound, In
<1>7. Aware(t)
  BY <1>1, <1>2, <1>3, SideOf DEF Aware, Sound, Here
<1>8. Paired(t)
  <2>1. ASSUME NEW h \in Hosts, NEW d \in Devices, Here(t, h), Here(t, d)
        PROVE  /\ Here(m, h) /\ Here(m, d)
               /\ t.down[h] = m.down[h] /\ t.down[d] = m.down[d]
    BY <1>2, <1>3, <2>1, SideOf DEF Here
  <2> QED BY <2>1 DEF Paired, Sound
<1>9. LoneHost(t)
  BY <1>1, <1>2, <1>3, SideOf DEF LoneHost, Sound, Here
<1> QED BY <1>4, <1>5, <1>6, <1>7, <1>8, <1>9 DEF Sound

LEMMA EvictSound ==
    ASSUME NEW m, Sound(m), NEW s \in Sockets, m.seat[s] = "seated", NEW t, t = Evict(m, s)
    PROVE  Sound(t) /\ t.seat[s] = "gone"
           /\ \A r \in Sockets \ {s} :
                 t.seat[r] = m.seat[r] /\ (~Holds(m, r) => t.down[r] = m.down[r])
<1>0. Held(m)
  BY DEF Sound
<1>1. PICK u : u = [m EXCEPT !.seat[s] = "gone"]
  OBVIOUS
<1>2. Held(u) /\ u.open = m.open /\ u.down = m.down /\ u.seat = [m.seat EXCEPT ![s] = "gone"]
  BY <1>0, <1>1 DEF Held
<1>3. PICK v : v = Announce(u)
  OBVIOUS
<1>4. Sound(v) /\ v.seat = u.seat
  BY <1>2, <1>3, VacateSound
<1>5. Alone(u)
  <2>1. \A r \in Sockets : Holds(u, r) => Holds(m, r)
    BY <1>0, <1>2 DEF Holds, Held
  <2> QED BY <2>1, FewerAlone DEF Sound
<1>6. v.open = u.open /\ \A r \in Sockets : ~Holds(u, r) => v.down[r] = u.down[r]
  BY <1>2, <1>3, <1>5, AnnounceTells DEF Here
<1>7. Queued(v, s, Close) \in Seq(Frames)
  BY <1>4, QueuedIs, FramesAre DEF Sound
<1>8. t = [v EXCEPT !.open = @ \ {s}, !.down[s] = Queued(v, s, Close)]
  BY <1>1, <1>3 DEF Evict, Vacate
<1>9. /\ Held(t) /\ t.seat = v.seat /\ t.open = v.open \ {s}
      /\ \A r \in Sockets \ {s} : t.down[r] = v.down[r]
  BY <1>4, <1>7, <1>8 DEF Held, Sound
<1>10. t.seat[s] = "gone" /\ \A r \in Sockets \ {s} : t.seat[r] = m.seat[r]
  BY <1>0, <1>2, <1>4, <1>9 DEF Held
<1>11. Sound(t)
  BY <1>2, <1>4, <1>9, <1>10, SeatlessSound
<1>12. \A r \in Sockets \ {s} : ~Holds(m, r) => ~Holds(u, r)
  BY <1>0, <1>2 DEF Holds, Held
<1> QED BY <1>2, <1>6, <1>9, <1>10, <1>11, <1>12

LEMMA SeatSound ==
    ASSUME NEW m, Sound(m), NEW s \in Sockets, peer[s] = "new", m.down[s] = <<>>,
           pending[s] = None, session[s] = None,
           \A r \in Side(s) : ~Holds(m, r),
           NEW t, t = Seat(m, s)
    PROVE  Sound(t) /\ \A r \in Sockets \ {s} :
               t.seat[r] = m.seat[r] /\ (~Holds(m, r) => t.down[r] = m.down[r])
<1>0. Held(m) /\ Alone(m) /\ Closing(m)
  BY DEF Sound
<1>1. PICK u : u = [m EXCEPT !.seat[s] = "seated", !.open = @ \cup {s}]
  OBVIOUS
<1>2. Held(u) /\ u.open = m.open \cup {s} /\ u.seat = [m.seat EXCEPT ![s] = "seated"] /\ u.down = m.down
  BY <1>0, <1>1 DEF Held
<1>3. t = Announce(u)
  BY <1>1 DEF Seat
<1>4. \A r \in Sockets : Holds(u, r) <=> Holds(m, r) \/ r = s
  BY <1>0, <1>2 DEF Holds, Held
<1>5. \A r \in Sockets : Side(r) = Side(s) => r \in Side(s)
  BY SidesOf
<1>6. Alone(u)
  BY <1>0, <1>4, <1>5 DEF Alone
<1>7. Closing(u)
  BY <1>0, <1>2, EmptyIs DEF Closing, Held
<1>8. ASSUME NEW h \in Hosts, NEW d \in Devices, Here(u, h), Here(u, d), Engaged(d)
      PROVE  Dropped(u.down[d])
  <2>1. d # s
    BY <1>8 DEF Engaged
  <2>2. /\ Here(m, d) /\ d \in Sockets /\ h \in Sockets /\ Side(d) = Devices /\ Side(h) = Hosts
        /\ s \in Hosts \cup Devices /\ OtherSide(d) = Hosts
    BY <1>4, <1>8, <2>1, SideOf DEF Here
  <2>3. s \in Hosts
    BY <1>5, <2>2, SideOf DEF Here
  <2>4. \A r \in Hosts : ~Holds(m, r)
    BY <2>3, SideOf
  <2>5. ~Unsaid(m.down[d])
    BY <1>8, <2>2, <2>4 DEF Sound, Aware
  <2>6. d \in In(m) /\ Cardinality(In(m)) = 1
    BY <1>0, <2>2, <2>4, InIs DEF In, Here
  <2>7. LastSays(m.down[d], 1)
    BY <2>6 DEF Sound, Told
  <2> QED BY <1>2, <2>5, <2>7 DEF LastSays, Dropped
<1>9. Sound(t)
  BY <1>2, <1>3, <1>6, <1>7, <1>8, AnnounceSound
<1>10. t.seat = u.seat /\ \A r \in Sockets : ~Holds(u, r) => t.down[r] = u.down[r]
  BY <1>2, <1>3, <1>6, AnnounceTells DEF Here
<1>11. \A r \in Sockets \ {s} : t.seat[r] = m.seat[r] /\ (~Holds(m, r) => t.down[r] = m.down[r])
  BY <1>0, <1>2, <1>4, <1>10 DEF Held
<1> QED BY <1>9, <1>11

LEMMA InvInit == Init => RInv
<1> SUFFICES ASSUME Init PROVE RInv
  OBVIOUS
<1>1. IInv
  BY InitInv
<1>2. \A s \in Sockets : ~Holds(room, s)
  BY DEF Init, Holds
<1>3. Held(room) /\ Alone(room) /\ In(room) = {}
  BY <1>1, <1>2 DEF IInv, TypeOK, Held, Alone, In
<1>4. Closing(room) /\ Upward
  BY EmptyIs, SideOf DEF Init, Closing, Upward
<1>5. Told(room) /\ Aware(room) /\ Paired(room) /\ LoneHost(room)
  BY <1>2, <1>3, SideOf DEF Told, Aware, Paired, LoneHost, Here
<1>6. Fresh
  BY DEF Init, Fresh
<1> QED BY <1>1, <1>3, <1>4, <1>5, <1>6 DEF RInv, Sound

-----------------------------------------------------------------------------
(* The room's steps. *)

LEMMA InvParts ==
    ASSUME RInv
    PROVE  /\ Held(room) /\ Alone(room) /\ Closing(room) /\ Sound(room)
           /\ up \in [Sockets -> Seq(Frames)] /\ peer \in [Sockets -> {"new", "open", "closed"}]
           /\ pending \in [Sockets -> Asks \cup {None}] /\ session \in [Sockets -> Asks \cup {None}]
           /\ asked \in [Sockets -> Nat]
BY DEF RInv, Sound, IInv, TypeOK

\* Who has left is all that a room's picture depends on of the peers.
LEMMA SoundNext ==
    ASSUME Sound(room'), UNCHANGED <<up, ends>>,
           \A s \in Sockets : peer'[s] = "closed" <=> peer[s] = "closed"
    PROVE  Sound(room)'
<1>1. up' = up /\ pending' = pending /\ session' = session
  BY DEF ends
<1> QED
  BY <1>1, SideOf DEF Sound, Closing, Told, In, Aware, Paired, LoneHost, Here, Engaged, On, Held, Alone, Holds

LEMMA JoinSound ==
    ASSUME RInv, NEW s \in Sockets, Join(s)
    PROVE  Sound(room)' /\ Fresh' /\ Upward'
<1>0. /\ peer[s] = "new" /\ peer' = [peer EXCEPT ![s] = "open"]
      /\ up' = up /\ pending' = pending /\ session' = session /\ UNCHANGED <<up, ends>>
  BY DEF Join, ends
<1>1. /\ room.seat[s] = "new" /\ room.down[s] = <<>> /\ up[s] = <<>>
      /\ pending[s] = None /\ session[s] = None
  BY <1>0 DEF RInv, Fresh
<1>2. /\ peer'[s] = "open" /\ \A r \in Sockets \ {s} : peer'[r] = peer[r]
  BY <1>0, InvParts
<1>3. Held(room) /\ Alone(room) /\ Sound(room) /\ ~Holds(room, s)
  BY <1>1, InvParts DEF Holds
<1>4. PICK stale : stale = Seated(room, Side(s))
  OBVIOUS
<1>5. /\ stale = None => \A r \in Side(s) : ~Holds(room, r)
      /\ stale # None => stale \in Side(s) /\ Holds(room, stale)
      /\ Side(s) \subseteq Sockets
  BY <1>4, SidesOf, SeatedIs
<1>6. Sound(room') /\ \A r \in Sockets \ {s} :
         room.seat[r] = "new" => room'.seat[r] = "new" /\ room'.down[r] = room.down[r]
  <2>1. CASE room' = Refuse(room, s)
    <3>1. PICK q \in Seq(Frames) : q = Append(room.down[s], Close)
      <4>1. room.down[s] \in Seq(Frames) /\ Close \in Frames
        BY <1>3, FramesAre DEF Held
      <4>2. Append(room.down[s], Close) \in Seq(Frames)
        BY <4>1
      <4> QED BY <4>2
    <3>2. room' = [room EXCEPT !.seat[s] = "refused", !.down[s] = q]
      BY <2>1, <3>1 DEF Refuse
    <3>3. /\ Held(room') /\ room'.seat = [room.seat EXCEPT ![s] = "refused"]
          /\ room'.open = room.open /\ room'.down = [room.down EXCEPT ![s] = q]
      BY <1>3, <3>2 DEF Held
    <3>4. /\ room'.seat[s] = "refused"
          /\ \A r \in Sockets \ {s} : /\ room'.seat[r] = room.seat[r]
                                      /\ room'.down[r] = room.down[r]
                                      /\ r \in room'.open <=> r \in room.open
      BY <1>3, <3>3 DEF Held
    <3>5. Sound(room')
      BY <1>1, <1>3, <3>3, <3>4, SeatlessSound
    <3> QED BY <3>4, <3>5
  <2>2. CASE stale = None /\ room' = Seat(room, s)
    <3>1. \A r \in Side(s) : ~Holds(room, r)
      BY <1>5, <2>2
    <3>2. Sound(room') /\ \A r \in Sockets \ {s} :
              room'.seat[r] = room.seat[r] /\ (~Holds(room, r) => room'.down[r] = room.down[r])
      BY <1>0, <1>1, <1>3, <2>2, <3>1, SeatSound
    <3> QED BY <3>2 DEF Holds
  <2>3. CASE stale # None /\ room' = Seat(Evict(room, stale), s)
    <3>1. PICK m : m = Evict(room, stale)
      OBVIOUS
    <3>2. stale \in Sockets /\ Holds(room, stale) /\ room.seat[stale] = "seated" /\ stale # s
      BY <1>1, <1>5, <2>3 DEF Holds
    <3>3. Sound(m) /\ m.seat[stale] = "gone" /\ \A r \in Sockets \ {stale} :
              m.seat[r] = room.seat[r] /\ (~Holds(room, r) => m.down[r] = room.down[r])
      BY <1>3, <3>1, <3>2, EvictSound
    <3>4. m.down[s] = <<>>
      BY <1>1, <1>3, <3>2, <3>3
    <3>5. \A r \in Side(s) : ~Holds(m, r)
      <4>1. ASSUME NEW r \in Side(s), Holds(m, r) PROVE FALSE
        <5>1. r # stale /\ r \in Sockets /\ m.seat[r] = "seated"
          BY <1>5, <3>3, <4>1 DEF Holds
        <5>2. Holds(room, r)
          BY <3>3, <5>1, InvParts DEF Holds, Closing
        <5>3. Side(r) = Side(s) /\ Side(stale) = Side(s)
          BY <1>5, <2>3, SidesOf
        <5> QED BY <1>3, <3>2, <5>1, <5>2, <5>3 DEF Alone
      <4> QED BY <4>1
    <3>6. room' = Seat(m, s)
      BY <2>3, <3>1
    <3>7. Sound(room') /\ \A r \in Sockets \ {s} :
              room'.seat[r] = m.seat[r] /\ (~Holds(m, r) => room'.down[r] = m.down[r])
      BY <1>0, <1>1, <3>3, <3>4, <3>5, <3>6, SeatSound
    <3>8. ASSUME NEW r \in Sockets \ {s}, room.seat[r] = "new"
          PROVE  room'.seat[r] = "new" /\ room'.down[r] = room.down[r]
      <4>1. r # stale /\ ~Holds(room, r)
        BY <3>2, <3>8 DEF Holds
      <4>2. m.seat[r] = "new" /\ m.down[r] = room.down[r]
        BY <3>3, <3>8, <4>1
      <4> QED BY <3>7, <4>2 DEF Holds
    <3> QED BY <3>7, <3>8
  <2> QED BY <1>4, <2>1, <2>2, <2>3 DEF Join
<1>7. Sound(room)'
  <2>1. \A r \in Sockets : peer'[r] = "closed" <=> peer[r] = "closed"
    BY <1>0, <1>2
  <2> QED BY <1>0, <1>6, <2>1, SoundNext
<1>8. Fresh'
  BY <1>0, <1>2, <1>6 DEF RInv, Fresh
<1>9. Upward'
  BY <1>0, <1>2 DEF RInv, Upward
<1> QED BY <1>7, <1>8, <1>9

\* The room hears that a socket has closed, one way or the other.
LEMMA ClosedSound ==
    ASSUME RInv, NEW s \in Sockets, peer[s] = "closed", UNCHANGED <<peer, ends>>,
           room' = Vacate([room EXCEPT !.open = @ \ {s}], s),
           NEW q, up' = [up EXCEPT ![s] = q], Unsaid(q)
    PROVE  Sound(room)' /\ Fresh' /\ Upward'
<1>0. /\ peer' = peer /\ pending' = pending /\ session' = session
      /\ up'[s] = q /\ \A r \in Sockets \ {s} : up'[r] = up[r]
  BY InvParts DEF ends
<1>1. Held(room) /\ Alone(room) /\ Sound(room)
  BY InvParts
<1>2. PICK v : v = [room EXCEPT !.open = @ \ {s}]
  OBVIOUS
<1>3. Held(v) /\ v.seat = room.seat /\ v.down = room.down /\ v.open = room.open \ {s}
  BY <1>1, <1>2 DEF Held
<1>4. Sound(room') /\ \A r \in Sockets :
         room.seat[r] = "new" => room'.seat[r] = "new" /\ room'.down[r] = room.down[r]
  <2>1. CASE room.seat[s] # "seated"
    <3>1. room' = v
      BY <1>2, <1>3, <2>1 DEF Vacate
    <3>2. Sound(room')
      <4>1. \A r \in Sockets \ {s} : r \in v.open <=> r \in room.open
        BY <1>3
      <4> QED BY <1>1, <1>3, <2>1, <3>1, <4>1, SeatlessSound
    <3> QED BY <1>3, <3>1, <3>2
  <2>2. CASE room.seat[s] = "seated"
    <3>1. PICK u : u = [v EXCEPT !.seat[s] = "gone"]
      OBVIOUS
    <3>2. /\ Held(u) /\ u.seat = [room.seat EXCEPT ![s] = "gone"]
          /\ u.open = room.open \ {s} /\ u.down = room.down
      BY <1>3, <3>1 DEF Held
    <3>3. room' = Announce(u)
      BY <1>2, <1>3, <2>2, <3>1 DEF Vacate
    <3>4. Sound(room') /\ room'.seat = u.seat
      BY <1>1, <2>2, <3>2, <3>3, VacateSound
    <3>5. \A r \in Sockets : Holds(u, r) => Holds(room, r)
      BY <1>1, <3>2 DEF Holds, Held
    <3>6. \A r \in Sockets : ~Holds(u, r) => room'.down[r] = u.down[r]
      BY <1>1, <3>2, <3>3, <3>5, FewerAlone, AnnounceTells DEF Here
    <3>7. ASSUME NEW r \in Sockets, room.seat[r] = "new"
          PROVE  room'.seat[r] = "new" /\ room'.down[r] = room.down[r]
      <4>1. r # s /\ ~Holds(room, r)
        BY <2>2, <3>7 DEF Holds
      <4>2. u.seat[r] = "new" /\ ~Holds(u, r)
        BY <1>1, <3>2, <3>5, <3>7, <4>1 DEF Held
      <4> QED BY <3>2, <3>4, <3>6, <4>2
    <3> QED BY <3>4, <3>7
  <2> QED BY <2>1, <2>2
<1>5. Sound(room)'
  <2>1. \A r \in Sockets : Here(room', r) => r # s /\ up'[r] = up[r]
    BY <1>0 DEF Here
  <2>2. Paired(room)'
    <3>1. ASSUME NEW h \in Hosts, NEW d \in Devices, Here(room', h), Here(room', d)
          PROVE  up'[h] = up[h] /\ up'[d] = up[d]
      BY <2>1, <3>1, SideOf
    <3>2. Paired(room')
      BY <1>4 DEF Sound
    <3> QED BY ZenonT(60), <1>0, <3>1, <3>2 DEF Paired, Here, Holds, Engaged, On
  <2> QED BY ZenonT(60), <1>0, <1>4, <2>2 DEF Sound, Closing, Told, In, Aware, LoneHost, Here, Engaged,
     Held, Alone, Holds
<1>6. Fresh'
  BY <1>0, <1>4 DEF RInv, Fresh
<1>7. Upward'
  BY <1>0 DEF RInv, Upward
<1> QED BY <1>5, <1>6, <1>7

LEMMA ArrivesSound ==
    ASSUME RInv, NEW s \in Sockets, Arrives(s) \/ Errored(s)
    PROVE  Sound(room)' /\ Fresh' /\ Upward'
<1>1. CASE Errored(s)
  BY <1>1, EmptyIs, ClosedSound DEF Errored
<1>2. CASE Arrives(s)
  <2>0. PICK f, q : f = Head(up[s]) /\ q = Tail(up[s])
    OBVIOUS
  <2>1. /\ up[s] \in Seq(Frames) /\ up[s] # <<>> /\ f \in Frames /\ q \in Seq(Frames)
        /\ f = Head(up[s]) /\ q = Tail(up[s])
        /\ up' = [up EXCEPT ![s] = q] /\ UNCHANGED <<peer, ends>>
    BY <1>2, <2>0, InvParts, TailIs DEF Arrives
  <2>2. /\ Unsaid(q) /\ f.kind # "peers"
        /\ \A g : Has(up[s], g) <=> Has(q, g) \/ g = f
        /\ Has(up[s], Close) => peer[s] = "closed"
    <3>1. Unsaid(up[s]) /\ (Has(up[s], Close) => peer[s] = "closed")
      BY DEF RInv, Upward
    <3>2. PICK p \in Seq(Frames) : p = up[s]
      BY <2>1
    <3>3. /\ Unsaid(p) <=> Unsaid(q) /\ f.kind # "peers"
          /\ \A g : Has(p, g) <=> Has(q, g) \/ g = f
      BY <2>1, <3>2, HeardFirst
    <3> QED BY <3>1, <3>2, <3>3
  <2>3. CASE f = Close
    BY <1>2, <2>1, <2>2, <2>3, ClosedSound DEF Arrives
  <2>4. CASE f # Close
    <3>0. /\ peer' = peer /\ pending' = pending /\ session' = session
          /\ up'[s] = q /\ \A r \in Sockets \ {s} : up'[r] = up[r]
      BY <2>1, InvParts DEF ends
    <3>1. room' = Forward(room, s, f)
      BY <1>2, <2>1, <2>4 DEF Arrives
    <3>2. /\ Held(room) /\ Alone(room) /\ Sound(room) /\ Closing(room)
          /\ peer[s] # "new"
      BY <2>1, InvParts DEF RInv, Fresh
    <3>3. Upward'
      BY <2>2, <3>0 DEF RInv, Upward
    <3>4. PICK to : to = Seated(room, OtherSide(s))
      OBVIOUS
    <3>5. /\ to = None => \A r \in OtherSide(s) : ~Holds(room, r)
          /\ to # None => to \in OtherSide(s) /\ Holds(room, to)
          /\ OtherSide(s) \subseteq Sockets
      BY <3>4, SidesOf, SeatedIs
    <3>6. CASE room.seat[s] # "seated" \/ to = None
      <4>1. room' = room
        BY <3>1, <3>4, <3>6 DEF Forward
      <4>2. ASSUME NEW h \in Hosts, NEW d \in Devices, Here(room, h), Here(room, d)
            PROVE  up'[h] = up[h] /\ up'[d] = up[d]
        BY <3>0, <3>5, <3>6, <4>2, SideOf DEF Here, Holds
      <4>3. Paired(room)'
        BY <3>0, <3>2, <4>1, <4>2 DEF Sound, Paired, Here, Holds, Engaged, On
      <4>4. Sound(room)'
        BY <3>0, <3>2, <4>1, <4>3
        DEF Sound, Closing, Told, In, Aware, LoneHost, Here, Engaged, Held, Alone, Holds
      <4>5. Fresh'
        BY <3>0, <3>2, <4>1 DEF RInv, Fresh
      <4> QED BY <3>3, <4>4, <4>5
    <3>7. CASE room.seat[s] = "seated" /\ to # None /\ peer[to] = "closed"
      <4>1. /\ room'.seat = room.seat /\ room'.open = room.open /\ room'.down = room.down
            /\ DOMAIN room' = DOMAIN room
        <5>1. room' = [room EXCEPT !.down[to] = room.down[to]]
          BY <3>1, <3>4, <3>7 DEF Forward, Queued
        <5>2. [room.down EXCEPT ![to] = room.down[to]] = room.down
          BY <3>2, <3>5, <3>7 DEF Held
        <5> QED BY <3>2, <5>1, <5>2 DEF Held
      <4>2. Holds(room, s)
        BY <3>2, <3>7 DEF Holds, Closing
      <4>3. ASSUME NEW h \in Hosts, NEW d \in Devices, Here(room, h), Here(room, d)
            PROVE  FALSE
        BY <3>2, <3>5, <3>7, <4>2, <4>3, SideOf DEF Here, Alone
      <4>4. Paired(room)'
        BY <3>0, <4>1, <4>3 DEF Paired, Here, Holds
      <4>5. Sound(room)'
        BY <3>0, <3>2, <4>1, <4>4
        DEF Sound, Closing, Told, In, Aware, LoneHost, Here, Engaged, Held, Alone, Holds
      <4>6. Fresh'
        BY <3>0, <3>2, <4>1 DEF RInv, Fresh
      <4> QED BY <3>3, <4>5, <4>6
    <3>8. CASE room.seat[s] = "seated" /\ to # None /\ peer[to] # "closed"
      <4>0. PICK before, after : before = room.down[to] /\ after = Append(room.down[to], f)
        OBVIOUS
      <4>1. /\ before \in Seq(Frames) /\ after \in Seq(Frames) /\ after = Append(before, f)
            /\ before = room.down[to] /\ to \in Sockets
        BY <2>1, <3>2, <3>5, <3>8, <4>0 DEF Held
      <4>2. room' = [room EXCEPT !.down[to] = after]
        BY <3>1, <3>4, <3>8, <4>0 DEF Forward, Queued
      <4>3. /\ Held(room') /\ room'.seat = room.seat /\ room'.open = room.open
            /\ room'.down[to] = after /\ \A r \in Sockets \ {to} : room'.down[r] = room.down[r]
        BY <3>2, <4>1, <4>2 DEF Held
      <4>4. /\ Unsaid(after) <=> Unsaid(before)
            /\ \A n : LastSays(before, n) => LastSays(after, n)
            /\ Dropped(after) <=> Dropped(before)
            /\ \A g : Has(after, g) <=> Has(before, g) \/ g = f
        <5>1. f.kind # "peers" /\ f \in Frames
          BY <2>1, <2>2
        <5>2. /\ Unsaid(after) <=> Unsaid(before)
              /\ \A n : LastSays(before, n) => LastSays(after, n)
              /\ \A g : Has(after, g) <=> Has(before, g) \/ g = f
          BY <4>1, <5>1, HeardMore
        <5>3. Dropped(after) <=> Dropped(before) \/ (f.kind = "peers" /\ f.n < 2)
          BY <4>1, <5>1, HeardMore
        <5> QED BY <5>1, <5>2, <5>3
      <4>5. /\ Holds(room, s) /\ Holds(room, to) /\ s # to
            /\ (s \in Hosts /\ to \in Devices) \/ (s \in Devices /\ to \in Hosts)
        <5>1. Holds(room, s) /\ Holds(room, to)
          BY <3>2, <3>5, <3>8 DEF Holds, Closing
        <5>2. (s \in Hosts /\ to \in Devices) \/ (s \in Devices /\ to \in Hosts)
          <6>1. to \in OtherSide(s) /\ (s \in Hosts \/ s \in Devices)
            BY <3>5, <3>8, SideOf
          <6>2. OtherSide(s) \in {Hosts, Devices} /\ (s \in Hosts => OtherSide(s) = Devices)
                /\ (s \in Devices => OtherSide(s) = Hosts)
            BY <6>1, SideOf
          <6> QED BY <6>1, <6>2
        <5> QED BY <5>1, <5>2, SideOf
      <4>6. /\ \A r \in Sockets : Holds(room', r) <=> Holds(room, r)
            /\ In(room') = In(room)
            /\ \A r \in Sockets : Here(room', r) <=> Here(room, r)
        BY <4>3 DEF Holds, In, Here
      <4>7. Alone(room') /\ Closing(room')
        <5>1. Alone(room')
          BY <3>2, <4>6 DEF Alone
        <5>2. Closing(room')
          BY <2>4, <3>2, <3>8, <4>1, <4>3, <4>4 DEF Closing
        <5> QED BY <5>1, <5>2
      <4>8. Told(room')
        BY <3>2, <4>1, <4>3, <4>4, <4>6 DEF Sound, Told, In
      <4>9. Aware(room')
        BY <3>2, <4>1, <4>3, <4>4, <4>6, SideOf DEF Sound, Aware
      <4>10. LoneHost(room')
        BY <4>5, <4>6, SideOf DEF LoneHost
      <4>11. ASSUME NEW h \in Hosts, NEW d \in Devices, Here(room', h), Here(room', d),
                    Engaged(d), ~Dropped(room'.down[d])
             PROVE  /\ LeadsTo(room'.down[h] \o up'[d], session[h], On(d))
                    /\ pending[d] # None =>
                          \/ Has(room'.down[h], Ask(pending[d])) \/ Has(up'[d], Ask(pending[d]))
                          \/ Has(up'[h], Accept(pending[d])) \/ Has(room'.down[d], Accept(pending[d]))
        <5>1. /\ Here(room, h) /\ Here(room, d) /\ h \in Sockets /\ d \in Sockets /\ h # d
              /\ (s = h /\ to = d) \/ (s = d /\ to = h)
          BY <3>2, <4>5, <4>6, <4>11, SideOf DEF Here, Alone
        <5>2. ~Dropped(room.down[d])
          BY <4>1, <4>3, <4>4, <4>11, <5>1
        <5>3. /\ LeadsTo(room.down[h] \o up[d], session[h], On(d))
              /\ pending[d] # None =>
                    \/ Has(room.down[h], Ask(pending[d])) \/ Has(up[d], Ask(pending[d]))
                    \/ Has(up[h], Accept(pending[d])) \/ Has(room.down[d], Accept(pending[d]))
          BY <3>2, <4>11, <5>1, <5>2 DEF Sound, Paired
        <5>4. CASE s = d /\ to = h
          <6>1. /\ room'.down[h] = after /\ up'[d] = q /\ room.down[h] = before
                /\ room'.down[d] = room.down[d] /\ up'[h] = up[h]
            BY <3>0, <4>1, <4>3, <5>1, <5>4
          <6>2. after \o q = before \o up[d]
            <7>1. PICK p \in Seq(Frames) : p = up[d] /\ p # <<>> /\ f = Head(p) /\ q = Tail(p)
              BY <2>1, <5>4
            <7>2. Append(before, Head(p)) \o Tail(p) = before \o p
              <8>1. p # <<>> /\ before \in Seq(Frames)
                BY <4>1, <7>1
              <8> QED BY <8>1, InTurn
            <7> QED BY <4>1, <7>1, <7>2
          <6> QED BY <2>2, <4>4, <5>3, <5>4, <6>1, <6>2
        <5>5. CASE s = h /\ to = d
          <6>1. /\ room'.down[d] = after /\ up'[h] = q /\ room.down[d] = before
                /\ room'.down[h] = room.down[h] /\ up'[d] = up[d]
            BY <3>0, <4>1, <4>3, <5>1, <5>5
          <6> QED BY <2>2, <4>4, <5>3, <5>5, <6>1
        <5> QED BY <5>1, <5>4, <5>5
      <4>12. Sound(room)'
        <5>1. Paired(room)'
          BY <3>0, <4>11 DEF Paired, Here, Holds, Engaged, On
        <5> QED
          BY <3>0, <4>3, <4>7, <4>8, <4>9, <4>10, <5>1
          DEF Sound, Closing, Told, In, Aware, LoneHost, Here, Engaged, Held, Alone, Holds
      <4>13. Fresh'
        <5>1. \A r \in Sockets : peer[r] = "new" => r # s /\ r # to
          BY <3>2, <4>5 DEF RInv, Fresh, Holds
        <5> QED BY <3>0, <4>3, <5>1 DEF RInv, Fresh
      <4> QED BY <3>3, <4>12, <4>13
    <3> QED BY <3>6, <3>7, <3>8
  <2> QED BY <2>3, <2>4
<1> QED BY <1>1, <1>2

-----------------------------------------------------------------------------
(* The ends' steps. *)

\* A peer leaves, of itself or because it was told to close.
LEMMA LeavesSound ==
    ASSUME RInv, NEW s \in Sockets, peer' = [peer EXCEPT ![s] = "closed"],
           pending' = [pending EXCEPT ![s] = None], session' = [session EXCEPT ![s] = None],
           up' = [up EXCEPT ![s] = Append(@, Close)],
           NEW q \in Seq(Frames), room' = [room EXCEPT !.down[s] = q],
           q = <<>> \/ room.seat[s] # "seated"
    PROVE  Sound(room)' /\ Fresh' /\ Upward'
<1>1. /\ peer'[s] = "closed" /\ pending'[s] = None /\ session'[s] = None
      /\ \A r \in Sockets \ {s} : /\ peer'[r] = peer[r] /\ pending'[r] = pending[r]
                                  /\ session'[r] = session[r] /\ up'[r] = up[r]
  BY InvParts
<1>2. /\ Held(room') /\ room'.seat = room.seat /\ room'.open = room.open
      /\ room'.down[s] = q /\ \A r \in Sockets \ {s} : room'.down[r] = room.down[r]
  BY InvParts DEF Held
<1>3. /\ \A r \in Sockets : Holds(room', r) <=> Holds(room, r)
      /\ In(room') = In(room)
      /\ \A r \in Sockets : Here(room, r)' => Here(room, r) /\ r # s
  BY <1>1, <1>2 DEF Holds, In, Here
<1>4. /\ \A r \in Sockets : ~Here(room, r)' => peer'[r] = "closed" \/ ~Holds(room', r)
      /\ \A r \in Sockets : Here(room, r)' <=> (Holds(room', r) /\ peer'[r] # "closed")
  BY DEF Here, Holds
<1>5. Alone(room')
  BY <1>3, InvParts DEF Alone
<1>6. Closing(room)'
  BY <1>1, <1>2, InvParts, EmptyIs DEF Closing
<1>7. Told(room)'
  <2>1. ASSUME NEW r \in In(room) PROVE LastSays(room'.down[r], Cardinality(In(room)))
    BY <1>2, EmptyIs, InvParts DEF Sound, Told, In, Holds
  <2>2. Told(room')
    BY <1>3, <2>1 DEF Told
  <2> QED BY <2>2 DEF Told, In, Holds
<1>8. Aware(room)'
  <2>1. ASSUME NEW d \in Devices, Here(room, d)', Unsaid(room'.down[d])
        PROVE  Engaged(d)' <=> \E h \in Hosts : Holds(room', h)
    <3>1. /\ Here(room, d) /\ d # s /\ d \in Sockets /\ pending'[d] = pending[d]
          /\ session'[d] = session[d] /\ room'.down[d] = room.down[d]
      BY <1>1, <1>2, <1>3, <2>1, SideOf
    <3>2. Engaged(d) <=> \E h \in Hosts : Holds(room, h)
      BY <2>1, <3>1 DEF RInv, Sound, Aware
    <3> QED BY <1>3, <3>1, <3>2, SideOf DEF Engaged
  <2> QED BY <2>1 DEF Aware, Holds
<1>9. Paired(room)'
  <2>1. ASSUME NEW h \in Hosts, NEW d \in Devices, Here(room, h)', Here(room, d)'
        PROVE  /\ Here(room, h) /\ Here(room, d)
               /\ room'.down[h] = room.down[h] /\ up'[h] = up[h] /\ session'[h] = session[h]
               /\ room'.down[d] = room.down[d] /\ up'[d] = up[d]
               /\ pending'[d] = pending[d] /\ session'[d] = session[d]
    BY <1>1, <1>2, <1>3, <2>1, SideOf
  <2> QED BY <2>1 DEF RInv, Sound, Paired, Engaged, On
<1>10. LoneHost(room)'
  <2>1. ASSUME NEW h \in Hosts, Here(room, h)', \A d \in Devices : ~Holds(room', d)
        PROVE  LeadsTo(room'.down[h], session'[h], None)
    BY <1>1, <1>2, <1>3, <2>1, SideOf DEF RInv, Sound, LoneHost
  <2> QED BY <2>1 DEF LoneHost, Holds
<1>11. Sound(room)'
  BY <1>2, <1>5, <1>6, <1>7, <1>8, <1>9, <1>10 DEF Sound, Held, Alone, Holds
<1>12. Fresh'
  BY <1>1, <1>2 DEF RInv, Fresh
<1>13. Upward'
  <2>1. PICK u : u = Append(up[s], Close)
    OBVIOUS
  <2>2. Unsaid(u)
    <3>1. Close.kind # "peers" /\ Close \in Frames /\ up[s] \in Seq(Frames)
      BY InvParts, FramesAre DEF Close
    <3> QED BY <2>1, <3>1, HeardMore DEF RInv, Upward
  <2>3. up'[s] = u
    BY <2>1, InvParts
  <2> QED BY <1>1, <2>2, <2>3 DEF RInv, Upward
<1> QED BY <1>11, <1>12, <1>13

\* A peer that stays reads a frame, or asks: what is to be shown for it is what
\* its own state says.
LEMMA StaysSound ==
    ASSUME RInv, NEW s \in Sockets, peer[s] = "open", peer' = peer,
           Held(room'), room'.seat = room.seat, room'.open = room.open,
           NEW q \in Seq(Frames), room'.down[s] = q,
           \A g : Has(q, g) => Has(room.down[s], g),
           \A n : LastSays(room.down[s], n) => LastSays(q, n),
           \A r \in Sockets \ {s} : /\ room'.down[r] = room.down[r] /\ up'[r] = up[r]
                                    /\ pending'[r] = pending[r] /\ session'[r] = session[r],
           Unsaid(up'[s]), ~Has(up'[s], Close), s \in Hosts => pending'[s] = None,
           s \in Devices /\ Here(room, s) /\ Unsaid(q) =>
              (pending'[s] # None \/ session'[s] # None <=> \E h \in Hosts : Holds(room, h)),
           \A h \in Hosts, d \in Devices :
              /\ s \in {h, d} /\ Here(room, h) /\ Here(room, d)
              /\ pending'[d] # None \/ session'[d] # None
              /\ ~Dropped(room'.down[d])
              => /\ LeadsTo(room'.down[h] \o up'[d], session'[h],
                            IF pending'[d] # None THEN pending'[d] ELSE session'[d])
                 /\ pending'[d] # None =>
                      \/ Has(room'.down[h], Ask(pending'[d])) \/ Has(up'[d], Ask(pending'[d]))
                      \/ Has(up'[h], Accept(pending'[d])) \/ Has(room'.down[d], Accept(pending'[d])),
           s \in Hosts /\ Here(room, s) /\ (\A d \in Devices : ~Holds(room, d)) =>
              LeadsTo(q, session'[s], None)
    PROVE  Sound(room)' /\ Fresh' /\ Upward'
<1>1. /\ \A r \in Sockets : Holds(room', r) <=> Holds(room, r)
      /\ In(room') = In(room)
      /\ \A r \in Sockets : Here(room, r)' <=> Here(room, r)
  BY DEF Holds, In, Here
<1>2. Alone(room')
  BY <1>1, InvParts DEF Alone
<1>3. Closing(room)'
  BY InvParts DEF Closing
<1>4. Told(room)'
  <2>1. ASSUME NEW r \in In(room) PROVE LastSays(room'.down[r], Cardinality(In(room)))
    BY DEF RInv, Sound, Told, In
  <2>2. Told(room')
    BY <1>1, <2>1 DEF Told
  <2> QED BY <2>2 DEF Told, In, Holds
<1>5. Aware(room)'
  <2>1. ASSUME NEW d \in Devices, Here(room, d)', Unsaid(room'.down[d])
        PROVE  Engaged(d)' <=> \E h \in Hosts : Holds(room', h)
    <3>1. CASE d = s
      BY <1>1, <2>1, <3>1, SideOf DEF Engaged
    <3>2. CASE d # s
      <4>1. /\ Here(room, d) /\ pending'[d] = pending[d]
            /\ session'[d] = session[d] /\ room'.down[d] = room.down[d]
        BY <1>1, <2>1, <3>2, SideOf
      <4>2. Engaged(d) <=> \E h \in Hosts : Holds(room, h)
        BY <2>1, <4>1 DEF RInv, Sound, Aware
      <4> QED BY <1>1, <4>1, <4>2, SideOf DEF Engaged
    <3> QED BY <3>1, <3>2
  <2> QED BY <2>1 DEF Aware, Holds
<1>6. Paired(room)'
  <2>1. ASSUME NEW h \in Hosts, NEW d \in Devices, Here(room, h)', Here(room, d)'
        PROVE  Here(room, h) /\ Here(room, d)
    BY <1>1, <2>1, SideOf
  <2>2. ASSUME NEW h \in Hosts, NEW d \in Devices, s \notin {h, d}
        PROVE  /\ room'.down[h] = room.down[h] /\ up'[h] = up[h] /\ session'[h] = session[h]
               /\ room'.down[d] = room.down[d] /\ up'[d] = up[d]
               /\ pending'[d] = pending[d] /\ session'[d] = session[d]
    BY <2>2, SideOf
  <2>3. ASSUME NEW h \in Hosts, NEW d \in Devices, Here(room, h)', Here(room, d)',
               Engaged(d)', ~Dropped(room'.down[d])
        PROVE  /\ LeadsTo(room'.down[h] \o up'[d], session'[h], On(d)')
               /\ pending'[d] # None =>
                    \/ Has(room'.down[h], Ask(pending'[d])) \/ Has(up'[d], Ask(pending'[d]))
                    \/ Has(up'[h], Accept(pending'[d])) \/ Has(room'.down[d], Accept(pending'[d]))
    <3>1. CASE s \in {h, d}
      BY <2>1, <2>3, <3>1 DEF Engaged, On
    <3>2. CASE s \notin {h, d}
      <4>1. Engaged(d) /\ ~Dropped(room.down[d]) /\ On(d)' = On(d)
        BY <2>2, <2>3, <3>2 DEF Engaged, On
      <4>2. /\ LeadsTo(room.down[h] \o up[d], session[h], On(d))
            /\ pending[d] # None =>
                  \/ Has(room.down[h], Ask(pending[d])) \/ Has(up[d], Ask(pending[d]))
                  \/ Has(up[h], Accept(pending[d])) \/ Has(room.down[d], Accept(pending[d]))
        BY <2>1, <2>3, <4>1 DEF RInv, Sound, Paired
      <4> QED BY <2>2, <3>2, <4>1, <4>2
    <3> QED BY <3>1, <3>2
  <2> QED BY <2>3 DEF Paired
<1>7. LoneHost(room)'
  <2>1. ASSUME NEW h \in Hosts, Here(room, h)', \A d \in Devices : ~Holds(room', d)
        PROVE  LeadsTo(room'.down[h], session'[h], None)
    <3>1. Here(room, h) /\ \A d \in Devices : ~Holds(room, d)
      BY <1>1, <2>1, SideOf
    <3> QED BY <2>1, <3>1, SideOf DEF RInv, Sound, LoneHost
  <2> QED BY <2>1 DEF LoneHost, Holds
<1>8. Sound(room)'
  BY <1>2, <1>3, <1>4, <1>5, <1>6, <1>7 DEF Sound, Held, Alone, Holds
<1>9. Fresh'
  BY DEF RInv, Fresh
<1>10. Upward'
  BY DEF RInv, Upward
<1> QED BY <1>8, <1>9, <1>10

LEMMA AppendUp ==
    ASSUME RInv, NEW s \in Sockets, NEW f \in Frames, f.kind # "peers", f # Close,
           peer[s] # "closed", up' = [up EXCEPT ![s] = Append(@, f)]
    PROVE  /\ up'[s] = Append(up[s], f) /\ up'[s] \in Seq(Frames)
           /\ \A r \in Sockets \ {s} : up'[r] = up[r]
           /\ Unsaid(up'[s]) /\ ~Has(up'[s], Close)
           /\ \A g : Has(up'[s], g) <=> Has(up[s], g) \/ g = f
<1>1. up[s] \in Seq(Frames) /\ Unsaid(up[s]) /\ ~Has(up[s], Close)
  BY InvParts DEF RInv, Upward
<1>2. PICK u, t : u = up[s] /\ t = Append(u, f)
  OBVIOUS
<1>3. up'[s] = t /\ \A r \in Sockets \ {s} : up'[r] = up[r]
  BY <1>2, InvParts
<1>4. t \in Seq(Frames) /\ Unsaid(t) /\ \A g : Has(t, g) <=> Has(u, g) \/ g = f
  <2>1. u \in Seq(Frames) /\ Unsaid(u) /\ t = Append(u, f)
    BY <1>1, <1>2
  <2>2. t \in Seq(Frames)
    BY <2>1, AppendIs
  <2>3. /\ f.kind # "peers" => (Unsaid(t) <=> Unsaid(u))
        /\ \A g : Has(t, g) <=> Has(u, g) \/ g = f
    BY <2>1, HeardMore
  <2> QED BY <2>1, <2>2, <2>3
<1> QED BY <1>1, <1>2, <1>3, <1>4

\* Reading leaves the room as it is, but for the frame that was read.
LEMMA ReadsRest ==
    ASSUME RInv, NEW s \in Sockets, Reads(s)
    PROVE  \E f \in Frames, q \in Seq(Frames) :
             /\ f = Head(room.down[s]) /\ q = Tail(room.down[s])
             /\ Held(room') /\ room'.seat = room.seat /\ room'.open = room.open
             /\ room'.down[s] = q /\ \A r \in Sockets \ {s} : room'.down[r] = room.down[r]
             /\ Unsaid(room.down[s]) <=> Unsaid(q) /\ f.kind # "peers"
             /\ \A n : LastSays(room.down[s], n) => LastSays(q, n)
             /\ \A n : LastSays(room.down[s], n) /\ Unsaid(q) /\ f.kind = "peers" => f.n = n
             /\ Dropped(room.down[s]) <=> Dropped(q) \/ (f.kind = "peers" /\ f.n < 2)
             /\ \A g : Has(room.down[s], g) <=> Has(q, g) \/ g = f
<1>1. PICK p \in Seq(Frames) : p = room.down[s]
  BY InvParts DEF Held
<1>2. p # <<>> /\ room' = [room EXCEPT !.down[s] = Tail(p)]
  BY <1>1 DEF Reads
<1>3. PICK f, q : f = Head(p) /\ q = Tail(p)
  OBVIOUS
<1>4. f \in Frames /\ q \in Seq(Frames)
  BY <1>2, <1>3, TailIs
<1>5. /\ Held(room') /\ room'.seat = room.seat /\ room'.open = room.open
      /\ room'.down[s] = q /\ \A r \in Sockets \ {s} : room'.down[r] = room.down[r]
  BY <1>2, <1>3, <1>4, InvParts DEF Held
<1>6. /\ Unsaid(p) <=> Unsaid(q) /\ f.kind # "peers"
      /\ \A n : LastSays(p, n) => LastSays(q, n)
      /\ \A n : LastSays(p, n) /\ Unsaid(q) /\ f.kind = "peers" => f.n = n
      /\ Dropped(p) <=> Dropped(q) \/ (f.kind = "peers" /\ f.n < 2)
      /\ \A g : Has(p, g) <=> Has(q, g) \/ g = f
  BY <1>2, <1>3, HeardFirst
<1> QED BY <1>1, <1>3, <1>4, <1>5, <1>6

\* What a phone that reads the last it was told learns: whether a daemon is there.
LEMMA LastHeard ==
    ASSUME RInv, NEW d \in Devices, Here(room, d), NEW n, LastSays(room.down[d], Cardinality(In(room))) => n = Cardinality(In(room))
    PROVE  /\ n \in Nat
           /\ n > 1 <=> \E h \in Hosts : Holds(room, h)
<1>1. d \in In(room) /\ d \in Sockets /\ Holds(room, d)
  BY SideOf DEF Here, In
<1>2. n = Cardinality(In(room))
  BY <1>1 DEF RInv, Sound, Told
<1>3. CASE \E h \in Hosts : Holds(room, h)
  BY <1>1, <1>2, <1>3, InIs, InvParts
<1>4. CASE \A h \in Hosts : ~Holds(room, h)
  <2>1. \A r \in OtherSide(d) : ~Holds(room, r)
    BY <1>4, SideOf
  <2>2. n = 1
    BY <1>1, <1>2, <2>1, InIs, InvParts
  <2> QED BY <1>4, <2>2
<1> QED BY <1>3, <1>4

\* A request is the last the daemon is to read of the phone.
LEMMA AskedLast ==
    ASSUME RInv, NEW h \in Hosts, NEW d \in Devices, NEW a \in Asks,
           NEW u, u = Append(up[d], Ask(a))
    PROVE  LeadsTo(room.down[h] \o u, session[h], a)
<1>1. /\ room.down[h] \in Seq(Frames) /\ up[d] \in Seq(Frames) /\ Ask(a) \in Frames
  BY SideOf, InvParts, FramesAre DEF Held
<1>2. PICK q, f : q = room.down[h] \o up[d] /\ f = Ask(a)
  OBVIOUS
<1>3. q \in Seq(Frames) /\ f \in Frames /\ room.down[h] \o u = Append(q, f)
  <2>1. PICK b \in Seq(Frames), c \in Seq(Frames) : b = room.down[h] /\ c = up[d]
    BY <1>1
  <2>2. b \o c \in Seq(Frames) /\ b \o Append(c, f) = Append(b \o c, f)
    BY <1>1, <1>2, InTurn
  <2> QED BY <1>1, <1>2, <2>1, <2>2
<1>4. Tells(f) /\ f.ask = a
  BY <1>2 DEF Tells, Ask
<1>5. PICK t : t = Append(q, f)
  OBVIOUS
<1>6. \A now : LeadsTo(t, now, f.ask)
  BY <1>3, <1>4, <1>5, HeardMore
<1>7. room.down[h] \o u = t
  BY <1>3, <1>5
<1> QED BY <1>4, <1>6, <1>7

LEMMA AsksAgain ==
    ASSUME RInv, NEW s \in Sockets, AskAgain(s)
    PROVE  Sound(room)' /\ Fresh' /\ Upward'
<1>1. PICK a : a = <<s, asked[s] + 1>>
  OBVIOUS
<1>2. /\ s \in Devices /\ peer[s] = "open" /\ pending[s] # None
      /\ pending' = [pending EXCEPT ![s] = a] /\ up' = [up EXCEPT ![s] = Append(@, Ask(a))]
      /\ room' = room /\ peer' = peer /\ session' = session
  BY <1>1 DEF AskAgain, Send
<1>3. a \in Asks /\ a # None
  BY <1>1, <1>2, InvParts, RoomAssumption DEF Asks
<1>4. pending'[s] = a /\ \A r \in Sockets \ {s} : pending'[r] = pending[r]
  BY <1>2, InvParts
<1>5. Ask(a) \in Frames /\ Ask(a).kind # "peers" /\ Ask(a) # Close
  BY <1>3, FramesAre DEF Ask, Close
<1>6. /\ up'[s] = Append(up[s], Ask(a)) /\ \A r \in Sockets \ {s} : up'[r] = up[r]
      /\ Unsaid(up'[s]) /\ ~Has(up'[s], Close) /\ Has(up'[s], Ask(a))
  BY <1>2, <1>5, AppendUp
<1>7. s \notin Hosts
  BY <1>2, SideOf
<1>8. s \in Devices /\ Here(room, s) /\ Unsaid(room.down[s]) => \E h \in Hosts : Holds(room, h)
  BY <1>2 DEF RInv, Sound, Aware, Engaged
<1>9. ASSUME NEW h \in Hosts PROVE LeadsTo(room.down[h] \o up'[s], session[h], a)
  BY <1>2, <1>3, <1>6, AskedLast
<1>10. ASSUME NEW h \in Hosts, NEW d \in Devices, s \in {h, d} PROVE d = s
  BY <1>7, <1>10
<1>11. room.down[s] \in Seq(Frames) /\ Held(room)
  BY InvParts DEF Held
<1>12. PICK q \in Seq(Frames) : q = room.down[s]
  BY <1>11
<1> QED
  BY <1>2, <1>3, <1>4, <1>6, <1>7, <1>8, <1>9, <1>10, <1>11, <1>12, StaysSound

LEMMA PhoneReads ==
    ASSUME RInv, NEW s \in Devices, Reads(s), Head(room.down[s]) # Close,
           DeviceReads(s, Head(room.down[s])), peer' = peer
    PROVE  Sound(room)' /\ Fresh' /\ Upward'
<1>0. s \in Sockets /\ s \notin Hosts /\ peer[s] = "open"
  BY SideOf DEF Reads
<1>1. PICK f \in Frames, q \in Seq(Frames) :
         /\ f = Head(room.down[s]) /\ q = Tail(room.down[s])
         /\ Held(room') /\ room'.seat = room.seat /\ room'.open = room.open
         /\ room'.down[s] = q /\ \A r \in Sockets \ {s} : room'.down[r] = room.down[r]
         /\ Unsaid(room.down[s]) <=> Unsaid(q) /\ f.kind # "peers"
         /\ \A n : LastSays(room.down[s], n) => LastSays(q, n)
         /\ \A n : LastSays(room.down[s], n) /\ Unsaid(q) /\ f.kind = "peers" => f.n = n
         /\ Dropped(room.down[s]) <=> Dropped(q) \/ (f.kind = "peers" /\ f.n < 2)
         /\ \A g : Has(room.down[s], g) <=> Has(q, g) \/ g = f
  BY <1>0, ReadsRest
<1>2. /\ f.kind \in {"peers", "ask", "accept", "close"} /\ f.n \in 0..2
      /\ f.ask # None <=> f.kind \in {"ask", "accept"}
  BY DEF Frames
<1>3. DeviceReads(s, f)
  BY <1>1
<1>4. Unsaid(up[s]) /\ ~Has(up[s], Close)
  BY <1>0 DEF RInv, Upward
<1>5. ASSUME NEW h \in Hosts, NEW d \in Devices, s \in {h, d} PROVE d = s
  BY <1>0, <1>5
<1>6. ASSUME NEW h \in Hosts, Here(room, h), Here(room, s), Engaged(s), ~Dropped(room.down[s])
      PROVE  /\ LeadsTo(room.down[h] \o up[s], session[h], On(s))
             /\ pending[s] # None =>
                   \/ Has(room.down[h], Ask(pending[s])) \/ Has(up[s], Ask(pending[s]))
                   \/ Has(up[h], Accept(pending[s])) \/ Has(room.down[s], Accept(pending[s]))
  BY <1>6 DEF RInv, Sound, Paired
<1>7. ASSUME Here(room, s), Unsaid(q), f.kind = "peers"
      PROVE  f.n > 1 <=> \E h \in Hosts : Holds(room, h)
  BY <1>1, <1>7, LastHeard
<1>8. ASSUME Here(room, s), Unsaid(q), f.kind # "peers"
      PROVE  Engaged(s) <=> \E h \in Hosts : Holds(room, h)
  BY <1>1, <1>8 DEF RInv, Sound, Aware
<1>9. CASE /\ f.kind = "peers" /\ f.n > 1 /\ pending[s] = None /\ session[s] = None
           /\ pending' = [pending EXCEPT ![s] = <<s, asked[s] + 1>>]
           /\ up' = [up EXCEPT ![s] = Append(@, Ask(<<s, asked[s] + 1>>))]
           /\ session' = session
  <2>1. PICK a : a = <<s, asked[s] + 1>>
    OBVIOUS
  <2>2. a \in Asks /\ a # None
    BY <1>0, <2>1, InvParts, RoomAssumption DEF Asks
  <2>3. pending'[s] = a /\ \A r \in Sockets \ {s} : pending'[r] = pending[r]
    BY <1>0, <1>9, <2>1, InvParts
  <2>4. Ask(a) \in Frames /\ Ask(a).kind # "peers" /\ Ask(a) # Close
    BY <2>2, FramesAre DEF Ask, Close
  <2>5. up' = [up EXCEPT ![s] = Append(@, Ask(a))]
    BY <1>9, <2>1
  <2>6. /\ up'[s] = Append(up[s], Ask(a)) /\ \A r \in Sockets \ {s} : up'[r] = up[r]
        /\ Unsaid(up'[s]) /\ ~Has(up'[s], Close) /\ Has(up'[s], Ask(a))
    BY <1>0, <2>4, <2>5, AppendUp
  <2>7. ASSUME NEW h \in Hosts PROVE LeadsTo(room.down[h] \o up'[s], session[h], a)
    BY <2>2, <2>6, AskedLast
  <2>8. \A h \in Hosts : room'.down[h] = room.down[h] /\ session'[h] = session[h]
    BY <1>0, <1>1, <1>9, SideOf
  <2>9. Here(room, s) /\ Unsaid(q) =>
           (pending'[s] # None \/ session'[s] # None <=> \E h \in Hosts : Holds(room, h))
    BY <1>7, <1>9, <2>2, <2>3
  <2>10. ASSUME NEW h \in Hosts, NEW d \in Devices, s \in {h, d}
         PROVE  /\ LeadsTo(room'.down[h] \o up'[d], session'[h],
                           IF pending'[d] # None THEN pending'[d] ELSE session'[d])
                /\ Has(up'[d], Ask(pending'[d]))
    BY <1>5, <2>2, <2>3, <2>6, <2>7, <2>8, <2>10
  <2>11. \A r \in Sockets \ {s} : session'[r] = session[r]
    BY <1>9
  <2> QED BY ZenonT(60), <1>0, <1>1, <2>3, <2>6, <2>9, <2>10, <2>11, StaysSound
<1>10. CASE f.kind = "peers" /\ f.n < 2 /\ up' = up
            /\ pending' = [pending EXCEPT ![s] = None] /\ session' = [session EXCEPT ![s] = None]
  <2>1. /\ pending'[s] = None /\ session'[s] = None
        /\ \A r \in Sockets \ {s} : pending'[r] = pending[r] /\ session'[r] = session[r]
    BY <1>0, <1>10, InvParts
  <2>2. Here(room, s) /\ Unsaid(q) => \A h \in Hosts : ~Holds(room, h)
    BY <1>2, <1>7, <1>10
  <2>3. \A r \in Sockets \ {s} : up'[r] = up[r]
    BY <1>10
  <2>4. Unsaid(up'[s]) /\ ~Has(up'[s], Close)
    BY <1>4, <1>10
  <2> QED BY <1>0, <1>1, <1>5, <2>1, <2>2, <2>3, <2>4, StaysSound
<1>11. CASE f.kind = "accept" /\ f.ask = pending[s] /\ up' = up
            /\ pending' = [pending EXCEPT ![s] = None] /\ session' = [session EXCEPT ![s] = f.ask]
  <2>1. /\ pending'[s] = None /\ session'[s] = f.ask /\ f.ask # None
        /\ \A r \in Sockets \ {s} : pending'[r] = pending[r] /\ session'[r] = session[r]
    BY <1>0, <1>2, <1>11, InvParts
  <2>2. Engaged(s) /\ On(s) = f.ask /\ (~Dropped(q) => ~Dropped(room.down[s])) /\ f.kind # "peers"
    BY <1>1, <1>11, <2>1 DEF Engaged, On
  <2>3. Here(room, s) /\ Unsaid(q) => \E h \in Hosts : Holds(room, h)
    BY <1>8, <2>2
  <2>4. /\ \A r \in Sockets \ {s} : up'[r] = up[r]
        /\ \A h \in Hosts : room'.down[h] = room.down[h] /\ session'[h] = session[h] /\ h # s
    BY <1>0, <1>1, <1>11, <2>1, SideOf
  <2>5. Unsaid(up'[s]) /\ ~Has(up'[s], Close)
    BY <1>4, <1>11
  <2>6. ASSUME NEW h \in Hosts, NEW d \in Devices, s \in {h, d}, Here(room, h), Here(room, d),
               ~Dropped(room'.down[d])
        PROVE  /\ LeadsTo(room'.down[h] \o up'[d], session'[h],
                          IF pending'[d] # None THEN pending'[d] ELSE session'[d])
               /\ pending'[d] = None
    <3>1. d = s /\ ~Dropped(room.down[s])
      BY <1>1, <1>5, <2>2, <2>6
    <3>2. LeadsTo(room.down[h] \o up[s], session[h], f.ask)
      BY <1>6, <2>2, <2>6, <3>1
    <3> QED BY <1>11, <2>1, <2>4, <3>1, <3>2
  <2> QED BY <1>0, <1>1, <2>1, <2>3, <2>4, <2>5, <2>6, StaysSound
<1>12. CASE /\ f.kind = "peers" \/ ~(f.kind = "accept" /\ f.ask = pending[s])
            /\ f.kind = "peers" => f.n > 1 /\ Engaged(s)
            /\ up' = up /\ pending' = pending /\ session' = session
  <2>1. Here(room, s) /\ Unsaid(q) => (Engaged(s) <=> \E h \in Hosts : Holds(room, h))
    BY <1>7, <1>8, <1>12
  <2>2. (~Dropped(q) => ~Dropped(room.down[s])) /\ f # Accept(pending[s])
    BY <1>1, <1>2, <1>12 DEF Accept
  <2>3. /\ \A h \in Hosts : room'.down[h] = room.down[h] /\ h # s
        /\ Unsaid(up'[s]) /\ ~Has(up'[s], Close)
    BY <1>0, <1>1, <1>4, <1>12, SideOf
  <2>4. ASSUME NEW h \in Hosts, NEW d \in Devices, s \in {h, d}, Here(room, h), Here(room, d),
               pending'[d] # None \/ session'[d] # None, ~Dropped(room'.down[d])
        PROVE  /\ LeadsTo(room'.down[h] \o up'[d], session'[h],
                          IF pending'[d] # None THEN pending'[d] ELSE session'[d])
               /\ pending'[d] # None =>
                    \/ Has(room'.down[h], Ask(pending'[d])) \/ Has(up'[d], Ask(pending'[d]))
                    \/ Has(up'[h], Accept(pending'[d])) \/ Has(room'.down[d], Accept(pending'[d]))
    <3>1. d = s /\ ~Dropped(room.down[s]) /\ Engaged(s)
      BY <1>1, <1>5, <1>12, <2>2, <2>4 DEF Engaged
    <3>2. /\ LeadsTo(room.down[h] \o up[s], session[h], On(s))
          /\ pending[s] # None =>
                \/ Has(room.down[h], Ask(pending[s])) \/ Has(up[s], Ask(pending[s]))
                \/ Has(up[h], Accept(pending[s])) \/ Has(room.down[s], Accept(pending[s]))
      BY <1>6, <2>4, <3>1
    <3>3. Has(room.down[s], Accept(pending[s])) => Has(q, Accept(pending[s]))
      BY <1>1, <2>2
    <3> QED BY <1>1, <1>12, <2>3, <3>1, <3>2, <3>3 DEF On
  <2>5. Here(room, s) /\ Unsaid(q) =>
           (pending'[s] # None \/ session'[s] # None <=> \E h \in Hosts : Holds(room, h))
    BY <1>12, <2>1 DEF Engaged
  <2>6. \A r \in Sockets \ {s} : up'[r] = up[r] /\ pending'[r] = pending[r] /\ session'[r] = session[r]
    BY <1>12
  <2>7. /\ Held(room') /\ room'.seat = room.seat /\ room'.open = room.open
        /\ room'.down[s] = q /\ \A r \in Sockets \ {s} : room'.down[r] = room.down[r]
        /\ \A n : LastSays(room.down[s], n) => LastSays(q, n)
        /\ \A g : Has(q, g) => Has(room.down[s], g)
    BY <1>1
  <2> QED BY <1>0, <2>3, <2>4, <2>5, <2>6, <2>7, StaysSound
<1>13. f.n < 2 \/ f.n > 1
  BY <1>2
<1> QED
  BY <1>3, <1>9, <1>10, <1>11, <1>12, <1>13 DEF DeviceReads, Answers, Send, ends, Engaged

LEMMA DaemonReads ==
    ASSUME RInv, NEW s \in Hosts, Reads(s), Head(room.down[s]) # Close,
           HostReads(s, Head(room.down[s])), peer' = peer
    PROVE  Sound(room)' /\ Fresh' /\ Upward'
<1>0. s \in Sockets /\ s \notin Devices /\ peer[s] = "open"
  BY SideOf DEF Reads
<1>1. PICK f \in Frames, q \in Seq(Frames) :
         /\ f = Head(room.down[s]) /\ q = Tail(room.down[s])
         /\ Held(room') /\ room'.seat = room.seat /\ room'.open = room.open
         /\ room'.down[s] = q /\ \A r \in Sockets \ {s} : room'.down[r] = room.down[r]
         /\ Unsaid(room.down[s]) <=> Unsaid(q) /\ f.kind # "peers"
         /\ \A n : LastSays(room.down[s], n) => LastSays(q, n)
         /\ \A n : LastSays(room.down[s], n) /\ Unsaid(q) /\ f.kind = "peers" => f.n = n
         /\ Dropped(room.down[s]) <=> Dropped(q) \/ (f.kind = "peers" /\ f.n < 2)
         /\ \A g : Has(room.down[s], g) <=> Has(q, g) \/ g = f
  BY <1>0, ReadsRest
<1>2. /\ f.kind \in {"peers", "ask", "accept", "close"} /\ f.n \in 0..2
      /\ f.ask # None <=> f.kind \in {"ask", "accept"}
      /\ f.ask \in Asks \cup {None}
  BY DEF Frames
<1>3. HostReads(s, f)
  BY <1>1
<1>4. Unsaid(up[s]) /\ ~Has(up[s], Close) /\ pending[s] = None
  BY <1>0 DEF RInv, Upward
<1>5. PICK p \in Seq(Frames) : p = room.down[s] /\ p # <<>> /\ f = Head(p) /\ q = Tail(p)
  BY <1>0, <1>1, InvParts DEF Held, Reads
<1>6. /\ \A r \in Sockets \ {s} : up'[r] = up[r] /\ session'[r] = session[r]
      /\ \A r \in Sockets : pending'[r] = pending[r]
      /\ Unsaid(up'[s]) /\ ~Has(up'[s], Close)
      /\ \A g : Has(up[s], g) => Has(up'[s], g)
      /\ f.kind = "ask" => Has(up'[s], Accept(f.ask))
      /\ session'[s] = IF Tells(f) THEN f.ask ELSE session[s]
  <2>1. CASE f.kind = "ask"
    <3>1. /\ session' = [session EXCEPT ![s] = f.ask] /\ pending' = pending
          /\ up' = [up EXCEPT ![s] = Append(@, Accept(f.ask))]
      BY <1>3, <2>1 DEF HostReads, Send
    <3>2. Accept(f.ask) \in Frames /\ Accept(f.ask).kind # "peers" /\ Accept(f.ask) # Close
      BY <1>2, <2>1, FramesAre DEF Accept, Close
    <3>3. /\ \A r \in Sockets \ {s} : up'[r] = up[r]
          /\ Unsaid(up'[s]) /\ ~Has(up'[s], Close)
          /\ \A g : Has(up'[s], g) <=> Has(up[s], g) \/ g = Accept(f.ask)
      BY <1>0, <3>1, <3>2, AppendUp
    <3>4. session'[s] = f.ask /\ \A r \in Sockets \ {s} : session'[r] = session[r]
      BY <1>0, <3>1, InvParts
    <3> QED BY <2>1, <3>1, <3>3, <3>4 DEF Tells
  <2>2. CASE f.kind = "peers"
    <3>1. /\ session' = IF f.n > 1 THEN session ELSE [session EXCEPT ![s] = None]
          /\ up' = up /\ pending' = pending
      BY <1>3, <2>2 DEF HostReads
    <3>2. f.ask = None /\ (Tells(f) <=> ~(f.n > 1))
      BY <1>2, <2>2 DEF Tells
    <3>3. /\ session'[s] = IF f.n > 1 THEN session[s] ELSE None
          /\ \A r \in Sockets \ {s} : session'[r] = session[r]
      BY <1>0, <3>1, InvParts
    <3> QED BY <1>4, <2>2, <3>1, <3>2, <3>3
  <2>3. CASE f.kind = "accept"
    <3>1. up' = up /\ session' = session /\ pending' = pending /\ ~Tells(f)
      BY <1>3, <2>3 DEF HostReads, ends, Tells
    <3> QED BY <1>4, <2>3, <3>1
  <2> QED BY <1>3, <2>1, <2>2, <2>3 DEF HostReads
<1>7. ASSUME NEW v, LeadsTo(p, session[s], v)
      PROVE  LeadsTo(q, session'[s], v)
  <2>1. CASE Tells(f)
    BY <1>5, <1>6, <1>7, <2>1, HeardFirst
  <2>2. CASE ~Tells(f)
    BY <1>5, <1>6, <1>7, <2>2, HeardFirst
  <2> QED BY <2>1, <2>2
<1>8. Here(room, s) /\ (\A d \in Devices : ~Holds(room, d)) => LeadsTo(q, session'[s], None)
  BY <1>5, <1>7 DEF RInv, Sound, LoneHost
<1>9. ASSUME NEW h \in Hosts, NEW d \in Devices, s \in {h, d}, Here(room, h), Here(room, d),
             pending'[d] # None \/ session'[d] # None, ~Dropped(room'.down[d])
      PROVE  /\ LeadsTo(room'.down[h] \o up'[d], session'[h],
                        IF pending'[d] # None THEN pending'[d] ELSE session'[d])
             /\ pending'[d] # None =>
                  \/ Has(room'.down[h], Ask(pending'[d])) \/ Has(up'[d], Ask(pending'[d]))
                  \/ Has(up'[h], Accept(pending'[d])) \/ Has(room'.down[d], Accept(pending'[d]))
  <2>1. /\ h = s /\ d \in Sockets /\ d # s
        /\ pending'[d] = pending[d] /\ session'[d] = session[d] /\ up'[d] = up[d]
        /\ room'.down[d] = room.down[d]
    BY <1>0, <1>1, <1>6, <1>9, SideOf
  <2>2. Engaged(d) /\ ~Dropped(room.down[d])
    BY <1>9, <2>1 DEF Engaged
  <2>3. /\ LeadsTo(room.down[s] \o up[d], session[s], On(d))
        /\ pending[d] # None =>
              \/ Has(room.down[s], Ask(pending[d])) \/ Has(up[d], Ask(pending[d]))
              \/ Has(up[s], Accept(pending[d])) \/ Has(room.down[d], Accept(pending[d]))
    BY <1>9, <2>1, <2>2 DEF RInv, Sound, Paired
  <2>4. PICK b \in Seq(Frames) : b = up[d]
    BY <2>1, InvParts
  <2>5. /\ p \o b \in Seq(Frames) /\ p \o b # <<>>
        /\ Head(p \o b) = f /\ Tail(p \o b) = q \o b
    BY ZenonT(60), <1>5, <2>4, InTurn
  <2>6. PICK w \in Seq(Frames) : w = p \o b /\ w # <<>> /\ f = Head(w) /\ q \o b = Tail(w)
    BY <2>5
  <2>7. PICK x : x = q \o b /\ x = Tail(w)
    BY <2>6
  <2>8. LeadsTo(x, session'[s], On(d))
    <3>1. PICK now, on : now = session[s] /\ on = On(d)
      OBVIOUS
    <3>2. LeadsTo(w, now, on)
      BY <1>5, <2>3, <2>4, <2>6, <3>1
    <3>3. /\ Tells(f) => LeadsTo(x, f.ask, on)
          /\ ~Tells(f) => LeadsTo(x, now, on)
      BY <2>6, <2>7, <3>2, HeardFirst
    <3> QED BY <1>6, <3>1, <3>3
  <2>9. pending[d] # None =>
           \/ Has(q, Ask(pending[d])) \/ Has(up[d], Ask(pending[d]))
           \/ Has(up'[s], Accept(pending[d])) \/ Has(room.down[d], Accept(pending[d]))
    <3>1. ASSUME Ask(pending[d]) = f PROVE f.kind = "ask" /\ f.ask = pending[d]
      BY <3>1 DEF Ask
    <3> QED BY <1>1, <1>6, <2>3, <3>1
  <2> QED BY <1>1, <2>1, <2>4, <2>7, <2>8, <2>9 DEF On
<1>10. /\ Held(room') /\ room'.seat = room.seat /\ room'.open = room.open
       /\ room'.down[s] = q /\ \A r \in Sockets \ {s} : room'.down[r] = room.down[r]
       /\ \A n : LastSays(room.down[s], n) => LastSays(q, n)
       /\ \A g : Has(q, g) => Has(room.down[s], g)
  BY <1>1
<1>11. /\ \A r \in Sockets \ {s} : /\ up'[r] = up[r] /\ session'[r] = session[r]
                                   /\ pending'[r] = pending[r]
       /\ Unsaid(up'[s]) /\ ~Has(up'[s], Close) /\ pending'[s] = None
  BY <1>0, <1>4, <1>6
<1> QED BY <1>0, <1>8, <1>9, <1>10, <1>11, StaysSound

LEMMA EndsSound ==
    ASSUME RInv, NEW s \in Sockets, Reads(s) \/ AskAgain(s) \/ Leave(s)
    PROVE  Sound(room)' /\ Fresh' /\ Upward'
<1>1. CASE Leave(s)
  <2>1. <<>> \in Seq(Frames)
    BY EmptySeq
  <2> QED BY <1>1, <2>1, LeavesSound DEF Leave, Send
<1>2. CASE Reads(s)
  <2>1. CASE Head(room.down[s]) = Close
    <3>1. PICK f \in Frames, q \in Seq(Frames) :
             /\ f = Head(room.down[s]) /\ q = Tail(room.down[s])
             /\ \A g : Has(room.down[s], g) <=> Has(q, g) \/ g = f
      BY <1>2, ReadsRest
    <3>2. room.seat[s] # "seated"
      BY <2>1, <3>1, InvParts DEF Closing
    <3>3. ReadsClose(s) /\ room' = [room EXCEPT !.down[s] = q]
      BY <1>2, <2>1, <3>1 DEF Reads
    <3> QED BY <3>2, <3>3, LeavesSound DEF ReadsClose, Send
  <2>2. CASE Head(room.down[s]) # Close
    BY <1>2, <2>2, PhoneReads, DaemonReads DEF Reads
  <2> QED BY <2>1, <2>2
<1> QED BY <1>1, <1>2, AsksAgain

\* The same, together with both ends of every session: what is on its way brings them together.
THEOREM RoomInvariant == Spec => []RInv
<1>1. RInv /\ [Next]_vars => RInv'
  <2> SUFFICES ASSUME RInv, [Next]_vars PROVE RInv'
    OBVIOUS
  <2>1. CASE UNCHANGED vars
    <3>1. room' = room /\ up' = up /\ peer' = peer /\ asked' = asked /\ pending' = pending /\ session' = session
      BY <2>1 DEF vars, ends
    <3> QED BY ZenonT(60), <3>1 DEF RInv, IInv, TypeOK, OnePerSide, Fresh, Upward, Sound, Closing, Told, In, Aware,
                        Paired, LoneHost, Here, Engaged, On, Held, Alone, Holds
  <2>2. ASSUME NEW s \in Sockets, Step(s) PROVE RInv'
    <3>1. IInv'
      BY <2>2, JoinStep, RoomSteps, EndSteps DEF RInv, Step
    <3>2. Sound(room)' /\ Fresh' /\ Upward'
      BY <2>2, JoinSound, ArrivesSound, EndsSound DEF Step
    <3> QED BY <3>1, <3>2 DEF RInv
  <2> QED BY <2>1, <2>2 DEF Next
<1> QED BY <1>1, InvInit, PTL DEF Spec

LEMMA RightlyTold == RInv => ToldRight
BY DEF RInv, Sound, Told, In, ToldRight

LEMMA RightlyGreeted == RInv => GreetedAsOne
<1> SUFFICES ASSUME RInv PROVE GreetedAsOne
  OBVIOUS
<1>0. \A s \in Sockets : Quiet(s) => Here(room, s) /\ Holds(room, s) /\ up[s] = <<>> /\ room.down[s] = <<>>
  BY DEF Quiet, Here
<1>1. ASSUME NEW d \in Devices, Quiet(d)
      PROVE  Engaged(d) <=> \E h \in Hosts : Holds(room, h)
  BY <1>0, <1>1, SideOf, EmptyIs DEF RInv, Sound, Aware
<1>2. ASSUME NEW h \in Hosts, NEW d \in Devices, Quiet(h), Quiet(d)
      PROVE  session[d] # None /\ session[h] = session[d]
  <2>1. /\ Here(room, h) /\ Here(room, d) /\ Holds(room, h)
        /\ room.down[h] = <<>> /\ room.down[d] = <<>> /\ up[d] = <<>> /\ up[h] = <<>>
    BY <1>0, <1>2, SideOf
  <2>2. Engaged(d) /\ ~Dropped(room.down[d])
    BY <1>1, <1>2, <2>1, EmptyIs
  <2>3. /\ LeadsTo(room.down[h] \o up[d], session[h], On(d))
        /\ pending[d] # None =>
              \/ Has(room.down[h], Ask(pending[d])) \/ Has(up[d], Ask(pending[d]))
              \/ Has(up[h], Accept(pending[d])) \/ Has(room.down[d], Accept(pending[d]))
    BY <2>1, <2>2 DEF RInv, Sound, Paired
  <2>4. pending[d] = None /\ On(d) = session[d] /\ session[d] # None
    BY <2>1, <2>2, <2>3, EmptyIs DEF On, Engaged
  <2>5. <<>> \o <<>> = <<>>
    BY ConcatEmptySeq, EmptySeq
  <2>6. LeadsTo(<<>>, session[h], session[d])
    BY <2>1, <2>3, <2>4, <2>5
  <2>7. session[h] = session[d]
    BY <2>6 DEF LeadsTo
  <2> QED BY <2>4, <2>7
<1>3. ASSUME NEW s \in Sockets, Quiet(s), Seated(room, OtherSide(s)) = None
      PROVE  session[s] = None /\ pending[s] = None
  <2>1. \A r \in OtherSide(s) : ~Holds(room, r)
    BY <1>3, SidesOf, SeatedIs
  <2>2. CASE s \in Devices
    BY <1>1, <1>3, <2>1, <2>2, SideOf DEF Engaged
  <2>3. CASE s \in Hosts
    <3>1. LeadsTo(<<>>, session[s], None)
      BY <1>0, <1>3, <2>1, <2>3, SideOf DEF RInv, Sound, LoneHost
    <3>2. session[s] = None
      BY <3>1 DEF LeadsTo
    <3> QED BY <2>3, <3>2 DEF RInv, Upward
  <2> QED BY <2>2, <2>3, SideOf
<1> QED BY <1>2, <1>3 DEF GreetedAsOne

\* The presence a seated peer hears last is how many are seated now, however
\* many sockets came and went before, and whenever their ends are noticed.
THEOREM PresenceToldRight == Spec => []ToldRight
BY RoomInvariant, RightlyTold, PTL

\* A daemon and a phone that are in the room and have read everything are on
\* one session, and one that is alone in it is on none: for any number of
\* sockets, requests repeated any number of times and any order of arrival.
THEOREM PeersGreetedAsOne == Spec => []GreetedAsOne
BY RoomInvariant, RightlyGreeted, PTL
=============================================================================
