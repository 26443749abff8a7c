-------------------------- MODULE SecureLinkProofs --------------------------
(***************************************************************************)
(* What holds of module SecureLink for any number of sessions, messages    *)
(* and deliveries.                                                         *)
(*                                                                         *)
(* The argument: a side's contribution is fresh, so no frame exists yet of *)
(* a session that has not begun (UpInv, DownInv); the queue keeps a        *)
(* session's messages behind its answer (QueueInv); and whatever a device  *)
(* can still take, of the session it is on or of the one it waits for, was *)
(* queued after all that it has taken (GotInv).                            *)
(***************************************************************************)
EXTENDS SecureLink, SequenceTheorems, TLAPS

\* The device's side: its requests, and the frames it sealed.
UpInv ==
    /\ pending \in {0, asked}
    /\ \A d \in opens : d \in 1..asked
    /\ keys # None => pending = 0 /\ keys[1] = asked /\ keys[1] # 0
    /\ pending # 0 => keys = None /\ dSent = 0 /\ dSeen = 0
    /\ \A f \in up :
        /\ f.session[1] \in 1..asked
        /\ f.session[1] # pending
        /\ f.message <= dCount
        /\ f.session = keys => f.counter <= dSent
    /\ \A f, g \in up : f.session = g.session =>
        /\ f.counter < g.counter => f.message < g.message
        /\ f.counter = g.counter => f = g

\* A session is ahead of neither side's contributions, of which there have been a and h.
Known(s, a, h) == s[1] <= a /\ s[2] <= h

NumberInv ==
    /\ \A s \in accepts : Known(s, asked, answered)
    /\ keys # None => Known(keys, asked, answered)
    /\ receive # None => Known(receive.session, asked, answered)
    /\ send # None => Known(send.session, asked, answered)
    /\ \A f \in up : Known(f.session, asked, answered)
    /\ \A f \in down : Known(f.session, asked, answered)
    /\ \A i \in 1..Len(queue) : queue[i].start => Known(queue[i].session, asked, answered)

\* A message at place k of a queue will be sealed in session s or not at all: s is the session of
\* the last answer ahead of it, and with none ahead the one that is on.
SealedIn(q, on, k, s) ==
    /\ \A i \in 1..(k - 1) :
        q[i].start /\ (\A m \in (i + 1)..(k - 1) : ~q[m].start) => q[i].session = s
    /\ (\A i \in 1..(k - 1) : ~q[i].start) => on = None \/ on.session = s

\* The host's queue.  What is for one client will be sealed in its session, and what is queued for
\* the client of now would be; answers and messages are in the order they were made, after all that
\* has been sealed.
QueueInv ==
    /\ \A k \in 1..Len(queue) : ~queue[k].start =>
        /\ queue[k].session # None => SealedIn(queue, send, k, queue[k].session)
        /\ queue[k].message <= hCount
    /\ receive # None => SealedIn(queue, send, Len(queue) + 1, receive.session)
    /\ \A i, j \in 1..Len(queue) : i < j =>
        /\ queue[i].start /\ queue[j].start => queue[i].session[2] < queue[j].session[2]
        /\ ~queue[i].start /\ ~queue[j].start => queue[i].message < queue[j].message
    /\ \A i \in 1..Len(queue) : queue[i].start =>
        /\ send # None => send.session[2] < queue[i].session[2]
        /\ \A f \in down : f.session[2] < queue[i].session[2]

\* The frames the host sealed.
DownInv ==
    /\ \A f \in down :
        /\ f.for # None => f.for = f.session
        /\ f.message <= hCount
        /\ send # None => (f.session = send.session => f.counter <= send.counter)
        /\ \A i \in 1..Len(queue) : ~queue[i].start => f.message < queue[i].message
    /\ \A f, g \in down : f.session = g.session =>
        /\ f.counter < g.counter => f.message < g.message
        /\ f.counter = g.counter => f = g

\* A frame of the host's that the device could still take, in its session or in the one it waits
\* for.
Awaited(f) ==
    \/ f.session = keys /\ f.counter > dSeen
    \/ pending # 0 /\ f.session[1] = pending

\* What each side has taken is behind all that it could still take.
GotInv ==
    /\ Increasing(hGot)
    /\ \A i \in 1..Len(hGot) : hGot[i] <= dCount
    /\ receive # None => \A f \in up : f.session = receive.session /\ f.counter > receive.counter
                            => \A i \in 1..Len(hGot) : hGot[i] < f.message
    /\ Increasing(dGot)
    /\ \A i \in 1..Len(dGot) :
        /\ dGot[i] <= hCount
        /\ \A k \in 1..Len(queue) : ~queue[k].start => dGot[i] < queue[k].message
    /\ \A f \in down : Awaited(f) => \A i \in 1..Len(dGot) : dGot[i] < f.message

IInv == TypeOK /\ UpInv /\ NumberInv /\ QueueInv /\ DownInv /\ GotInv

-----------------------------------------------------------------------------
LEMMA AppendFacts ==
    ASSUME NEW S, NEW q \in Seq(S), NEW e \in S
    PROVE  /\ Append(q, e) \in Seq(S)
           /\ Len(q) \in Nat
           /\ Len(Append(q, e)) = Len(q) + 1
           /\ \A i \in 1..Len(q) : Append(q, e)[i] = q[i] /\ q[i] \in S
           /\ Append(q, e)[Len(q) + 1] = e
           /\ Append(q, e) # <<>>
           /\ q = <<>> <=> Len(q) = 0
BY AppendProperties, LenProperties, EmptySeq, ElementOfSeq

LEMMA TailFacts ==
    ASSUME NEW S, NEW q \in Seq(S), q # <<>>
    PROVE  /\ Tail(q) \in Seq(S)
           /\ Len(q) \in Nat \ {0}
           /\ Len(Tail(q)) = Len(q) - 1
           /\ \A i \in 1..Len(q) - 1 : Tail(q)[i] = q[i + 1]
           /\ \A i \in 1..Len(q) : q[i] \in S
           /\ Head(q) = q[1]
           /\ Tail(q) = <<>> <=> Len(q) = 1
<1>1. Len(q) \in Nat \ {0} /\ \A i \in 1..Len(q) : q[i] \in S
  BY EmptySeq, ElementOfSeq
<1>2. /\ Tail(q) \in Seq(S) /\ Len(Tail(q)) = Len(q) - 1
      /\ \A i \in 1..Len(q) - 1 : Tail(q)[i] = q[i + 1]
  BY HeadTailProperties
<1> DEFINE t == Tail(q)
<1>3. t \in Seq(S) /\ Len(t) = Len(q) - 1
  BY <1>2
<1> HIDE DEF t
<1>4. t = <<>> <=> Len(q) = 1
  BY <1>1, <1>3, EmptySeq
<1> QED BY <1>1, <1>2, <1>4 DEF t

\* A message later than all that were taken keeps them in order.
LEMMA IncreasingAppend ==
    ASSUME NEW q \in Seq(Nat), Increasing(q), NEW n \in Nat,
           \A i \in 1..Len(q) : q[i] < n
    PROVE  Increasing(Append(q, n))
BY SMTT(30), AppendFacts DEF Increasing

LEMMA InitInv == Init => IInv
<1> SUFFICES ASSUME Init PROVE IInv
  OBVIOUS
<1> USE DEF Init
<1>1. TypeOK
  BY EmptySeq DEF TypeOK
<1>2. UpInv
  BY DEF UpInv
<1>3. NumberInv
  BY DEF NumberInv
<1>4. QueueInv
  BY DEF QueueInv, SealedIn
<1>5. DownInv /\ GotInv
  BY DEF DownInv, GotInv, Awaited, Increasing
<1> QED BY <1>1, <1>2, <1>3, <1>4, <1>5 DEF IInv

-----------------------------------------------------------------------------
LEMMA AskInv == IInv /\ Ask => IInv'
<1> SUFFICES ASSUME IInv, Ask PROVE IInv'
  OBVIOUS
<1> USE DEF IInv, Ask, host
<1>1. TypeOK'
  BY DEF TypeOK
<1>2. UpInv'
  <2>1. \A f \in up : f.session[1] \in 1..asked' /\ f.session[1] # pending'
    BY DEF UpInv, TypeOK
  <2>2. \A f \in up : f.session # keys
    BY SecureLinkAssumption DEF TypeOK, UpFrames, Sessions
  <2>3. pending' \in {0, asked'} /\ \A d \in opens' : d \in 1..asked'
    <3>1. asked \in Nat /\ \A d \in opens : d \in 1..asked
      BY DEF UpInv, TypeOK
    <3>2. pending' = asked' /\ asked' = asked + 1 /\ opens' = opens \cup {asked'}
      OBVIOUS
    <3>3. \A d \in 1..asked : d \in 1..(asked + 1)
      BY <3>1
    <3>4. asked + 1 \in 1..(asked + 1)
      BY <3>1
    <3> QED BY <3>1, <3>2, <3>3, <3>4
  <2> QED BY <2>1, <2>2, <2>3 DEF UpInv
<1>3. \A s \in Sessions : Known(s, asked, answered) => Known(s, asked', answered')
  BY DEF Known, TypeOK, Sessions
<1>4. NumberInv'
  <2>1. \A i \in 1..Len(queue) : queue[i] \in Queued
    BY ElementOfSeq DEF TypeOK
  <2>2. \A i \in 1..Len(queue) : queue[i].start => queue[i].session \in Sessions
    BY <2>1 DEF Queued
  <2>3. /\ receive # None => receive.session \in Sessions
        /\ send # None => send.session \in Sessions
    BY DEF TypeOK, Halves
  <2>4. (\A f \in up : f.session \in Sessions) /\ (\A f \in down : f.session \in Sessions)
    BY DEF TypeOK, UpFrames, DownFrames
  <2>5. accepts \subseteq Sessions
    BY DEF TypeOK
  <2> QED BY <1>3, <2>2, <2>3, <2>4, <2>5 DEF NumberInv
<1>5. QueueInv' /\ DownInv'
  BY DEF QueueInv, SealedIn, DownInv
<1>6. \A f \in down : ~Awaited(f)'
  <2>1. \A f \in down : f.session # None /\ f.session[1] \in Nat /\ f.session[1] <= asked
    BY SecureLinkAssumption DEF TypeOK, DownFrames, Sessions, NumberInv, Known
  <2>2. asked \in Nat
    BY DEF TypeOK
  <2> QED BY <2>1, <2>2 DEF Awaited
<1>7. GotInv'
  BY <1>6 DEF GotInv, Increasing
<1> QED BY <1>1, <1>2, <1>4, <1>5, <1>7

LEMMA AcceptedInv == ASSUME IInv, NEW s \in accepts, Accepted(s) PROVE IInv'
<1> USE DEF IInv, Accepted, host, net
<1>1. TypeOK'
  BY DEF TypeOK
<1>2. \A f \in up : f.session # s
  BY DEF UpInv
<1>3. UpInv'
  BY <1>2 DEF UpInv, TypeOK, UpFrames, Sessions
<1>4. NumberInv' /\ QueueInv' /\ DownInv'
  BY DEF NumberInv, Known, QueueInv, SealedIn, DownInv
<1>5. \A f \in down : Awaited(f)' => Awaited(f)
  BY DEF Awaited
<1>6. GotInv'
  BY <1>5 DEF GotInv, Increasing
<1> QED BY <1>1, <1>3, <1>4, <1>6

LEMMA SealInv == IInv /\ Seal => IInv'
<1> SUFFICES ASSUME IInv, Seal PROVE IInv'
  OBVIOUS
<1> DEFINE f0 == [session |-> keys, counter |-> dSent + 1, message |-> dCount + 1]
<1> USE DEF IInv
<1>1. /\ f0 \in UpFrames /\ up' = up \cup {f0} /\ dSent' = dSent + 1 /\ dCount' = dCount + 1
      /\ f0.session = keys /\ f0.counter = dSent + 1 /\ f0.message = dCount + 1
      /\ UNCHANGED <<asked, pending, keys, dSeen, dGot, host, opens, accepts, down>>
      /\ keys # None /\ keys \in Sessions
  BY DEF Seal, TypeOK, UpFrames
<1> HIDE DEF f0
<1>2. TypeOK'
  BY <1>1 DEF TypeOK, host
<1>3. UpInv'
  BY SMTT(30), <1>1 DEF UpInv, TypeOK, UpFrames, Sessions
<1>4. NumberInv'
  BY <1>1 DEF NumberInv, Known, host
<1>5. QueueInv' /\ DownInv'
  BY <1>1 DEF QueueInv, SealedIn, DownInv, host
<1>6. GotInv'
  <2>1. \A i \in 1..Len(hGot) : hGot[i] \in Nat /\ hGot[i] <= dCount
    BY ElementOfSeq DEF GotInv, TypeOK
  <2>2. \A i \in 1..Len(hGot) : hGot[i] <= dCount + 1 /\ hGot[i] < f0.message
    BY <1>1, <2>1 DEF TypeOK
  <2> QED BY <1>1, <2>2 DEF GotInv, Awaited, Increasing, host
<1> QED BY <1>2, <1>3, <1>4, <1>5, <1>6

LEMMA DeviceReceiveInv == ASSUME IInv, NEW f \in down, DeviceReceive(f) PROVE IInv'
<1> USE DEF IInv
<1>1. /\ f.session = keys /\ f.counter > dSeen /\ f \in DownFrames
      /\ dSeen' = f.counter /\ dGot' = Append(dGot, f.message) /\ f.message \in Nat
      /\ UNCHANGED <<asked, pending, keys, dSent, dCount, host, net>>
  BY DEF DeviceReceive, Past, TypeOK, DownFrames
<1>2. keys # None
  BY <1>1, SecureLinkAssumption DEF DownFrames, Sessions
<1>3. TypeOK'
  BY <1>1, AppendFacts DEF TypeOK, host, net, DownFrames
<1>4. UpInv' /\ NumberInv' /\ QueueInv' /\ DownInv'
  BY <1>1, <1>2 DEF UpInv, NumberInv, Known, QueueInv, SealedIn, DownInv, host, net
<1>5. \A i \in 1..Len(dGot) : dGot[i] < f.message
  BY <1>1 DEF GotInv, Awaited
<1>6. Increasing(dGot)'
  BY <1>1, <1>5, IncreasingAppend DEF GotInv, TypeOK
<1>7. \A i \in 1..Len(dGot') : (i \in 1..Len(dGot) /\ dGot'[i] = dGot[i]) \/ dGot'[i] = f.message
  <2>1. dGot \in Seq(Nat)
    BY DEF TypeOK
  <2>2. /\ Len(dGot) \in Nat /\ Len(dGot') = Len(dGot) + 1
        /\ \A i \in 1..Len(dGot) : dGot'[i] = dGot[i]
        /\ dGot'[Len(dGot) + 1] = f.message
    BY <1>1, <2>1, AppendFacts
  <2>3. \A n \in Nat : \A i \in 1..(n + 1) : i \in 1..n \/ i = n + 1
    OBVIOUS
  <2> QED BY <2>2, <2>3
<1>8. \A i \in 1..Len(dGot') : /\ dGot'[i] <= hCount
                               /\ \A k \in 1..Len(queue) : ~queue[k].start
                                        => dGot'[i] < queue[k].message
  BY <1>7 DEF GotInv, DownInv
<1>9. \A g \in down : Awaited(g)' => \A i \in 1..Len(dGot') : dGot'[i] < g.message
  <2> SUFFICES ASSUME NEW g \in down, g.session = keys, g.counter > f.counter,
                      NEW i \in 1..Len(dGot')
               PROVE  dGot'[i] < g.message
    BY <1>1, <1>2 DEF Awaited, UpInv
  <2>1. g \in DownFrames /\ dSeen \in Nat
    BY DEF TypeOK
  <2>2. f.counter < g.counter /\ g.counter > dSeen
    BY <1>1, <2>1 DEF DownFrames
  <2>3. f.message < g.message
    BY <1>1, <2>2 DEF DownInv
  <2>4. \A j \in 1..Len(dGot) : dGot[j] < g.message
    BY <2>2 DEF GotInv, Awaited
  <2> QED BY <2>3, <2>4, <1>7
<1>10. GotInv'
  BY <1>1, <1>6, <1>8, <1>9 DEF GotInv, host, net
<1> QED BY <1>3, <1>4, <1>10

LEMMA EndInv == IInv /\ End => IInv'
<1> SUFFICES ASSUME IInv, End PROVE IInv'
  OBVIOUS
<1> USE DEF IInv, End, host, net
<1>1. TypeOK'
  BY DEF TypeOK
<1>2. UpInv'
  BY SecureLinkAssumption DEF UpInv, TypeOK, UpFrames, Sessions
<1>3. NumberInv' /\ QueueInv' /\ DownInv'
  BY DEF NumberInv, Known, QueueInv, SealedIn, DownInv
<1>4. \A f \in down : ~Awaited(f)'
  BY SecureLinkAssumption DEF Awaited, TypeOK, DownFrames, Sessions
<1>5. GotInv'
  BY <1>4 DEF GotInv, Increasing
<1> QED BY <1>1, <1>2, <1>3, <1>5

-----------------------------------------------------------------------------
LEMMA AcceptInv == ASSUME IInv, NEW d \in opens, Accept(d) PROVE IInv'
<1> DEFINE s == <<d, answered + 1>>
           e == Answer(s)
           n == Len(queue)
<1> USE DEF IInv
<1>1. /\ receive' = [session |-> s, counter |-> 0]
      /\ queue' = Append(queue, e)
  BY DEF Accept, Contribution
<1>2. /\ answered' = answered + 1 /\ ready' = FALSE /\ present' = TRUE
      /\ UNCHANGED <<send, telling, hCount, hGot>>
      /\ UNCHANGED <<asked, pending, keys, dSent, dSeen, dCount, dGot>>
      /\ UNCHANGED <<opens, accepts, up, down>>
  BY DEF Accept, Contribution, SendsUntilBegun, device, net
<1>3. /\ s \in Sessions /\ s[2] = answered + 1
      /\ s[1] \in Nat /\ s[1] <= asked /\ asked \in Nat /\ answered \in Nat
  BY DEF TypeOK, Sessions, UpInv
<1> HIDE DEF s
<1>4. e \in Queued /\ e.start /\ e.session = s
  BY <1>3 DEF Answer, Queued
<1> HIDE DEF e
<1>5. receive' \in Halves /\ receive'.session = s /\ receive'.counter = 0 /\ receive' # None
  BY <1>1, <1>3, SecureLinkAssumption DEF Halves, Sessions
<1>6. /\ queue' \in Seq(Queued) /\ n \in Nat /\ Len(queue') = n + 1 /\ queue' # <<>>
      /\ \A i \in 1..n : queue'[i] = queue[i] /\ queue[i] \in Queued
      /\ queue'[n + 1] = e
  <2>1. queue \in Seq(Queued)
    BY DEF TypeOK
  <2> QED BY <1>1, <1>4, <2>1, AppendFacts
<1> HIDE DEF n
<1>7. \A i \in 1..(n + 1) : i \in 1..n \/ i = n + 1
  <2>1. n \in Nat
    BY <1>6
  <2> QED BY <2>1
<1>8. \A x \in Sessions : Known(x, asked, answered) => x[2] < s[2] /\ Known(x, asked', answered')
  BY <1>2, <1>3 DEF Known, Sessions
<1>9. /\ \A f \in up : f.session \in Sessions /\ Known(f.session, asked, answered)
      /\ \A f \in down : f.session \in Sessions /\ Known(f.session, asked, answered)
      /\ \A i \in 1..n : queue[i].start =>
          queue[i].session \in Sessions /\ Known(queue[i].session, asked, answered)
      /\ send # None => send.session \in Sessions /\ Known(send.session, asked, answered)
      /\ keys # None => keys \in Sessions /\ Known(keys, asked, answered)
      /\ \A x \in accepts : x \in Sessions /\ Known(x, asked, answered)
  <2>1. \A i \in 1..n : queue[i].start => queue[i].session \in Sessions
    BY <1>6 DEF Queued
  <2>2. send # None => send.session \in Sessions
    BY DEF TypeOK, Halves
  <2>3. /\ \A f \in up : f.session \in Sessions
        /\ \A f \in down : f.session \in Sessions
        /\ \A x \in accepts : x \in Sessions
        /\ keys # None => keys \in Sessions
    BY DEF TypeOK, UpFrames, DownFrames
  <2> QED BY <2>1, <2>2, <2>3 DEF NumberInv, n
<1>10. TypeOK'
  <2>1. answered' \in Nat
    BY <1>2, <1>3
  <2>2. ready' \in BOOLEAN /\ present' \in BOOLEAN
    BY <1>2
  <2> QED BY <1>2, <1>5, <1>6, <2>1, <2>2 DEF TypeOK
<1>11. UpInv' /\ DownInv'
  <2>1. UpInv'
    BY <1>2 DEF UpInv
  <2>2. \A f \in down : \A i \in 1..(n + 1) : ~queue'[i].start => f.message < queue'[i].message
    BY <1>4, <1>6, <1>7 DEF DownInv, n
  <2> QED BY <2>1, <2>2, <1>2, <1>6 DEF DownInv
<1>12. NumberInv'
  <2>1. Known(s, asked', answered')
    BY <1>2, <1>3 DEF Known
  <2>2. \A i \in 1..(n + 1) : queue'[i].start => Known(queue'[i].session, asked', answered')
    BY <1>4, <1>6, <1>7, <1>8, <1>9, <2>1
  <2> QED BY <1>2, <1>5, <1>6, <1>8, <1>9, <2>1, <2>2 DEF NumberInv
<1>13. QueueInv'
  <2>1. ASSUME NEW k \in 1..(n + 1), ~queue'[k].start
        PROVE  /\ queue'[k].session # None => SealedIn(queue', send', k, queue'[k].session)
               /\ queue'[k].message <= hCount
    <3>1. k \in 1..n /\ queue'[k] = queue[k] /\ \A i \in 1..(k - 1) : i \in 1..n
      BY <1>4, <1>6, <1>7, <2>1
    <3>2. \A i \in 1..(k - 1) : \A m \in (i + 1)..(k - 1) : m \in 1..n
      BY <1>6, <3>1
    <3>3. queue[k].session # None => SealedIn(queue, send, k, queue[k].session)
      BY <2>1, <3>1 DEF QueueInv, n
    <3>4. queue[k].session # None => SealedIn(queue', send', k, queue[k].session)
      BY <1>2, <1>6, <3>1, <3>2, <3>3 DEF SealedIn
    <3> QED BY <2>1, <3>1, <3>4 DEF QueueInv, n
  <2>2. SealedIn(queue', send', n + 2, s)
    <3>1. (n + 2) - 1 = n + 1 /\ n + 1 \in 1..(n + 1)
      BY <1>6
    <3>2. \A i \in 1..n : n + 1 \in (i + 1)..(n + 1)
      BY <1>6
    <3> QED BY <1>4, <1>6, <1>7, <3>1, <3>2 DEF SealedIn
  <2>3. ASSUME NEW i \in 1..(n + 1), NEW j \in 1..(n + 1), i < j
        PROVE  /\ queue'[i].start /\ queue'[j].start => queue'[i].session[2] < queue'[j].session[2]
               /\ ~queue'[i].start /\ ~queue'[j].start => queue'[i].message < queue'[j].message
    <3>1. i \in 1..n /\ queue'[i] = queue[i]
      BY <1>6, <1>7, <2>3
    <3>2. CASE j \in 1..n
      BY <3>1, <3>2, <1>6, <2>3 DEF QueueInv, n
    <3>3. CASE j = n + 1
      BY <3>1, <3>3, <1>4, <1>6, <1>8, <1>9
    <3> QED BY <3>2, <3>3, <1>7
  <2>4. \A i \in 1..(n + 1) : queue'[i].start =>
            /\ send # None => send.session[2] < queue'[i].session[2]
            /\ \A f \in down : f.session[2] < queue'[i].session[2]
    BY <1>4, <1>6, <1>7, <1>8, <1>9 DEF QueueInv, n
  <2>5. Len(queue') + 1 = n + 2
    BY <1>6
  <2> QED BY <1>2, <1>5, <1>6, <2>1, <2>2, <2>3, <2>4, <2>5 DEF QueueInv
<1>14. GotInv'
  <2>1. \A f \in up : f.session # s
    BY <1>3, <1>8, <1>9
  <2>2. \A i \in 1..Len(dGot) : \A k \in 1..(n + 1) : ~queue'[k].start
            => dGot[i] < queue'[k].message
    BY <1>4, <1>6, <1>7 DEF GotInv, n
  <2> QED BY <1>2, <1>5, <1>6, <2>1, <2>2 DEF GotInv, Awaited, Increasing
<1> QED BY <1>10, <1>11, <1>12, <1>13, <1>14

LEMMA HostReceiveInv == ASSUME IInv, NEW f \in up, HostReceive(f) PROVE IInv'
<1> USE DEF IInv
<1>1. /\ receive # None /\ receive \in Halves /\ f.session = receive.session
      /\ f.counter > receive.counter /\ f \in UpFrames /\ f.message \in Nat
      /\ receive' = [receive EXCEPT !.counter = f.counter]
      /\ receive'.session = receive.session /\ receive'.counter = f.counter
      /\ receive' \in Halves /\ receive' # None
      /\ hGot' = Append(hGot, f.message)
      /\ ready' \in BOOLEAN /\ present' = TRUE
      /\ UNCHANGED <<answered, send, queue, telling, hCount, device, net>>
  BY SecureLinkAssumption DEF HostReceive, Past, TypeOK, UpFrames, Halves, Sessions
<1>2. TypeOK'
  BY <1>1, AppendFacts DEF TypeOK, device, net
<1>3. UpInv' /\ NumberInv' /\ DownInv'
  BY <1>1 DEF UpInv, NumberInv, Known, DownInv, device, net
<1>4. QueueInv'
  BY <1>1 DEF QueueInv, SealedIn, net
<1>5. \A i \in 1..Len(hGot) : hGot[i] < f.message
  BY <1>1 DEF GotInv
<1>6. Increasing(hGot)'
  BY <1>1, <1>5, IncreasingAppend DEF GotInv, TypeOK
<1>7. \A i \in 1..Len(hGot') : (i \in 1..Len(hGot) /\ hGot'[i] = hGot[i]) \/ hGot'[i] = f.message
  <2>1. hGot \in Seq(Nat)
    BY DEF TypeOK
  <2>2. /\ Len(hGot) \in Nat /\ Len(hGot') = Len(hGot) + 1
        /\ \A i \in 1..Len(hGot) : hGot'[i] = hGot[i]
        /\ hGot'[Len(hGot) + 1] = f.message
    BY <1>1, <2>1, AppendFacts
  <2>3. \A n \in Nat : \A i \in 1..(n + 1) : i \in 1..n \/ i = n + 1
    OBVIOUS
  <2> QED BY <2>2, <2>3
<1>8. \A i \in 1..Len(hGot') : hGot'[i] <= dCount
  <2>1. f.message <= dCount /\ \A i \in 1..Len(hGot) : hGot[i] <= dCount
    BY DEF GotInv, UpInv
  <2> QED BY <1>7, <2>1
<1>9. \A g \in up : g.session = receive.session /\ g.counter > f.counter
            => \A i \in 1..Len(hGot') : hGot'[i] < g.message
  <2> SUFFICES ASSUME NEW g \in up, g.session = receive.session, g.counter > f.counter,
                      NEW i \in 1..Len(hGot')
               PROVE  hGot'[i] < g.message
    OBVIOUS
  <2>1. g \in UpFrames /\ receive.counter \in Nat
    BY <1>1 DEF TypeOK, Halves
  <2>2. f.counter < g.counter /\ g.counter > receive.counter
    BY <1>1, <2>1 DEF UpFrames
  <2>3. f.message < g.message
    BY <1>1, <2>2 DEF UpInv
  <2>4. \A j \in 1..Len(hGot) : hGot[j] < g.message
    BY <1>1, <2>2 DEF GotInv
  <2> QED BY <2>3, <2>4, <1>7
<1>10. GotInv'
  BY <1>1, <1>6, <1>8, <1>9 DEF GotInv, Awaited, device, net
<1> QED BY <1>2, <1>3, <1>4, <1>10

\* A message joins the queue, for the client that is there or for whoever is.
LEMMA EnqueueInv ==
    ASSUME IInv, NEW x, x = None \/ (receive # None /\ x = receive.session), Enqueue(x),
           telling' \in BOOLEAN
    PROVE  IInv'
<1> DEFINE e == Message(x, hCount + 1)
           n == Len(queue)
<1> USE DEF IInv
<1>1. queue' = Append(queue, e)
  BY DEF Enqueue
<1>2. /\ hCount' = hCount + 1
      /\ UNCHANGED <<answered, receive, send, ready, present, hGot>>
      /\ UNCHANGED <<asked, pending, keys, dSent, dSeen, dCount, dGot>>
      /\ UNCHANGED <<opens, accepts, up, down>>
  BY DEF Enqueue, device, net
<1>3. x \in Sessions \cup {None} /\ hCount \in Nat
  BY DEF TypeOK, Halves
<1>4. e \in Queued /\ ~e.start /\ e.session = x /\ e.message = hCount + 1
  BY <1>3 DEF Message, Queued
<1> HIDE DEF e
<1>5. /\ queue' \in Seq(Queued) /\ n \in Nat /\ Len(queue') = n + 1 /\ queue' # <<>>
      /\ \A i \in 1..n : queue'[i] = queue[i] /\ queue[i] \in Queued
      /\ queue'[n + 1] = e
  <2>1. queue \in Seq(Queued)
    BY DEF TypeOK
  <2> QED BY <1>1, <1>4, <2>1, AppendFacts
<1> HIDE DEF n
<1>6. \A i \in 1..(n + 1) : i \in 1..n \/ i = n + 1
  <2>1. n \in Nat
    BY <1>5
  <2> QED BY <2>1
<1>7. TypeOK'
  <2>1. hCount' \in Nat
    BY <1>2, <1>3
  <2> QED BY <1>2, <1>5, <2>1 DEF TypeOK
<1>8. UpInv'
  BY <1>2 DEF UpInv
<1>9. NumberInv'
  <2>1. \A i \in 1..(n + 1) : queue'[i].start => Known(queue'[i].session, asked, answered)
    BY <1>4, <1>5, <1>6 DEF NumberInv, n
  <2> QED BY <1>2, <1>5, <2>1 DEF NumberInv, Known
<1>10. DownInv'
  <2>1. \A f \in down : f.message \in Nat /\ f.message <= hCount
    BY DEF DownInv, TypeOK, DownFrames
  <2>2. \A f \in down : f.message <= hCount + 1
    BY <1>3, <2>1
  <2>3. \A f \in down : \A i \in 1..(n + 1) : ~queue'[i].start => f.message < queue'[i].message
    BY <1>3, <1>4, <1>5, <1>6, <2>1 DEF DownInv, n
  <2> QED BY <1>2, <1>5, <2>2, <2>3 DEF DownInv
<1>11. QueueInv'
  <2>1. ASSUME NEW k \in 1..(n + 1), NEW s
        PROVE  SealedIn(queue', send', k, s) <=> SealedIn(queue, send, k, s)
    <3>1. \A i \in 1..(k - 1) : i \in 1..n /\ \A m \in (i + 1)..(k - 1) : m \in 1..n
      BY <1>5, <2>1
    <3> QED BY <1>2, <1>5, <3>1 DEF SealedIn
  <2>2. receive # None => SealedIn(queue, send, n + 1, receive.session)
    BY DEF QueueInv, n
  <2>3. ASSUME NEW k \in 1..(n + 1), ~queue'[k].start
        PROVE  /\ queue'[k].session # None => SealedIn(queue', send', k, queue'[k].session)
               /\ queue'[k].message <= hCount + 1
    <3>1. CASE k \in 1..n
      <4>1. queue'[k] = queue[k]
        BY <1>5, <3>1
      <4>2. queue[k].message <= hCount /\ queue[k].message \in Nat
        <5>1. queue[k] \in Queued /\ ~queue[k].start
          BY <1>5, <2>3, <3>1, <4>1
        <5> QED BY <3>1, <5>1 DEF QueueInv, n, Queued
      <4>3. queue[k].message <= hCount + 1
        BY <1>3, <4>2
      <4>4. queue[k].session # None => SealedIn(queue, send, k, queue[k].session)
        BY <2>3, <3>1, <4>1 DEF QueueInv, n
      <4> QED BY <2>1, <4>1, <4>3, <4>4
    <3>2. CASE k = n + 1
      BY <1>3, <1>4, <1>5, <2>1, <2>2, <3>2
    <3> QED BY <3>1, <3>2, <1>6
  <2>4. receive # None => SealedIn(queue', send', n + 2, receive.session)
    <3> SUFFICES ASSUME receive # None PROVE SealedIn(queue', send', n + 2, receive.session)
      OBVIOUS
    <3>1. (n + 2) - 1 = n + 1 /\ (n + 1) - 1 = n /\ n \in Nat
      BY <1>5
    <3>2. SealedIn(queue, send, n + 1, receive.session)
      BY <2>2
    <3>3. ASSUME NEW i \in 1..(n + 1), queue'[i].start,
                 \A m \in (i + 1)..(n + 1) : ~queue'[m].start
          PROVE  queue'[i].session = receive.session
      <4>1. i \in 1..n /\ queue'[i] = queue[i]
        BY <1>4, <1>5, <1>6, <3>3
      <4>2. \A m \in (i + 1)..n : m \in 1..n /\ m \in (i + 1)..(n + 1) /\ queue'[m] = queue[m]
        BY <1>5, <4>1
      <4> QED BY <3>1, <3>2, <3>3, <4>1, <4>2 DEF SealedIn
    <3>4. ASSUME \A i \in 1..(n + 1) : ~queue'[i].start
          PROVE  send = None \/ send.session = receive.session
      <4>1. \A i \in 1..n : i \in 1..(n + 1) /\ queue'[i] = queue[i]
        BY <1>5
      <4> QED BY <3>1, <3>2, <3>4, <4>1 DEF SealedIn
    <3> QED BY <1>2, <3>1, <3>3, <3>4 DEF SealedIn
  <2>5. ASSUME NEW i \in 1..(n + 1), NEW j \in 1..(n + 1), i < j
        PROVE  /\ queue'[i].start /\ queue'[j].start => queue'[i].session[2] < queue'[j].session[2]
               /\ ~queue'[i].start /\ ~queue'[j].start => queue'[i].message < queue'[j].message
    <3>1. i \in 1..n /\ queue'[i] = queue[i] /\ (~queue[i].start => queue[i].message \in Nat)
      <4>1. i \in 1..n
        BY <1>5, <1>6, <2>5
      <4>2. queue'[i] = queue[i] /\ queue[i] \in Queued
        BY <1>5, <4>1
      <4> QED BY <4>1, <4>2 DEF Queued
    <3>2. CASE j \in 1..n
      BY <3>1, <3>2, <1>5, <2>5 DEF QueueInv, n
    <3>3. CASE j = n + 1
      <4>1. ~queue[i].start => queue[i].message <= hCount
        BY <3>1 DEF QueueInv, n
      <4> QED BY <3>1, <3>3, <4>1, <1>3, <1>4, <1>5
    <3> QED BY <3>2, <3>3, <1>6
  <2>6. \A i \in 1..(n + 1) : queue'[i].start =>
            /\ send # None => send.session[2] < queue'[i].session[2]
            /\ \A f \in down : f.session[2] < queue'[i].session[2]
    BY <1>4, <1>5, <1>6 DEF QueueInv, n
  <2>7. Len(queue') + 1 = n + 2
    BY <1>5
  <2> QED BY <1>2, <1>5, <2>3, <2>4, <2>5, <2>6, <2>7 DEF QueueInv
<1>12. GotInv'
  <2>1. \A i \in 1..Len(dGot) : dGot[i] \in Nat /\ dGot[i] <= hCount
    BY ElementOfSeq DEF GotInv, TypeOK
  <2>2. ASSUME NEW i \in 1..Len(dGot) PROVE dGot[i] <= hCount + 1
    <3>1. dGot[i] \in Nat /\ dGot[i] <= hCount
      BY <2>1
    <3> QED BY <3>1, <1>3
  <2>3. \A i \in 1..Len(dGot) : \A k \in 1..(n + 1) : ~queue'[k].start
            => dGot[i] < queue'[k].message
    <3> SUFFICES ASSUME NEW i \in 1..Len(dGot), NEW k \in 1..(n + 1), ~queue'[k].start
                 PROVE  dGot[i] < queue'[k].message
      OBVIOUS
    <3>1. CASE k \in 1..n
      BY <1>5, <3>1 DEF GotInv, n
    <3>2. CASE k = n + 1
      <4>1. dGot[i] \in Nat /\ dGot[i] <= hCount
        BY <2>1
      <4>2. queue'[k].message = hCount + 1
        BY <1>4, <1>5, <3>2
      <4> QED BY <1>3, <4>1, <4>2
    <3> QED BY <3>1, <3>2, <1>6
  <2> QED BY <1>2, <1>5, <2>2, <2>3 DEF GotInv, Awaited, Increasing
<1> QED BY <1>7, <1>8, <1>9, <1>10, <1>11, <1>12

LEMMA ReplyInv == IInv /\ Reply => IInv'
BY EnqueueInv DEF Reply, IInv, TypeOK

LEMMA TellInv == IInv /\ Tell => IInv'
<1> SUFFICES ASSUME IInv, Tell PROVE IInv'
  OBVIOUS
<1>1. Enqueue(None) /\ telling' \in BOOLEAN
  BY DEF Tell
<1> QED BY <1>1, EnqueueInv

LEMMA FindReadyInv == IInv /\ FindReady => IInv'
BY DEF FindReady, IInv, TypeOK, UpInv, NumberInv, Known, QueueInv, SealedIn, DownInv, GotInv,
       Awaited, Increasing, device, net

-----------------------------------------------------------------------------
\* What is left of the queue when its head is taken.
LEMMA TakenFacts ==
    ASSUME TypeOK, queue # <<>>, queue' = Tail(queue)
    PROVE  /\ queue' \in Seq(Queued) /\ Len(queue) \in Nat /\ Len(queue) >= 1
           /\ Len(queue') = Len(queue) - 1
           /\ \A i \in 1..Len(queue') : i + 1 \in 1..Len(queue) /\ queue'[i] = queue[i + 1]
           /\ \A i \in 1..Len(queue) : queue[i] \in Queued
           /\ Head(queue) = queue[1] /\ 1 \in 1..Len(queue)
           /\ queue' = <<>> <=> Len(queue) = 1
<1> DEFINE n == Len(queue)
<1>1. queue \in Seq(Queued)
  BY DEF TypeOK
<1>2. /\ queue' \in Seq(Queued) /\ n \in Nat \ {0} /\ Len(queue') = n - 1
      /\ \A i \in 1..n - 1 : queue'[i] = queue[i + 1]
      /\ \A i \in 1..n : queue[i] \in Queued
      /\ Head(queue) = queue[1]
      /\ queue' = <<>> <=> n = 1
  BY <1>1, TailFacts
<1> HIDE DEF n
<1>3. n >= 1 /\ 1 \in 1..n /\ \A i \in 1..n - 1 : i + 1 \in 1..n
  <2>1. n \in Nat \ {0}
    BY <1>2
  <2> QED BY <2>1
<1> QED BY <1>2, <1>3 DEF n

\* The conjuncts that bound or order what the queue holds outlive the taking of its head, and so
\* does where a message will be sealed once the head that was an answer is the session that is on.
LEMMA TakenOrder ==
    ASSUME TypeOK, QueueInv, NumberInv, DownInv, GotInv, queue # <<>>, queue' = Tail(queue),
           queue[1].start => send' # None /\ send'.session = queue[1].session,
           ~queue[1].start /\ send' # None => send # None /\ send'.session = send.session
    PROVE  /\ \A k \in 1..Len(queue') : ~queue'[k].start =>
               /\ queue'[k].session # None => SealedIn(queue', send', k, queue'[k].session)
               /\ queue'[k].message <= hCount
           /\ receive # None => SealedIn(queue', send', Len(queue') + 1, receive.session)
           /\ \A i, j \in 1..Len(queue') : i < j =>
               /\ queue'[i].start /\ queue'[j].start
                    => queue'[i].session[2] < queue'[j].session[2]
               /\ ~queue'[i].start /\ ~queue'[j].start => queue'[i].message < queue'[j].message
           /\ \A i \in 1..Len(queue') : queue'[i].start =>
               /\ send # None => send.session[2] < queue'[i].session[2]
               /\ \A f \in down : f.session[2] < queue'[i].session[2]
               /\ queue[1].start => queue[1].session[2] < queue'[i].session[2]
               /\ Known(queue'[i].session, asked, answered)
           /\ \A i \in 1..Len(queue') : ~queue'[i].start =>
               /\ \A f \in down : f.message < queue'[i].message
               /\ \A k \in 1..Len(dGot) : dGot[k] < queue'[i].message
               /\ ~queue[1].start => queue[1].message < queue'[i].message
<1>1. /\ Len(queue) \in Nat /\ Len(queue') \in Nat /\ 1 \in 1..Len(queue)
      /\ Len(queue') = Len(queue) - 1
      /\ \A i \in 1..Len(queue') : i + 1 \in 1..Len(queue) /\ queue'[i] = queue[i + 1]
  BY TakenFacts
<1>2. \A i \in 1..Len(queue') : 1 < i + 1
  BY <1>1
<1>3. \A i, j \in 1..Len(queue') : i < j => i + 1 < j + 1
  BY <1>1
<1>4. ASSUME NEW k \in 1..(Len(queue') + 1), NEW s, SealedIn(queue, send, k + 1, s)
      PROVE  SealedIn(queue', send', k, s)
  <2>1. k \in Nat /\ k >= 1 /\ (k + 1) - 1 = k /\ k - 1 <= Len(queue')
    BY <1>1
  <2>2. /\ \A i \in 1..k : queue[i].start /\ (\A m \in (i + 1)..k : ~queue[m].start)
                => queue[i].session = s
        /\ (\A i \in 1..k : ~queue[i].start) => send = None \/ send.session = s
    BY <1>4, <2>1 DEF SealedIn
  <2>3. \A i \in 1..(k - 1) : i \in 1..Len(queue') /\ i + 1 \in 1..k /\ queue'[i] = queue[i + 1]
    BY <1>1, <2>1
  <2>4. ASSUME NEW i \in 1..(k - 1), queue'[i].start,
               \A m \in (i + 1)..(k - 1) : ~queue'[m].start
        PROVE  queue'[i].session = s
    <3>1. \A m \in ((i + 1) + 1)..k : m - 1 \in (i + 1)..(k - 1) /\ m - 1 \in 1..(k - 1)
                                      /\ (m - 1) + 1 = m
      BY <2>1
    <3>2. \A m \in ((i + 1) + 1)..k : ~queue[m].start
      BY <2>3, <2>4, <3>1
    <3> QED BY <2>2, <2>3, <2>4, <3>2
  <2>5. ASSUME \A i \in 1..(k - 1) : ~queue'[i].start
        PROVE  send' = None \/ send'.session = s
    <3>1. \A m \in 2..k : m - 1 \in 1..(k - 1) /\ (m - 1) + 1 = m
      BY <2>1
    <3>2. \A m \in 2..k : ~queue[m].start
      BY <2>3, <2>5, <3>1
    <3>3. 1 \in 1..k /\ \A i \in 1..k : i = 1 \/ i \in 2..k
      BY <2>1
    <3>4. CASE queue[1].start
      <4>1. queue[1].session = s
        BY <2>2, <3>2, <3>3, <3>4
      <4> QED BY <3>4, <4>1
    <3>5. CASE ~queue[1].start
      <4>1. send = None \/ send.session = s
        BY <2>2, <3>2, <3>3, <3>5
      <4> QED BY <3>5, <4>1
    <3> QED BY <3>4, <3>5
  <2> QED BY <2>4, <2>5 DEF SealedIn
<1>5. ASSUME NEW k \in 1..Len(queue'), ~queue'[k].start
      PROVE  /\ queue'[k].session # None => SealedIn(queue', send', k, queue'[k].session)
             /\ queue'[k].message <= hCount
  <2>1. /\ k + 1 \in 1..Len(queue) /\ queue'[k] = queue[k + 1]
        /\ k \in 1..(Len(queue') + 1)
    BY <1>1
  <2>2. /\ queue[k + 1].session # None => SealedIn(queue, send, k + 1, queue[k + 1].session)
        /\ queue[k + 1].message <= hCount
    BY <1>5, <2>1 DEF QueueInv
  <2> QED BY <1>4, <2>1, <2>2
<1>6. receive # None => SealedIn(queue', send', Len(queue') + 1, receive.session)
  <2>1. Len(queue') + 1 = Len(queue) /\ Len(queue') + 1 \in 1..(Len(queue') + 1)
    BY <1>1
  <2> QED BY <1>4, <2>1 DEF QueueInv
<1>7. \A i, j \in 1..Len(queue') : i < j =>
          /\ queue'[i].start /\ queue'[j].start => queue'[i].session[2] < queue'[j].session[2]
          /\ ~queue'[i].start /\ ~queue'[j].start => queue'[i].message < queue'[j].message
  BY <1>1, <1>3 DEF QueueInv
<1>8. \A i \in 1..Len(queue') : queue'[i].start =>
          /\ send # None => send.session[2] < queue'[i].session[2]
          /\ \A f \in down : f.session[2] < queue'[i].session[2]
          /\ queue[1].start => queue[1].session[2] < queue'[i].session[2]
          /\ Known(queue'[i].session, asked, answered)
  BY <1>1, <1>2 DEF QueueInv, NumberInv
<1>9. \A i \in 1..Len(queue') : ~queue'[i].start =>
          /\ \A f \in down : f.message < queue'[i].message
          /\ \A k \in 1..Len(dGot) : dGot[k] < queue'[i].message
          /\ ~queue[1].start => queue[1].message < queue'[i].message
  BY <1>1, <1>2 DEF QueueInv, DownInv, GotInv
<1> QED BY <1>5, <1>6, <1>7, <1>8, <1>9

LEMMA BeginInv == IInv /\ Begin => IInv'
<1> SUFFICES ASSUME IInv, Begin PROVE IInv'
  OBVIOUS
<1> DEFINE h == queue[1].session
<1> USE DEF IInv
<1>1. queue # <<>> /\ queue' = Tail(queue)
  BY DEF Begin
<1>2. /\ queue' \in Seq(Queued) /\ Len(queue) \in Nat /\ Len(queue') = Len(queue) - 1
      /\ \A i \in 1..Len(queue) : queue[i] \in Queued
      /\ Head(queue) = queue[1] /\ 1 \in 1..Len(queue)
  BY <1>1, TakenFacts
<1>3. /\ queue[1].start
      /\ send' = [session |-> h, counter |-> 0]
      /\ accepts' = accepts \cup {h}
      /\ UNCHANGED <<answered, receive, ready, present, telling, hCount, hGot>>
      /\ UNCHANGED <<asked, pending, keys, dSent, dSeen, dCount, dGot>>
      /\ UNCHANGED <<opens, up, down>>
  BY <1>2 DEF Begin, device
<1>4. h \in Sessions /\ Known(h, asked, answered)
  <2>1. queue[1] \in Queued
    BY <1>2
  <2> QED BY <2>1, <1>2, <1>3 DEF Queued, NumberInv
<1>5. send' \in Halves /\ send'.session = h /\ send'.counter = 0 /\ send' # None
  BY <1>3, <1>4, SecureLinkAssumption DEF Halves, Sessions
<1>6. \A f \in down : f.session # h
  <2>1. \A f \in down : f.session[2] < h[2] /\ f.session[2] \in Nat
    BY <1>2, <1>3 DEF QueueInv, TypeOK, DownFrames, Sessions
  <2> QED BY <2>1
<1> HIDE DEF h
<1>7. /\ \A k \in 1..Len(queue') : ~queue'[k].start =>
          /\ queue'[k].session # None => SealedIn(queue', send', k, queue'[k].session)
          /\ queue'[k].message <= hCount
      /\ receive # None => SealedIn(queue', send', Len(queue') + 1, receive.session)
      /\ \A i, j \in 1..Len(queue') : i < j =>
          /\ queue'[i].start /\ queue'[j].start => queue'[i].session[2] < queue'[j].session[2]
          /\ ~queue'[i].start /\ ~queue'[j].start => queue'[i].message < queue'[j].message
      /\ \A i \in 1..Len(queue') : queue'[i].start =>
          /\ \A f \in down : f.session[2] < queue'[i].session[2]
          /\ h[2] < queue'[i].session[2]
          /\ Known(queue'[i].session, asked, answered)
      /\ \A i \in 1..Len(queue') : ~queue'[i].start =>
          /\ \A f \in down : f.message < queue'[i].message
          /\ \A k \in 1..Len(dGot) : dGot[k] < queue'[i].message
  BY <1>1, <1>3, <1>5, TakenOrder DEF h
<1>8. TypeOK'
  <2>1. accepts' \subseteq Sessions
    BY <1>3, <1>4 DEF TypeOK
  <2> QED BY <1>2, <1>3, <1>5, <2>1 DEF TypeOK
<1>9. UpInv'
  BY <1>3 DEF UpInv
<1>10. NumberInv'
  BY <1>3, <1>4, <1>5, <1>7 DEF NumberInv, Known
<1>11. QueueInv'
  BY <1>3, <1>5, <1>7 DEF QueueInv
<1>12. DownInv'
  BY <1>3, <1>5, <1>6, <1>7 DEF DownInv
<1>13. GotInv'
  BY <1>3, <1>7 DEF GotInv, Awaited, Increasing
<1> QED BY <1>8, <1>9, <1>10, <1>11, <1>12, <1>13

LEMMA WriteInv == IInv /\ Write => IInv'
<1> SUFFICES ASSUME IInv, Write PROVE IInv'
  OBVIOUS
<1> DEFINE m == queue[1].message
           g == [session |-> send.session, counter |-> send.counter + 1,
                 message |-> m, for |-> queue[1].session]
<1> USE DEF IInv
<1>1. queue # <<>> /\ queue' = Tail(queue)
  BY DEF Write
<1>2. /\ queue' \in Seq(Queued) /\ Len(queue) \in Nat /\ Len(queue') = Len(queue) - 1
      /\ \A i \in 1..Len(queue) : queue[i] \in Queued
      /\ Head(queue) = queue[1] /\ 1 \in 1..Len(queue)
  BY <1>1, TakenFacts
<1>3. /\ ~queue[1].start
      /\ UNCHANGED <<answered, receive, ready, present, telling, hCount, hGot>>
      /\ UNCHANGED <<asked, pending, keys, dSent, dSeen, dCount, dGot>>
      /\ UNCHANGED <<opens, accepts, up>>
  BY <1>2 DEF Write, device
<1>4. send # None => send' = [send EXCEPT !.counter = @ + 1] /\ down' = down \cup {g}
  BY <1>2 DEF Write
<1>5. send = None => send' = None /\ down' = down
  BY DEF Write
<1>6. send # None => send' \in Halves /\ send' # None /\ send'.session = send.session
                     /\ send.counter \in Nat /\ send'.counter = send.counter + 1
                     /\ send.session \in Sessions
  <2> SUFFICES ASSUME send # None
               PROVE  /\ send' \in Halves /\ send' # None /\ send'.session = send.session
                      /\ send.counter \in Nat /\ send'.counter = send.counter + 1
                      /\ send.session \in Sessions
    OBVIOUS
  <2>1. send \in [session : Sessions, counter : Nat]
    BY DEF TypeOK, Halves
  <2>2. send' = [send EXCEPT !.counter = @ + 1]
    BY <1>4
  <2>3. send' \in Halves /\ send'.session = send.session /\ send'.counter = send.counter + 1
    BY <2>1, <2>2 DEF Halves
  <2> QED BY <2>1, <2>3, SecureLinkAssumption DEF Halves, Sessions
<1>7. /\ m \in Nat /\ m <= hCount /\ queue[1].session \in Sessions \cup {None}
      /\ queue[1].session # None => send = None \/ send.session = queue[1].session
  <2>1. queue[1] \in Queued
    BY <1>2
  <2>2. queue[1].session # None => SealedIn(queue, send, 1, queue[1].session)
    BY <1>2, <1>3 DEF QueueInv
  <2>3. queue[1].session # None => send = None \/ send.session = queue[1].session
    BY <2>2 DEF SealedIn
  <2>4. m <= hCount
    BY <1>2, <1>3 DEF QueueInv
  <2> QED BY <2>1, <2>3, <2>4, <1>3 DEF Queued
<1>8. send # None => /\ g \in DownFrames /\ g.session = send.session
                     /\ g.for # None => g.for = g.session
                     /\ g.counter = send.counter + 1 /\ g.message = m
  BY <1>6, <1>7 DEF DownFrames
<1>9. /\ \A k \in 1..Len(queue') : ~queue'[k].start =>
          /\ queue'[k].session # None => SealedIn(queue', send', k, queue'[k].session)
          /\ queue'[k].message <= hCount
      /\ receive # None => SealedIn(queue', send', Len(queue') + 1, receive.session)
      /\ \A i, j \in 1..Len(queue') : i < j =>
          /\ queue'[i].start /\ queue'[j].start => queue'[i].session[2] < queue'[j].session[2]
          /\ ~queue'[i].start /\ ~queue'[j].start => queue'[i].message < queue'[j].message
      /\ \A i \in 1..Len(queue') : queue'[i].start =>
          /\ send # None => send.session[2] < queue'[i].session[2]
          /\ \A f \in down : f.session[2] < queue'[i].session[2]
          /\ Known(queue'[i].session, asked, answered)
      /\ \A i \in 1..Len(queue') : ~queue'[i].start =>
          /\ \A f \in down : f.message < queue'[i].message
          /\ \A k \in 1..Len(dGot) : dGot[k] < queue'[i].message
          /\ m < queue'[i].message
  BY <1>1, <1>3, <1>5, <1>6, TakenOrder
<1>10. \A i \in 1..Len(dGot) : dGot[i] < m
  BY <1>2, <1>3 DEF GotInv
<1>11. \A f \in down : f.message < m
  BY <1>2, <1>3 DEF DownInv
<1> HIDE DEF g, m
<1>12. \A f \in down' : f \in down \/ (send # None /\ f = g)
  BY <1>4, <1>5
<1>13. TypeOK'
  <2>1. down' \subseteq DownFrames /\ send' \in Halves \cup {None}
    BY <1>5, <1>6, <1>8, <1>12 DEF TypeOK
  <2> QED BY <1>2, <1>3, <2>1 DEF TypeOK
<1>14. UpInv'
  BY <1>3 DEF UpInv
<1>15. NumberInv'
  <2>1. \A f \in down' : Known(f.session, asked, answered)
    BY <1>8, <1>12 DEF NumberInv
  <2>2. send' # None => Known(send'.session, asked, answered)
    BY <1>5, <1>6 DEF NumberInv
  <2> QED BY <1>3, <1>9, <2>1, <2>2 DEF NumberInv, Known
<1>16. QueueInv'
  <2>1. \A i \in 1..Len(queue') : queue'[i].start =>
            /\ send' # None => send'.session[2] < queue'[i].session[2]
            /\ \A f \in down' : f.session[2] < queue'[i].session[2]
    BY <1>5, <1>6, <1>8, <1>9, <1>12
  <2> QED BY <1>3, <1>9, <2>1 DEF QueueInv
<1>17. DownInv'
  <2>1. \A f \in down : send # None /\ f.session = send.session =>
            f.counter \in Nat /\ f.counter <= send.counter /\ f.counter < send.counter + 1
    BY <1>6 DEF DownInv, TypeOK, DownFrames
  <2>2. ASSUME NEW f \in down'
        PROVE  /\ f.for # None => f.for = f.session
               /\ f.message <= hCount
               /\ send' # None => (f.session = send'.session => f.counter <= send'.counter)
               /\ \A i \in 1..Len(queue') : ~queue'[i].start => f.message < queue'[i].message
    <3>1. CASE f \in down
      BY <3>1, <1>5, <1>6, <1>9, <2>1 DEF DownInv
    <3>2. CASE send # None /\ f = g
      BY <3>2, <1>6, <1>7, <1>8, <1>9
    <3> QED BY <3>1, <3>2, <1>12
  <2>3. ASSUME NEW f1 \in down', NEW f2 \in down', f1.session = f2.session
        PROVE  /\ f1.counter < f2.counter => f1.message < f2.message
               /\ f1.counter = f2.counter => f1 = f2
    <3>1. CASE f1 \in down /\ f2 \in down
      BY <3>1, <2>3 DEF DownInv
    <3>2. CASE send # None /\ f1 \in down /\ f2 = g
      BY <3>2, <2>1, <2>3, <1>6, <1>8, <1>11
    <3>3. CASE send # None /\ f1 = g /\ f2 \in down
      BY <3>3, <2>1, <2>3, <1>6, <1>8
    <3>4. CASE f1 = g /\ f2 = g /\ send # None
      BY <3>4, <1>6, <1>8
    <3> QED BY <3>1, <3>2, <3>3, <3>4, <1>12
  <2> QED BY <1>3, <2>2, <2>3 DEF DownInv
<1>18. GotInv'
  <2>1. \A f \in down' : Awaited(f) => \A i \in 1..Len(dGot) : dGot[i] < f.message
    BY <1>8, <1>10, <1>12 DEF GotInv
  <2> QED BY <1>3, <1>9, <2>1 DEF GotInv, Awaited, Increasing
<1> QED BY <1>13, <1>14, <1>15, <1>16, <1>17, <1>18

LEMMA LeftInv == IInv /\ Left => IInv'
<1> SUFFICES ASSUME IInv, Left PROVE IInv'
  OBVIOUS
<1> USE DEF IInv
<1>1. /\ ready' = FALSE /\ present' = FALSE /\ receive' = None /\ send' = None
      /\ UNCHANGED <<answered, queue, telling, hCount, hGot>>
      /\ UNCHANGED <<asked, pending, keys, dSent, dSeen, dCount, dGot>>
      /\ UNCHANGED <<opens, accepts, up, down>>
  BY DEF Left, ReadyOnceGone, device, net
<1>2. TypeOK'
  <2>1. ready' \in BOOLEAN /\ present' \in BOOLEAN /\ ~ready'
    BY <1>1
  <2> QED BY <1>1, <2>1 DEF TypeOK
<1>3. UpInv' /\ NumberInv'
  BY <1>1 DEF UpInv, NumberInv, Known
<1>4. QueueInv'
  BY <1>1 DEF QueueInv, SealedIn
<1>5. DownInv' /\ GotInv'
  BY <1>1 DEF DownInv, GotInv, Awaited, Increasing
<1> QED BY <1>2, <1>3, <1>4, <1>5

-----------------------------------------------------------------------------
LEMMA Invariance == Spec => []IInv
<1>1. IInv /\ [Next]_vars => IInv'
  <2> SUFFICES ASSUME IInv, [Next]_vars PROVE IInv'
    OBVIOUS
  <2>1. CASE UNCHANGED vars
    BY <2>1 DEF IInv, vars, device, host, net, TypeOK, UpInv, NumberInv, Known, QueueInv,
       SealedIn, DownInv, GotInv, Awaited, Increasing
  <2>2. CASE Ask \/ Seal \/ End
    BY <2>2, AskInv, SealInv, EndInv
  <2>3. CASE \E s \in accepts : Accepted(s)
    BY <2>3, AcceptedInv
  <2>4. CASE \E f \in down : DeviceReceive(f)
    BY <2>4, DeviceReceiveInv
  <2>5. CASE \E d \in opens : Accept(d)
    BY <2>5, AcceptInv
  <2>6. CASE \E f \in up : HostReceive(f)
    BY <2>6, HostReceiveInv
  <2>7. CASE Reply \/ FindReady \/ Tell
    BY <2>7, ReplyInv, FindReadyInv, TellInv
  <2>8. CASE Begin \/ Write \/ Left
    BY <2>8, BeginInv, WriteInv, LeftInv
  <2> QED BY <2>1, <2>2, <2>3, <2>4, <2>5, <2>6, <2>7, <2>8 DEF Next
<1> QED BY <1>1, InitInv, PTL DEF Spec

\* Both ends' state stays in its types, and a client that has said hello is of a session the host
\* can read (LinkState::is_ready against SecureLink::accept and end_session of codec.rs).
THEOREM TypeCorrect == Spec => []TypeOK
BY Invariance, PTL DEF IInv

\* Whatever the network loses, delays or repeats, and however many sessions succeed each other,
\* each end takes the other's messages in order and at most once (Half::open, openFrame).
THEOREM MessagesInOrder == Spec => []InOrder
<1>1. IInv => InOrder
  BY DEF IInv, GotInv, InOrder
<1> QED BY <1>1, Invariance, PTL

\* No key is ever used twice with one counter, on either side (Half::seal, seal).
THEOREM NoncesUsedOnce == Spec => []NonceOnce
<1>1. IInv => NonceOnce
  BY DEF IInv, UpInv, DownInv, NonceOnce
<1> QED BY <1>1, Invariance, PTL

\* A message queued for one client of a link is never sealed for the next one: the queue's order
\* alone keeps the sessions apart (SessionStart of codec.rs, Frame::Session of outbound.rs).
THEOREM SessionsKeptApart == Spec => []ScopedToSession
<1>1. IInv => ScopedToSession
  BY DEF IInv, DownInv, ScopedToSession
<1> QED BY <1>1, Invariance, PTL
=============================================================================
