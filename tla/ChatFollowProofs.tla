--------------------------- MODULE ChatFollowProofs ---------------------------
(***************************************************************************)
(* What holds of a viewport that follows a transcript, for any sizes of    *)
(* pages, feeds and queues and any number of runs, events and breaks.      *)
(***************************************************************************)
EXTENDS ChatFollow, SequenceTheorems, WellFoundedInduction, TLAPS

Event == (1..MaxRuns) \X (1..MaxEvents)
Place == [log : 1..MaxRuns, seq : 0..MaxEvents]
Resets == [type : {"reset"}, log : 1..MaxRuns, seq : 0..MaxEvents]
Histories == [type : {"history"}, events : Seq(Event), more : BOOLEAN]
Chats == [type : {"chat"}, events : Seq(Event), seq : 0..MaxEvents]
Message == Resets \cup Histories \cup Chats
Ask ==
    [type : {"attach"}, cursor : Cursors] \cup [type : {"detach"}]
        \cup [type : {"load-earlier"}, loaded : Nat]

Types ==
    /\ log \in Seq(0..MaxEvents) /\ Len(log) \in 1..MaxRuns
    /\ feed \in Seq(0..MaxEvents) /\ Len(feed) <= Capacity
    /\ lagged \in BOOLEAN /\ relaunched \in BOOLEAN /\ showing \in BOOLEAN /\ more \in BOOLEAN
    /\ left \in 0..Len(log)
    /\ fwd \in {"off", "starting", "on"}
    /\ want \in Cursors /\ sent \in Cursors /\ cursor \in Cursors
    /\ fwd = "on" => sent # None
    /\ todo \in Seq(Message) /\ Len(todo) <= 2
    /\ wire \in Seq(Message) /\ Len(wire) <= QueueCap
    /\ asks \in Seq(Ask)
    /\ held \in Seq(Event)

-----------------------------------------------------------------------------
(* Sequences. *)

LEMMA Bounds ==
    /\ Page \in Nat \ {0} /\ Capacity \in Nat \ {0} /\ QueueCap \in Nat \ {0}
    /\ MaxEvents \in Nat \ {0} /\ MaxRuns \in Nat \ {0}
    /\ None \notin Place
BY ChatFollowAssumption DEF Place

LEMMA AppendFacts ==
    ASSUME NEW S, NEW q \in Seq(S), NEW e \in S
    PROVE  /\ Append(q, e) \in Seq(S)
           /\ Len(q) \in Nat
           /\ Len(Append(q, e)) = Len(q) + 1
           /\ \A i \in 1..Len(q) : Append(q, e)[i] = q[i] /\ q[i] \in S
           /\ Append(q, e)[Len(q) + 1] = e
           /\ Append(q, e) # <<>>
BY AppendProperties, LenProperties, ElementOfSeq

LEMMA TailFacts ==
    ASSUME NEW S, NEW q \in Seq(S), q # <<>>
    PROVE  /\ Tail(q) \in Seq(S)
           /\ Len(q) \in Nat \ {0}
           /\ Len(Tail(q)) = Len(q) - 1
           /\ \A i \in 1..Len(q) - 1 : Tail(q)[i] = q[i + 1]
           /\ \A i \in 1..Len(q) : q[i] \in S
           /\ Head(q) = q[1] /\ q[1] \in S
BY HeadTailProperties, EmptySeq, ElementOfSeq

LEMMA DomainFacts ==
    ASSUME NEW S, NEW q \in Seq(S)
    PROVE  /\ DOMAIN q = 1..Len(q) /\ Len(q) \in Nat
           /\ \A i \in 1..Len(q) : q[i] \in S
           /\ q = <<>> <=> Len(q) = 0
BY LenProperties, ElementOfSeq, EmptySeq

LEMMA PairFacts ==
    ASSUME NEW S, NEW a \in S, NEW b \in S
    PROVE  /\ <<a>> \in Seq(S) /\ Len(<<a>>) = 1 /\ <<a>>[1] = a
           /\ <<a, b>> \in Seq(S) /\ Len(<<a, b>>) = 2 /\ <<a, b>>[1] = a /\ <<a, b>>[2] = b
           /\ <<a>> \o <<>> = <<a>> /\ <<a>> \o <<b>> = <<a, b>>
<1>1. /\ <<a>> \in Seq(S) /\ Len(<<a>>) = 1 /\ <<a>>[1] = a
      /\ <<b>> \in Seq(S) /\ Len(<<b>>) = 1 /\ <<b>>[1] = b
      /\ <<a, b>> \in Seq(S) /\ Len(<<a, b>>) = 2 /\ <<a, b>>[1] = a /\ <<a, b>>[2] = b
  OBVIOUS
<1>2. <<a>> \o <<>> = <<a>>
  BY <1>1, ConcatEmptySeq
<1>3. PICK s, t : s = <<a>> /\ t = <<b>>
  OBVIOUS
<1>4. /\ s \o t \in Seq(S) /\ Len(s \o t) = Len(s) + Len(t)
      /\ \A i \in 1..Len(s) + Len(t) : (s \o t)[i] = IF i <= Len(s) THEN s[i] ELSE t[i - Len(s)]
  BY <1>1, <1>3, ConcatProperties
<1>5. Len(s \o t) = 2 /\ (s \o t)[1] = a /\ (s \o t)[2] = b
  BY <1>1, <1>3, <1>4
<1>6. PICK u, v : u = s \o t /\ v = <<a, b>>
  OBVIOUS
<1>7. /\ u \in Seq(S) /\ v \in Seq(S) /\ Len(u) = Len(v)
      /\ \A i \in 1..Len(u) : u[i] = v[i]
  BY <1>1, <1>4, <1>5, <1>6
<1>8. u = v
  BY <1>7, SeqEqual
<1> QED BY <1>1, <1>2, <1>3, <1>6, <1>8

LEMMA SpanFacts ==
    ASSUME NEW run \in 1..MaxRuns, NEW a \in Nat \ {0}, NEW b \in 0..MaxEvents
    PROVE  /\ Span(run, a, b) \in Seq(Event)
           /\ Len(Span(run, a, b)) = IF a <= b THEN b + 1 - a ELSE 0
           /\ DOMAIN Span(run, a, b) = 1..Len(Span(run, a, b))
           /\ \A i \in 1..(b + 1 - a) : Span(run, a, b)[i] = <<run, a + i - 1>>
<1> DEFINE n == IF a <= b THEN b + 1 - a ELSE 0
<1>1. n \in Nat /\ 1..n = 1..(b + 1 - a)
  BY Bounds
<1>2. Span(run, a, b) = [i \in 1..n |-> <<run, a + i - 1>>]
  BY <1>1 DEF Span
<1>3. \A i \in 1..n : <<run, a + i - 1>> \in Event
  BY Bounds DEF Event
<1>4. Span(run, a, b) \in [1..n -> Event]
  BY <1>2, <1>3
<1>5. Span(run, a, b) \in Seq(Event)
  BY <1>1, <1>4, SeqDef
<1>6. Len(Span(run, a, b)) = n
  BY <1>1, <1>4, <1>5, LenProperties
<1> QED BY <1>1, <1>2, <1>5, <1>6, LenProperties

-----------------------------------------------------------------------------
(* Types. *)

LEMMA MessageFacts ==
    /\ \A run \in 1..MaxRuns, seq \in 0..MaxEvents :
          ChatReset(run, seq) \in Resets /\ ChatReset(run, seq) \in Message
    /\ \A events \in Seq(Event), b \in BOOLEAN :
          ChatHistory(events, b) \in Histories /\ ChatHistory(events, b) \in Message
    /\ \A events \in Seq(Event), seq \in 0..MaxEvents :
          Chat(events, seq) \in Chats /\ Chat(events, seq) \in Message
    /\ \A m \in Message : /\ m.type \in {"reset", "history", "chat"}
                          /\ m.type = "reset" => m \in Resets
                          /\ m.type = "history" => m \in Histories
                          /\ m.type = "chat" => m \in Chats
BY DEF Message, Resets, Histories, Chats, ChatReset, ChatHistory, Chat

LEMMA TipFacts ==
    ASSUME Types
    PROVE  /\ Run \in 1..MaxRuns /\ Length \in 0..MaxEvents
           /\ Followed \in 1..MaxRuns /\ Followed \in 1..Len(log) /\ End \in 0..MaxEvents
           /\ [log |-> Followed, seq |-> End] \in Place
<1>1. \A i \in 1..Len(log) : log[i] \in 0..MaxEvents
  BY DomainFacts DEF Types
<1>2. Run \in 1..Len(log) /\ Followed \in 1..Len(log) /\ Len(log) \in 1..MaxRuns
  BY Bounds DEF Types, Run, Followed
<1>3. Length \in 0..MaxEvents /\ End \in 0..MaxEvents
  BY <1>1, <1>2 DEF Length, End
<1>4. Run \in 1..MaxRuns /\ Followed \in 1..MaxRuns
  BY <1>2, Bounds
<1> QED BY <1>2, <1>3, <1>4 DEF Place

LEMMA LastPageFacts ==
    ASSUME Types
    PROVE  /\ LastPage \in Histories /\ LastPage \in Message
           /\ End > 0 => \E a \in 1..End : LastPage.events = Span(Followed, a, End)
<1> DEFINE from == IF End > Page THEN End - Page ELSE 0
<1>1. from \in Nat /\ from + 1 \in Nat \ {0} /\ (End > 0 => from + 1 \in 1..End)
  BY TipFacts, Bounds
<1>2. LastPage = ChatHistory(Span(Followed, from + 1, End), from > 0)
  BY DEF LastPage
<1> HIDE DEF from
<1>3. Span(Followed, from + 1, End) \in Seq(Event)
  BY <1>1, TipFacts, SpanFacts
<1>4. LastPage.events = Span(Followed, from + 1, End)
  BY <1>2 DEF ChatHistory
<1>5. (from > 0) \in BOOLEAN
  OBVIOUS
<1>6. LastPage \in Histories /\ LastPage \in Message
  BY <1>2, <1>3, <1>5, MessageFacts
<1> QED BY <1>1, <1>4, <1>6

\* What a viewport is sent to be brought level with the log.
Catching(at, q) ==
    \/ /\ Resumes(at) /\ at.seq = End /\ q = <<>>
    \/ /\ Resumes(at) /\ at.seq < End
       /\ q = <<Chat(Span(Followed, at.seq + 1, End), End)>>
       /\ Span(Followed, at.seq + 1, End) \in Seq(Event)
    \/ /\ ~Resumes(at) /\ End = 0
       /\ q = <<ChatReset(Followed, End)>>
    \/ /\ ~Resumes(at) /\ End > 0
       /\ q = <<ChatReset(Followed, End), LastPage>>

LEMMA LevelFacts ==
    ASSUME Types, NEW at \in Cursors, Level(at)
    PROVE  /\ sent' = [log |-> Followed, seq |-> End] /\ sent' \in Place /\ sent' # None
           /\ feed' = <<>> /\ lagged' = FALSE
           /\ Catching(at, todo')
           /\ todo' \in Seq(Message) /\ Len(todo') <= 2
<1>1. /\ sent' = [log |-> Followed, seq |-> End]
      /\ feed' = <<>> /\ lagged' = FALSE
  BY DEF Level
<1>2. sent' \in Place /\ sent' # None
  BY <1>1, TipFacts, Bounds
<1>3. PICK c : c = Chat(Span(Followed, at.seq + 1, End), End)
  OBVIOUS
<1>4. PICK r : r = ChatReset(Followed, End)
  OBVIOUS
<1>5. PICK h : h = LastPage
  OBVIOUS
<1>6. r \in Message /\ h \in Message
  BY <1>4, <1>5, TipFacts, MessageFacts, LastPageFacts
<1>7. todo' = IF Resumes(at) THEN IF at.seq < End THEN <<c>> ELSE <<>>
              ELSE <<r>> \o IF End > 0 THEN <<h>> ELSE <<>>
  BY <1>3, <1>4, <1>5 DEF Level
<1>8. CASE Resumes(at)
  <2>1. at \in Place /\ at.seq \in 0..MaxEvents /\ at.seq <= End
    BY <1>8 DEF Resumes, Cursors, Place
  <2>2. Span(Followed, at.seq + 1, End) \in Seq(Event)
    <3>1. at.seq + 1 \in Nat \ {0}
      BY <2>1, Bounds
    <3> QED BY <3>1, TipFacts, SpanFacts
  <2>3. c \in Message
    BY <1>3, <2>2, TipFacts, MessageFacts
  <2>4. CASE at.seq < End
    <3>1. todo' = <<c>>
      BY <1>7, <1>8, <2>4
    <3>2. todo' \in Seq(Message) /\ Len(todo') = 1
      BY <2>3, <3>1
    <3>3. Catching(at, todo')
      BY <1>3, <1>8, <2>2, <2>4, <3>1 DEF Catching
    <3> QED BY <1>1, <1>2, <3>2, <3>3
  <2>5. CASE ~(at.seq < End)
    <3>1. todo' = <<>> /\ at.seq = End
      BY <1>7, <1>8, <2>1, <2>5, TipFacts
    <3>2. todo' \in Seq(Message) /\ Len(todo') = 0
      BY <3>1, EmptySeq
    <3>3. Catching(at, todo')
      BY <1>8, <3>1 DEF Catching
    <3> QED BY <1>1, <1>2, <3>2, <3>3
  <2> QED BY <2>4, <2>5
<1>9. CASE ~Resumes(at)
  <2>1. CASE End > 0
    <3>1. todo' = <<r, h>>
      BY <1>6, <1>7, <1>9, <2>1, PairFacts
    <3>2. todo' \in Seq(Message) /\ Len(todo') = 2
      BY <1>6, <3>1
    <3>3. Catching(at, todo')
      BY <1>4, <1>5, <1>9, <2>1, <3>1 DEF Catching
    <3> QED BY <1>1, <1>2, <3>2, <3>3
  <2>2. CASE ~(End > 0)
    <3>1. todo' = <<r>> /\ End = 0
      BY <1>6, <1>7, <1>9, <2>2, TipFacts, PairFacts
    <3>2. todo' \in Seq(Message) /\ Len(todo') = 1
      BY <1>6, <3>1
    <3>3. Catching(at, todo')
      BY <1>4, <1>9, <3>1 DEF Catching
    <3> QED BY <1>1, <1>2, <3>2, <3>3
  <2> QED BY <2>1, <2>2
<1> QED BY <1>8, <1>9

LEMMA PublishTypes ==
    ASSUME Types, NEW frame \in 0..MaxEvents, Publish(frame)
    PROVE  feed' \in Seq(0..MaxEvents) /\ Len(feed') <= Capacity /\ lagged' \in BOOLEAN
<1>1. CASE UNCHANGED <<feed, lagged>>
  BY <1>1 DEF Types
<1>2. CASE lagged' = TRUE /\ feed' = <<>>
  BY <1>2, EmptySeq, Bounds
<1>3. CASE feed' = Append(feed, frame) /\ UNCHANGED lagged /\ Len(feed) # Capacity
  <2>1. Append(feed, frame) \in Seq(0..MaxEvents) /\ Len(Append(feed, frame)) = Len(feed) + 1
        /\ Len(feed) \in Nat
    BY AppendFacts DEF Types
  <2> QED BY <1>3, <2>1, Bounds DEF Types
<1> QED BY <1>1, <1>2, <1>3 DEF Publish

LEMMA LogTypes ==
    ASSUME Types, Push \/ Restart \/ Relaunch
    PROVE  Types'
<1>1. Len(log) \in Nat /\ Run = Len(log) /\ Run \in 1..Len(log) /\ Length \in 0..MaxEvents
      /\ Length = log[Run] /\ 0 \in 0..MaxEvents
  BY TipFacts, Bounds DEF Types, Run, Length
<1>2. CASE Push
  <2>1. Length + 1 \in 0..MaxEvents /\ Length < MaxEvents
    BY <1>1, <1>2, Bounds DEF Push
  <2>2. log' = [log EXCEPT ![Run] = Length + 1]
    BY <1>2 DEF Push, Length
  <2>3. PICK k : k = Length + 1
    OBVIOUS
  <2>4. log' \in Seq(0..MaxEvents) /\ Len(log') = Len(log)
    BY <1>1, <2>1, <2>2, <2>3, ExceptSeq DEF Types
  <2>5. feed' \in Seq(0..MaxEvents) /\ Len(feed') <= Capacity /\ lagged' \in BOOLEAN
    BY <1>2, <2>1, PublishTypes DEF Push
  <2> QED BY <1>2, <2>4, <2>5 DEF Push, Types, client
<1>3. CASE Restart
  <2>1. log' \in Seq(0..MaxEvents) /\ Len(log') = Len(log) + 1 /\ Len(log) < MaxRuns
    BY <1>1, <1>3, AppendFacts DEF Restart, Types, Run
  <2>2. feed' \in Seq(0..MaxEvents) /\ Len(feed') <= Capacity /\ lagged' \in BOOLEAN
    BY <1>1, <1>3, PublishTypes DEF Restart, Restarted
  <2>3. Len(log') \in 1..MaxRuns /\ left' \in 0..Len(log')
    BY SMTT(30), <1>1, <1>3, <2>1, Bounds DEF Types, Restart
  <2> QED BY <1>3, <2>1, <2>2, <2>3 DEF Restart, Types, client
<1>4. CASE Relaunch
  <2>1. PICK seed \in {0, MaxEvents} : log' = Append(log, seed)
    BY <1>4 DEF Relaunch
  <2>2. seed \in 0..MaxEvents
    BY Bounds
  <2>3. log' \in Seq(0..MaxEvents) /\ Len(log') = Len(log) + 1 /\ Len(log) < MaxRuns
    BY <1>1, <1>4, <2>1, <2>2, AppendFacts DEF Relaunch, Types, Run
  <2>4. Len(log') \in 1..MaxRuns /\ left' \in 0..Len(log')
    BY SMTT(30), <1>1, <1>4, <2>3, Bounds DEF Types, Relaunch
  <2> QED BY <1>4, <2>3, <2>4 DEF Relaunch, Types, client
<1> QED BY <1>2, <1>3, <1>4

LEMMA LevelTypes ==
    ASSUME Types, NEW at \in Cursors, Level(at), fwd' \in {"off", "starting", "on"},
           UNCHANGED <<log, left, want, relaunched, asks, wire, client, showing>>
    PROVE  Types'
<1>1. /\ sent' \in Place /\ sent' # None /\ feed' = <<>> /\ lagged' = FALSE
      /\ todo' \in Seq(Message) /\ Len(todo') <= 2
  BY LevelFacts
<1>2. feed' \in Seq(0..MaxEvents) /\ Len(feed') <= Capacity
  BY <1>1, EmptySeq, Bounds
<1> QED BY <1>1, <1>2 DEF Types, Cursors, Place, client

LEMMA ForwardFacts ==
    ASSUME Types, Forward
    PROVE  /\ sent # None /\ sent \in Place
           /\ Head(feed) \in 0..MaxEvents
           /\ feed # <<>> /\ ~lagged /\ todo = <<>> /\ fwd = "on" /\ fwd' = "on"
           /\ UNCHANGED <<log, left, want, relaunched, asks, wire, client, showing, churn, earlier>>
           /\ \/ /\ Head(feed) # Restarted /\ Head(feed) <= sent.seq
                 /\ feed' = Tail(feed) /\ UNCHANGED <<sent, todo, lagged>>
              \/ /\ Head(feed) # Restarted /\ Head(feed) > sent.seq
                 /\ sent' = [log |-> sent.log, seq |-> Head(feed)] /\ sent' \in Place
                 /\ Span(sent.log, Head(feed), Head(feed)) \in Seq(Event)
                 /\ todo' = <<Chat(Span(sent.log, Head(feed), Head(feed)), Head(feed))>>
                 /\ feed' = Tail(feed) /\ UNCHANGED lagged
              \/ Head(feed) = Restarted /\ Level(None)
<1>1. feed # <<>> /\ ~lagged /\ todo = <<>> /\ fwd = "on"
  BY DEF Forward
<1>2. sent # None /\ sent \in Place
  BY <1>1 DEF Types, Cursors, Place
<1>3. Head(feed) \in 0..MaxEvents
  <2>1. PICK S : S = 0..MaxEvents
    OBVIOUS
  <2>2. feed \in Seq(S)
    BY <2>1 DEF Types
  <2>3. Head(feed) \in S
    BY <1>1, <2>2, TailFacts
  <2> QED BY <2>1, <2>3
<1>4. PICK k : k = Head(feed)
  OBVIOUS
<1>5. /\ fwd' = "on"
      /\ UNCHANGED <<log, left, want, relaunched, asks, wire, client, showing, churn, earlier>>
  BY <1>1 DEF Forward
<1>6. \/ k # Restarted /\ k > sent.seq /\ sent' = Noted(k) /\ feed' = Tail(feed) /\ UNCHANGED lagged
         /\ todo' = <<Chat(Span(sent.log, k, k), k)>>
      \/ k # Restarted /\ ~(k > sent.seq) /\ feed' = Tail(feed) /\ UNCHANGED <<sent, todo, lagged>>
      \/ k = Restarted /\ Level(None)
  BY <1>4 DEF Forward
<1>7. CASE k # Restarted /\ k > sent.seq /\ sent' = Noted(k) /\ feed' = Tail(feed) /\ UNCHANGED lagged
           /\ todo' = <<Chat(Span(sent.log, k, k), k)>>
  <2>1. sent' = [log |-> sent.log, seq |-> k] /\ sent' \in Place
    BY <1>2, <1>3, <1>4, <1>7 DEF Place, Noted
  <2>2. Span(sent.log, k, k) \in Seq(Event)
    <3>1. sent.log \in 1..MaxRuns /\ k \in 0..MaxEvents /\ k \in Nat \ {0}
      BY <1>2, <1>3, <1>4, <1>7 DEF Place, Restarted
    <3> QED BY <3>1, SpanFacts
  <2> QED BY <1>1, <1>2, <1>3, <1>4, <1>5, <1>7, <2>1, <2>2
<1>8. CASE k # Restarted /\ ~(k > sent.seq) /\ feed' = Tail(feed) /\ UNCHANGED <<sent, todo, lagged>>
  <2>1. k <= sent.seq
    BY <1>2, <1>3, <1>4, <1>8 DEF Place
  <2> QED BY <1>1, <1>2, <1>3, <1>4, <1>5, <1>8, <2>1
<1> QED BY <1>1, <1>2, <1>3, <1>4, <1>5, <1>6, <1>7, <1>8

LEMMA ForwardTypes ==
    ASSUME Types, Forward
    PROVE  Types'
<1>1. \/ Head(feed) = Restarted /\ Level(None)
      \/ /\ feed' = Tail(feed) /\ UNCHANGED lagged
         /\ \/ UNCHANGED <<sent, todo>>
            \/ /\ sent' \in Place
               /\ Span(sent.log, Head(feed), Head(feed)) \in Seq(Event)
               /\ todo' = <<Chat(Span(sent.log, Head(feed), Head(feed)), Head(feed))>>
  BY ForwardFacts
<1>2. CASE Head(feed) = Restarted /\ Level(None)
  <2>1. None \in Cursors
    BY DEF Cursors
  <2> QED BY <1>2, <2>1, ForwardFacts, LevelTypes
<1>3. CASE /\ feed' = Tail(feed) /\ UNCHANGED lagged
           /\ \/ UNCHANGED <<sent, todo>>
              \/ /\ sent' \in Place
                 /\ Span(sent.log, Head(feed), Head(feed)) \in Seq(Event)
                 /\ todo' = <<Chat(Span(sent.log, Head(feed), Head(feed)), Head(feed))>>
  <2>1. feed' \in Seq(0..MaxEvents) /\ Len(feed') <= Capacity
    BY <1>3, TailFacts, ForwardFacts, Bounds DEF Types
  <2>2. CASE UNCHANGED <<sent, todo>>
    BY <1>3, <2>1, <2>2, ForwardFacts DEF Types, client
  <2>3. CASE /\ sent' \in Place
             /\ Span(sent.log, Head(feed), Head(feed)) \in Seq(Event)
             /\ todo' = <<Chat(Span(sent.log, Head(feed), Head(feed)), Head(feed))>>
    <3>1. PICK c : c = Chat(Span(sent.log, Head(feed), Head(feed)), Head(feed))
      OBVIOUS
    <3>2. Head(feed) \in 0..MaxEvents
      BY ForwardFacts
    <3>3. c \in Message
      BY <2>3, <3>1, <3>2, MessageFacts
    <3>4. todo' \in Seq(Message) /\ Len(todo') <= 2
      BY <2>3, <3>1, <3>3
    <3>5. sent' \in Cursors /\ sent' # None
      BY <2>3, Bounds DEF Cursors, Place
    <3>6. /\ UNCHANGED <<log, left, want, relaunched, asks, wire, client, showing>>
          /\ fwd' \in {"off", "starting", "on"}
      BY ForwardFacts
    <3> QED BY <1>3, <2>1, <3>4, <3>5, <3>6 DEF Types, client
  <2> QED BY <1>3, <2>2, <2>3
<1> QED BY <1>2, <1>3, <1>1

LEMMA SendFacts ==
    ASSUME Types, Send
    PROVE  /\ wire' \in Seq(Message) /\ Len(wire') <= QueueCap
           /\ todo' \in Seq(Message) /\ Len(todo') <= 2
           /\ wire' \o todo' = wire \o todo
           /\ UNCHANGED <<log, feed, lagged, left, fwd, want, sent, relaunched, asks, client, showing,
                          churn, earlier>>
<1>1. PICK w, t, m : w = wire /\ t = todo /\ m = Head(todo)
  OBVIOUS
<1>2. /\ w \in Seq(Message) /\ Len(w) < QueueCap
      /\ t \in Seq(Message) /\ Len(t) <= 2 /\ t # <<>> /\ m = Head(t)
      /\ wire' = Append(w, m) /\ todo' = Tail(t)
  BY <1>1 DEF Types, Send
<1>3. /\ m \in Message /\ Tail(t) \in Seq(Message) /\ Len(t) \in Nat /\ Len(Tail(t)) = Len(t) - 1
      /\ Len(t) > 0 /\ t[1] = m /\ \A i \in 1..Len(t) - 1 : Tail(t)[i] = t[i + 1]
  BY <1>2, TailFacts
<1>4. /\ Append(w, m) \in Seq(Message) /\ Len(w) \in Nat /\ Len(Append(w, m)) = Len(w) + 1
      /\ Append(w, m)[Len(w) + 1] = m /\ \A i \in 1..Len(w) : Append(w, m)[i] = w[i]
  BY <1>2, <1>3, AppendFacts
<1>5. PICK a, b : a = Append(w, m) \o Tail(t) /\ b = w \o t
  OBVIOUS
<1>6. /\ a \in Seq(Message) /\ Len(a) = Len(w) + Len(t)
      /\ \A i \in 1..Len(w) + Len(t) :
            a[i] = IF i <= Len(w) + 1 THEN Append(w, m)[i] ELSE Tail(t)[i - (Len(w) + 1)]
  BY <1>3, <1>4, <1>5, ConcatProperties
<1>7. /\ b \in Seq(Message) /\ Len(b) = Len(w) + Len(t)
      /\ \A i \in 1..Len(w) + Len(t) : b[i] = IF i <= Len(w) THEN w[i] ELSE t[i - Len(w)]
  BY <1>2, <1>5, ConcatProperties
<1>8. \A i \in 1..Len(w) + Len(t) : a[i] = b[i]
  <2> SUFFICES ASSUME NEW i \in 1..Len(w) + Len(t) PROVE a[i] = b[i]
    OBVIOUS
  <2>1. CASE i <= Len(w)
    BY <1>3, <1>4, <1>6, <1>7, <2>1
  <2>2. CASE i = Len(w) + 1
    BY SMTT(30), <1>3, <1>4, <1>6, <1>7, <2>2
  <2>3. CASE i > Len(w) + 1
    <3>1. i - (Len(w) + 1) \in 1..Len(t) - 1 /\ i - (Len(w) + 1) + 1 = i - Len(w)
      BY <1>3, <1>4, <2>3
    <3>2. Tail(t)[i - (Len(w) + 1)] = t[i - Len(w)]
      BY <1>3, <3>1
    <3> QED BY <1>4, <1>6, <1>7, <2>3, <3>2
  <2> QED BY <1>4, <2>1, <2>2, <2>3
<1>9. a = b
  BY <1>6, <1>7, <1>8, SeqEqual
<1>10. Len(Append(w, m)) <= QueueCap /\ Len(Tail(t)) <= 2
  BY <1>2, <1>3, <1>4, Bounds
<1>11. UNCHANGED <<log, feed, lagged, left, fwd, want, sent, relaunched, asks, client, showing,
                   churn, earlier>>
  BY DEF Send
<1> QED BY <1>1, <1>2, <1>3, <1>4, <1>5, <1>9, <1>10, <1>11

LEMMA AskFacts ==
    /\ \A at \in Cursors : Attach(at) \in Ask
    /\ Detach \in Ask
    /\ \A n \in Nat : LoadEarlier(n) \in Ask
    /\ \A m \in Ask : /\ m.type = "attach" => m.cursor \in Cursors
                      /\ m.type = "load-earlier" => m.loaded \in Nat
BY DEF Ask, Attach, Detach, LoadEarlier

LEMMA PageFacts ==
    ASSUME Types, NEW loaded \in Nat
    PROVE  EarlierPage(loaded) \in Histories /\ EarlierPage(loaded) \in Message
<1> DEFINE oldest == IF Length > loaded THEN Length - loaded ELSE 0
           start == IF oldest > Page THEN oldest - Page ELSE 0
<1>1. oldest \in 0..MaxEvents /\ start + 1 \in Nat \ {0}
  BY SMTT(30), TipFacts, Bounds
<1>2. EarlierPage(loaded) = ChatHistory(Span(Run, start + 1, oldest), start > 0)
  BY DEF EarlierPage
<1> HIDE DEF oldest, start
<1>3. Span(Run, start + 1, oldest) \in Seq(Event)
  BY <1>1, TipFacts, SpanFacts
<1>4. (start > 0) \in BOOLEAN
  OBVIOUS
<1> QED BY <1>2, <1>3, <1>4, MessageFacts

LEMMA ReconnectedTypes ==
    ASSUME Types, Reconnected
    PROVE  Types'
<1>1. PICK at : at = Attach(cursor)
  OBVIOUS
<1>2. at \in Ask
  BY <1>1, AskFacts DEF Types
<1>3. asks' \in Seq(Ask)
  BY <1>1, <1>2, EmptySeq DEF Reconnected
<1>4. /\ todo' = <<>> /\ feed' = <<>> /\ wire' = <<>>
      /\ <<>> \in Seq(Message) /\ <<>> \in Seq(0..MaxEvents) /\ Len(<<>>) = 0
  BY EmptySeq DEF Reconnected
<1>5. left' = 0 /\ 0 \in 0..Len(log) /\ log' = log
  BY Bounds DEF Reconnected, Types
<1>6. /\ fwd' = "off" /\ lagged' = FALSE /\ relaunched' = FALSE
      /\ UNCHANGED <<want, sent, client, showing>>
  BY DEF Reconnected
<1>7. /\ todo' \in Seq(Message) /\ Len(todo') <= 2 /\ feed' \in Seq(0..MaxEvents)
      /\ Len(feed') <= Capacity /\ wire' \in Seq(Message) /\ Len(wire') <= QueueCap
  BY <1>4, Bounds
<1> QED BY <1>3, <1>5, <1>6, <1>7 DEF Types, client

LEMMA SpawnTypes ==
    ASSUME Types, fwd' \in {"off", "starting"}, want' \in Cursors,
           todo' = <<>>, feed' = <<>>, lagged' = FALSE, left' = 0, relaunched' \in BOOLEAN,
           asks' \in Seq(Ask), UNCHANGED <<log, sent, wire, client, showing>>
    PROVE  Types'
<1>1. <<>> \in Seq(Message) /\ <<>> \in Seq(0..MaxEvents) /\ Len(<<>>) = 0
  BY EmptySeq
<1>2. 0 \in 0..Len(log)
  BY Bounds DEF Types
<1>3. /\ todo' \in Seq(Message) /\ Len(todo') <= 2 /\ feed' \in Seq(0..MaxEvents)
      /\ Len(feed') <= Capacity
  BY <1>1, Bounds
<1> QED BY <1>2, <1>3 DEF Types, client

-----------------------------------------------------------------------------
(* What a message does to the viewport. *)

Views == [held : Seq(Event), cursor : Cursors, more : BOOLEAN]

\* Where the cursor is after a message.
Moved(at, m) ==
    IF m.type = "reset" THEN [log |-> m.log, seq |-> m.seq]
    ELSE IF m.type = "chat" /\ at # None /\ at.seq < m.seq THEN [log |-> at.log, seq |-> m.seq]
    ELSE at

\* How many of its events are held already, and the others.
Skipped(at, m) ==
    IF at.seq >= m.seq + 1 - Len(m.events) THEN at.seq + 1 - (m.seq + 1 - Len(m.events)) ELSE 0
Others(at, m) == SubSeq(m.events, Skipped(at, m) + 1, Len(m.events))

LEMMA OthersFacts ==
    ASSUME NEW m \in Chats, NEW at \in Place
    PROVE  Others(at, m) \in Seq(Event) /\ Skipped(at, m) \in Nat /\ Len(m.events) \in Nat
<1>1. m.events \in Seq(Event) /\ m.seq \in Nat /\ at.seq \in Nat
  BY Bounds DEF Chats, Place
<1>2. PICK q : q = m.events
  OBVIOUS
<1>3. Len(q) \in Nat /\ \A i \in 1..Len(q) : q[i] \in Event
  BY <1>1, <1>2, DomainFacts
<1>4. PICK k : k = Skipped(at, m)
  OBVIOUS
<1>5. k \in Nat
  BY <1>1, <1>2, <1>3, <1>4 DEF Skipped
<1>6. \A i \in (k + 1)..Len(q) : q[i] \in Event
  BY <1>3, <1>5
<1>7. SubSeq(q, k + 1, Len(q)) \in Seq(Event)
  BY <1>3, <1>5, <1>6, SubSeqProperties
<1> QED BY <1>2, <1>3, <1>4, <1>5, <1>7 DEF Others

LEMMA MovedTypes ==
    ASSUME NEW at \in Cursors, NEW m \in Message
    PROVE  Moved(at, m) \in Cursors
BY MessageFacts DEF Moved, Cursors, Resets, Chats

LEMMA ApplyFacts ==
    ASSUME NEW v \in Views, NEW m \in Message, NEW w, w = Apply(v, m)
    PROVE  /\ w \in Views
           /\ w.cursor = Moved(v.cursor, m)
           /\ m.type = "reset" => w.held = <<>>
           /\ m.type = "history" => w.held = m.events \o v.held
           /\ m.type = "chat" =>
                 w.held = IF v.cursor # None /\ v.cursor.seq < m.seq
                          THEN v.held \o Others(v.cursor, m) ELSE v.held
<1>1. /\ v.held \in Seq(Event) /\ v.cursor \in Cursors /\ v.more \in BOOLEAN
      /\ v = [held |-> v.held, cursor |-> v.cursor, more |-> v.more]
  BY DEF Views
<1>2. Moved(v.cursor, m) \in Cursors
  BY <1>1, MovedTypes
<1>3. CASE m.type = "reset"
  <2>1. w = [held |-> <<>>, cursor |-> [log |-> m.log, seq |-> m.seq], more |-> FALSE]
    BY <1>3 DEF Apply, ResetChat
  <2>2. w = [held |-> <<>>, cursor |-> Moved(v.cursor, m), more |-> FALSE]
    BY <1>3, <2>1 DEF Moved
  <2>3. <<>> \in Seq(Event)
    BY EmptySeq
  <2> QED BY <1>2, <1>3, <2>2, <2>3 DEF Views
<1>4. CASE m.type = "history"
  <2>1. m \in Histories
    BY <1>4, MessageFacts
  <2>2. w = [v EXCEPT !.held = m.events \o v.held, !.more = m.more]
    BY <1>4 DEF Apply, PrependChatHistory
  <2>3. PICK h : h = m.events \o v.held
    OBVIOUS
  <2>4. h \in Seq(Event) /\ m.more \in BOOLEAN
    BY <1>1, <2>1, <2>3, ConcatProperties DEF Histories
  <2>5. w = [held |-> h, cursor |-> v.cursor, more |-> m.more]
    BY <1>1, <2>2, <2>3 DEF Views
  <2>6. Moved(v.cursor, m) = v.cursor
    BY <1>4 DEF Moved
  <2> QED BY <1>1, <1>4, <2>3, <2>4, <2>5, <2>6 DEF Views
<1>5. CASE m.type = "chat"
  <2>1. m \in Chats /\ m.seq \in 0..MaxEvents
    BY <1>5, MessageFacts DEF Chats
  <2>2. w = AppendEvents(v, m)
    BY <1>5 DEF Apply
  <2>3. CASE v.cursor = None \/ m.seq <= v.cursor.seq
    <3>1. w = v
      BY <2>2, <2>3 DEF AppendEvents
    <3>2. v.cursor = None \/ ~(v.cursor.seq < m.seq)
      BY <1>1, <2>1, <2>3, Bounds DEF Cursors
    <3>3. Moved(v.cursor, m) = v.cursor
      BY <1>5, <3>2 DEF Moved
    <3> QED BY <1>5, <3>1, <3>2, <3>3
  <2>4. CASE ~(v.cursor = None \/ m.seq <= v.cursor.seq)
    <3>1. v.cursor \in Place /\ v.cursor # None
      BY <1>1, <2>4 DEF Cursors, Place
    <3>2. v.cursor.seq < m.seq
      BY <2>1, <2>4, <3>1, Bounds DEF Place
    <3>3. PICK o : o = Others(v.cursor, m)
      OBVIOUS
    <3>4. w = [v EXCEPT !.held = v.held \o o, !.cursor = [v.cursor EXCEPT !.seq = m.seq]]
      BY <2>2, <2>4, <3>3 DEF AppendEvents, Others, Skipped
    <3>5. [v.cursor EXCEPT !.seq = m.seq] = Moved(v.cursor, m)
      BY <1>5, <3>1, <3>2 DEF Moved, Place
    <3>6. PICK h : h = v.held \o o
      OBVIOUS
    <3>7. h \in Seq(Event)
      BY <1>1, <2>1, <3>1, <3>3, <3>6, OthersFacts, ConcatProperties
    <3>8. w = [held |-> h, cursor |-> Moved(v.cursor, m), more |-> v.more]
      BY <1>1, <3>4, <3>5, <3>6 DEF Views
    <3> QED BY <1>1, <1>2, <1>5, <3>1, <3>2, <3>3, <3>6, <3>7, <3>8 DEF Views
  <2> QED BY <2>3, <2>4
<1> QED BY <1>3, <1>4, <1>5, MessageFacts

LEMMA ReceiveFacts ==
    ASSUME Types, Receive
    PROVE  /\ wire # <<>> /\ wire' = Tail(wire) /\ Head(wire) \in Message
           /\ View \in Views /\ View' = Apply(View, Head(wire)) /\ View' \in Views
           /\ UNCHANGED <<daemon, asks, showing, churn, earlier>>
<1>1. wire # <<>> /\ wire' = Tail(wire) /\ UNCHANGED <<daemon, asks, showing, churn, earlier>>
  BY DEF Receive
<1>2. View \in Views
  BY DEF Types, View, Views
<1>3. Head(wire) \in Message
  BY <1>1, TailFacts DEF Types
<1>4. PICK v, m, w : v = View /\ m = Head(wire) /\ w = Apply(v, m)
  OBVIOUS
<1>5. w \in Views
  BY <1>2, <1>3, <1>4, ApplyFacts
<1>6. held' = w.held /\ cursor' = w.cursor /\ more' = w.more
  BY <1>4 DEF Receive
<1>7. View' = w
  BY <1>5, <1>6 DEF View, Views
<1> QED BY <1>1, <1>2, <1>3, <1>4, <1>5, <1>7

LEMMA ReceiveTypes ==
    ASSUME Types, Receive
    PROVE  Types'
<1>1. held' \in Seq(Event) /\ cursor' \in Cursors /\ more' \in BOOLEAN
  BY ReceiveFacts DEF View, Views
<1>2. PICK q : q = wire
  OBVIOUS
<1>3. q \in Seq(Message) /\ q # <<>> /\ Len(q) <= QueueCap /\ wire' = Tail(q)
  BY <1>2, ReceiveFacts DEF Types
<1>4. wire' \in Seq(Message) /\ Len(wire') <= QueueCap
  BY <1>3, TailFacts, Bounds
<1> QED BY <1>1, <1>4, ReceiveFacts DEF Types, daemon

-----------------------------------------------------------------------------
LEMMA AsksTypes ==
    ASSUME Types, asks # <<>>
    PROVE  Head(asks) \in Ask /\ Tail(asks) \in Seq(Ask)
BY TailFacts DEF Types

LEMMA PersonTypes ==
    ASSUME Types, Mount \/ Unmount \/ AskEarlier
    PROVE  Types'
<1>1. PICK a \in Ask : asks' = Append(asks, a)
  <2>1. CASE Mount
    <3>1. Attach(cursor) \in Ask
      BY AskFacts DEF Types
    <3> QED BY <2>1, <3>1 DEF Mount
  <2>2. CASE Unmount
    BY <2>2, AskFacts DEF Unmount
  <2>3. CASE AskEarlier
    <3>1. LoadEarlier(Len(held)) \in Ask
      BY AskFacts, LenProperties DEF Types
    <3> QED BY <2>3, <3>1 DEF AskEarlier
  <2> QED BY <2>1, <2>2, <2>3
<1>2. asks' \in Seq(Ask)
  BY <1>1, AppendProperties DEF Types
<1>3. showing' \in BOOLEAN /\ UNCHANGED <<daemon, wire, client>>
  BY DEF Mount, Unmount, AskEarlier, Types
<1> QED BY <1>2, <1>3 DEF Types, daemon, client

LEMMA ConnectionTypes ==
    ASSUME Types, HandleAttach \/ HandleDetach \/ HandleLoadEarlier \/ SessionRestarted \/ Break
    PROVE  Types'
<1>1. CASE HandleAttach
  <2>1. /\ Head(asks).cursor \in Cursors /\ asks' \in Seq(Ask)
    BY <1>1, AsksTypes, AskFacts DEF HandleAttach
  <2>2. relaunched' \in BOOLEAN
    BY <1>1 DEF HandleAttach, Types
  <2>3. /\ fwd' = "starting" /\ want' \in Cursors /\ todo' = <<>> /\ feed' = <<>> /\ lagged' = FALSE
        /\ left' = 0 /\ UNCHANGED <<log, sent, wire, client, showing>>
    BY <1>1, <2>1 DEF HandleAttach, Spawn
  <2> QED BY <2>1, <2>2, <2>3, SpawnTypes
<1>2. CASE HandleDetach
  <2>1. asks' \in Seq(Ask)
    BY <1>2, AsksTypes DEF HandleDetach
  <2>2. relaunched' \in BOOLEAN /\ want' \in Cursors
    BY <1>2 DEF HandleDetach, Types
  <2>3. /\ fwd' = "off" /\ todo' = <<>> /\ feed' = <<>> /\ lagged' = FALSE
        /\ left' = 0 /\ UNCHANGED <<log, sent, wire, client, showing>>
    BY <1>2 DEF HandleDetach
  <2> QED BY <2>1, <2>2, <2>3, SpawnTypes
<1>3. CASE HandleLoadEarlier
  <2>1. PICK p : p = EarlierPage(Head(asks).loaded)
    OBVIOUS
  <2>2. p \in Message /\ asks # <<>> /\ Tail(asks) \in Seq(Ask)
    BY <1>3, <2>1, AsksTypes, AskFacts, PageFacts DEF HandleLoadEarlier
  <2>3. CASE Reconnected
    BY <2>3, ReconnectedTypes
  <2>4. CASE /\ p.events = <<>> \/ Len(wire) < QueueCap
             /\ wire' = IF p.events = <<>> THEN wire ELSE Append(wire, p)
             /\ asks' = Tail(asks)
             /\ UNCHANGED <<daemon, client, showing>>
    <3>1. PICK q : q = wire
      OBVIOUS
    <3>2. q \in Seq(Message) /\ Len(q) <= QueueCap /\ Len(q) \in Nat
      BY <3>1, LenProperties DEF Types
    <3>3. wire' \in Seq(Message) /\ Len(wire') <= QueueCap
      BY <2>2, <2>4, <3>1, <3>2, AppendFacts, Bounds
    <3>4. asks' \in Seq(Ask)
      BY <2>2, <2>4
    <3> QED BY <2>4, <3>3, <3>4 DEF Types, daemon, client
  <2> QED BY <1>3, <2>1, <2>3, <2>4 DEF HandleLoadEarlier
<1>4. CASE SessionRestarted
  <2>1. None \in Cursors
    BY DEF Cursors
  <2>2. relaunched' \in BOOLEAN /\ asks' \in Seq(Ask) /\ UNCHANGED <<log, sent, wire, client, showing>>
    BY <1>4 DEF SessionRestarted, Types
  <2>3. CASE fwd = "off"
    <3>1. UNCHANGED <<fwd, want, todo, feed, lagged, left>>
      BY <1>4, <2>3 DEF SessionRestarted
    <3> QED BY <2>2, <3>1 DEF Types, client
  <2>4. CASE fwd # "off"
    <3>1. /\ fwd' = "starting" /\ want' \in Cursors /\ todo' = <<>> /\ feed' = <<>>
          /\ lagged' = FALSE /\ left' = 0
      BY <1>4, <2>1, <2>4 DEF SessionRestarted, Spawn
    <3> QED BY <2>2, <3>1, SpawnTypes
  <2> QED BY <2>3, <2>4
<1>5. CASE Break
  BY <1>5, ReconnectedTypes DEF Break
<1> QED BY <1>1, <1>2, <1>3, <1>4, <1>5

LEMMA ForwarderTypes ==
    ASSUME Types, Begin \/ Send \/ Forward \/ Lagged
    PROVE  Types'
<1>1. CASE Begin
  <2>1. want \in Cursors
    BY DEF Types
  <2>2. /\ Level(want) /\ fwd' \in {"off", "starting", "on"}
        /\ UNCHANGED <<log, left, want, relaunched, asks, wire, client, showing>>
    BY <1>1 DEF Begin
  <2> QED BY <2>1, <2>2, LevelTypes
<1>2. CASE Send
  <2>1. /\ wire' \in Seq(Message) /\ Len(wire') <= QueueCap
        /\ todo' \in Seq(Message) /\ Len(todo') <= 2
        /\ UNCHANGED <<log, feed, lagged, left, fwd, want, sent, relaunched, asks, client, showing>>
    BY <1>2, SendFacts
  <2> QED BY <2>1 DEF Types, client
<1>3. CASE Lagged
  <2>1. sent \in Cursors
    BY DEF Types
  <2>2. /\ Level(sent) /\ fwd' \in {"off", "starting", "on"}
        /\ UNCHANGED <<log, left, want, relaunched, asks, wire, client, showing>>
    BY <1>3 DEF Lagged, CatchUp
  <2> QED BY <2>1, <2>2, LevelTypes
<1> QED BY <1>1, <1>2, <1>3, ForwardTypes

LEMMA TypesStep == Types /\ [Next]_vars => Types'
<1> SUFFICES ASSUME Types, [Next]_vars PROVE Types'
  OBVIOUS
<1>1. CASE UNCHANGED vars
  BY <1>1 DEF vars, daemon, client, Types
<1>2. CASE Next
  BY <1>2, LogTypes, ForwarderTypes, ConnectionTypes, ReceiveTypes, PersonTypes DEF Next, Progress
<1> QED BY <1>1, <1>2

LEMMA InitTypes == Init => Types
<1> SUFFICES ASSUME Init PROVE Types
  OBVIOUS
<1>1. 0 \in 0..MaxEvents /\ 1 \in 1..MaxRuns
  BY Bounds
<1>2. <<0>> \in Seq(0..MaxEvents) /\ Len(<<0>>) = 1
  BY <1>1, PairFacts
<1>3. <<>> \in Seq(0..MaxEvents) /\ <<>> \in Seq(Message) /\ <<>> \in Seq(Ask) /\ <<>> \in Seq(Event)
      /\ Len(<<>>) = 0
  BY EmptySeq
<1>4. None \in Cursors
  BY DEF Cursors
<1>5. /\ log \in Seq(0..MaxEvents) /\ Len(log) = 1 /\ feed \in Seq(0..MaxEvents) /\ Len(feed) = 0
      /\ todo \in Seq(Message) /\ Len(todo) = 0 /\ wire \in Seq(Message) /\ Len(wire) = 0
      /\ asks \in Seq(Ask) /\ held \in Seq(Event)
  BY <1>2, <1>3 DEF Init
<1>6. /\ lagged = FALSE /\ relaunched = FALSE /\ showing = FALSE /\ more = FALSE
      /\ left = 0 /\ fwd = "off" /\ want = None /\ sent = None /\ cursor = None
  BY DEF Init
<1>7. left \in 0..Len(log) /\ Len(feed) <= Capacity /\ Len(todo) <= 2 /\ Len(wire) <= QueueCap
  BY <1>5, <1>6, Bounds
<1> QED BY <1>1, <1>4, <1>5, <1>6, <1>7 DEF Types

\* The transcript, its feed, what is under way and what the viewport shows stay in their types: no
\* page reaches outside its run, no queue past its capacity (chat_log.rs, connection.rs, store).
THEOREM TypeCorrect == Spec => []TypeOK
<1>1. Types => TypeOK
  <2> SUFFICES ASSUME Types PROVE TypeOK
    OBVIOUS
  <2>1. \A i \in 1..Len(held) : held[i] \in (1..MaxRuns) \X (1..MaxEvents)
    BY ElementOfSeq DEF Types, Event
  <2>2. left \in 0..MaxRuns
    BY Bounds DEF Types
  <2> QED BY <2>1, <2>2 DEF Types, TypeOK
<1> QED BY <1>1, InitTypes, TypesStep, PTL DEF Spec

-----------------------------------------------------------------------------
(* What is on its way to the viewport: messages that take its cursor on     *)
(* from place to place, each from a place it will have reached.             *)

\* A place in the log, or in a later run of it, no earlier than another.
Upto(p, q) == p.log < q.log \/ (p.log = q.log /\ p.seq <= q.seq)

\* A place a log of these lengths has.
Real(p, lengths) == p.log <= Len(lengths) /\ p.seq <= lengths[p.log]

Moves(m) == m.type # "history"

\* The place a message that moves the cursor takes it to.
At(m) == [log |-> IF m.type = "reset" THEN m.log ELSE m.events[1][1], seq |-> m.seq]

\* From this place on, the message leaves nothing out.
Joins(p, m) == p.log = At(m).log /\ m.seq <= p.seq + Len(m.events)

Well(m, lengths) ==
    /\ Moves(m) => Real(At(m), lengths)
    /\ m.type = "chat" =>
          /\ Len(m.events) \in 1..m.seq
          /\ m.events = Span(At(m).log, m.seq + 1 - Len(m.events), m.seq)

InLog(q, lengths) == \A i \in 1..Len(q) : Well(q[i], lengths)

\* The messages lead from the cursor to the tip and never back.
InOrder(q, at, tip) ==
    /\ \A i \in 1..Len(q) : Moves(q[i]) => /\ Upto(At(q[i]), tip)
                                           /\ at # None => Upto(at, At(q[i]))
    /\ \A i, j \in 1..Len(q) : i < j /\ Moves(q[i]) /\ Moves(q[j]) => Upto(At(q[i]), At(q[j]))

\* What a message goes on from is where the cursor is, or where an earlier message takes it.
Reaches(q, at, n, p) ==
    \/ at # None /\ at = p
    \/ \E j \in 1..n : Moves(q[j]) /\ At(q[j]) = p
InLine(q, at) ==
    \A i \in 1..Len(q) : q[i].type = "chat" =>
        \E p \in Place : Joins(p, q[i]) /\ Reaches(q, at, i - 1, p)

Queued(q, at, lengths, tip) == InLog(q, lengths) /\ InOrder(q, at, tip) /\ InLine(q, at)

LEMMA UptoFacts ==
    /\ \A p \in Place : Upto(p, p)
    /\ \A p, q, r \in Place : Upto(p, q) /\ Upto(q, r) => Upto(p, r)
    /\ \A p, q \in Place : Upto(p, q) /\ Upto(q, p) => p = q
    /\ \A p \in Place : p.log \in Nat \ {0} /\ p.seq \in Nat /\ p = [log |-> p.log, seq |-> p.seq]
<1>1. \A p \in Place : p.log \in Nat \ {0} /\ p.seq \in Nat /\ p = [log |-> p.log, seq |-> p.seq]
  BY Bounds DEF Place
<1>2. \A p \in Place : Upto(p, p)
  BY <1>1 DEF Upto
<1>3. \A p, q, r \in Place : Upto(p, q) /\ Upto(q, r) => Upto(p, r)
  BY <1>1 DEF Upto
<1>4. \A p, q \in Place : Upto(p, q) /\ Upto(q, p) => p = q
  <2> SUFFICES ASSUME NEW p \in Place, NEW q \in Place, Upto(p, q), Upto(q, p) PROVE p = q
    OBVIOUS
  <2>1. p.log = q.log /\ p.seq = q.seq
    BY <1>1 DEF Upto
  <2> QED BY <1>1, <2>1
<1> QED BY <1>1, <1>2, <1>3, <1>4

LEMMA AtFacts ==
    ASSUME NEW m \in Message, NEW lengths, Well(m, lengths), Moves(m)
    PROVE  /\ At(m) \in Place /\ m.seq \in Nat /\ At(m).seq = m.seq
           /\ m.type = "chat" => Len(m.events) \in Nat \ {0}
<1>1. m.seq \in 0..MaxEvents /\ At(m).seq = m.seq
  BY MessageFacts DEF Moves, At, Resets, Chats
<1>2. CASE m.type = "reset"
  <2>1. At(m) = [log |-> m.log, seq |-> m.seq] /\ m.log \in 1..MaxRuns
    BY <1>2, MessageFacts DEF At, Resets
  <2> QED BY <1>1, <1>2, <2>1, Bounds DEF Place
<1>3. CASE m.type = "chat"
  <2>1. m.events \in Seq(Event)
    BY <1>3, MessageFacts DEF Chats
  <2>2. Len(m.events) \in Nat \ {0}
    BY <1>1, <1>3, Bounds DEF Well
  <2>3. m.events[1] \in Event
    BY <2>1, <2>2, ElementOfSeq
  <2>4. m.events[1][1] \in 1..MaxRuns
    BY <2>3 DEF Event
  <2>5. At(m) = [log |-> m.events[1][1], seq |-> m.seq]
    BY <1>3 DEF At
  <2> QED BY <1>1, <1>3, <2>2, <2>4, <2>5, Bounds DEF Place
<1> QED BY <1>2, <1>3, MessageFacts DEF Moves

\* The viewport takes a message: the cursor goes where the message leads.
LEMMA TakesIt ==
    ASSUME NEW q \in Seq(Message), q # <<>>, NEW at \in Cursors, NEW lengths, NEW tip \in Place,
           Queued(q, at, lengths, tip), NEW m, m = q[1]
    PROVE  /\ m \in Message /\ Well(m, lengths)
           /\ Moves(m) => Moved(at, m) = At(m) /\ At(m) \in Place /\ Upto(At(m), tip)
                          /\ (at # None => Upto(at, At(m))) /\ Real(At(m), lengths)
           /\ ~Moves(m) => Moved(at, m) = at
           /\ m.type = "chat" => at \in Place /\ at # None /\ at.log = At(m).log /\ at.seq <= m.seq
                                 /\ m.seq <= at.seq + Len(m.events)
<1>1. Len(q) \in Nat \ {0} /\ m \in Message /\ 1 \in 1..Len(q)
  BY TailFacts
<1>2. Well(m, lengths)
  BY <1>1 DEF Queued, InLog
<1>3. Moves(m) => At(m) \in Place /\ Upto(At(m), tip) /\ (at # None => Upto(at, At(m)))
                  /\ Real(At(m), lengths)
  BY <1>1, <1>2, AtFacts DEF Queued, InOrder, Well
<1>4. ~Moves(m) => Moved(at, m) = at
  BY DEF Moves, Moved
<1>5. CASE m.type = "reset"
  BY <1>1, <1>2, <1>3, <1>4, <1>5 DEF Moves, Moved, At
<1>6. CASE m.type = "history"
  BY <1>1, <1>2, <1>3, <1>4, <1>6 DEF Moves
<1>7. CASE m.type = "chat"
  <2>1. PICK p \in Place : Joins(p, m) /\ Reaches(q, at, 1 - 1, p)
    BY <1>1, <1>7 DEF Queued, InLine
  <2>2. at # None /\ at = p
    <3>1. ~\E j \in 1..(1 - 1) : Moves(q[j]) /\ At(q[j]) = p
      OBVIOUS
    <3> QED BY <2>1, <3>1 DEF Reaches
  <2>3. Moves(m) /\ m.seq \in Nat /\ At(m).seq = m.seq /\ At(m) \in Place
    BY <1>1, <1>2, <1>7, AtFacts DEF Moves
  <2>4. at \in Place /\ at.log = At(m).log /\ m.seq <= at.seq + Len(m.events)
    BY <2>1, <2>2 DEF Joins
  <2>5. at.log \in Nat /\ at.seq \in Nat /\ Upto(at, At(m))
    BY <1>3, <2>2, <2>3, <2>4, UptoFacts
  <2>6. at.seq <= m.seq
    BY <2>3, <2>4, <2>5 DEF Upto
  <2>7. Moved(at, m) = At(m)
    <3>1. At(m) = [log |-> at.log, seq |-> m.seq]
      BY <2>3, <2>4, UptoFacts
    <3>2. CASE at.seq < m.seq
      BY <1>7, <2>2, <3>1, <3>2 DEF Moved
    <3>3. CASE at.seq = m.seq
      BY <1>7, <2>4, <3>1, <3>3, UptoFacts DEF Moved
    <3> QED BY <2>3, <2>5, <2>6, <3>2, <3>3
  <2> QED BY <1>1, <1>2, <1>3, <1>4, <2>2, <2>3, <2>4, <2>6, <2>7
<1> QED BY <1>1, <1>5, <1>6, <1>7, MessageFacts

LEMMA QueuedTail ==
    ASSUME NEW q \in Seq(Message), q # <<>>, NEW at \in Cursors, NEW lengths, NEW tip \in Place,
           Queued(q, at, lengths, tip)
    PROVE  /\ Queued(Tail(q), Moved(at, q[1]), lengths, tip)
           /\ \A p \in Place : Reaches(q, at, Len(q), p) /\ ~(at = p /\ Moves(q[1]) /\ At(q[1]) # p)
                  => Reaches(Tail(q), Moved(at, q[1]), Len(Tail(q)), p)
<1>1. PICK t, m, to : t = Tail(q) /\ m = q[1] /\ to = Moved(at, m)
  OBVIOUS
<1>2. /\ t \in Seq(Message) /\ Len(q) \in Nat \ {0} /\ Len(t) = Len(q) - 1
      /\ \A i \in 1..Len(t) : t[i] = q[i + 1] /\ i + 1 \in 1..Len(q) /\ t[i] \in Message
  BY <1>1, TailFacts
<1>3. /\ m \in Message
      /\ Moves(m) => to = At(m) /\ At(m) \in Place
      /\ ~Moves(m) => to = at
  BY <1>1, TakesIt
<1>4. InLog(t, lengths)
  BY <1>2 DEF Queued, InLog
<1>5. InOrder(t, to, tip)
  <2>1. \A i \in 1..Len(t) : Moves(t[i]) => Upto(At(t[i]), tip)
    BY <1>2 DEF Queued, InOrder
  <2>2. ASSUME NEW i \in 1..Len(t), Moves(t[i]), to # None
        PROVE  Upto(to, At(t[i]))
    <3>1. i + 1 \in 1..Len(q) /\ t[i] = q[i + 1] /\ 1 < i + 1 /\ 1 \in 1..Len(q)
      BY <1>2
    <3>2. CASE Moves(m)
      BY <1>1, <1>3, <2>2, <3>1, <3>2 DEF Queued, InOrder
    <3>3. CASE ~Moves(m)
      BY <1>1, <1>3, <2>2, <3>1, <3>3 DEF Queued, InOrder
    <3> QED BY <3>2, <3>3
  <2>3. ASSUME NEW i \in 1..Len(t), NEW j \in 1..Len(t), i < j, Moves(t[i]), Moves(t[j])
        PROVE  Upto(At(t[i]), At(t[j]))
    <3>1. i + 1 < j + 1 /\ i + 1 \in 1..Len(q) /\ j + 1 \in 1..Len(q)
      BY <1>2, <2>3
    <3> QED BY <1>2, <2>3, <3>1 DEF Queued, InOrder
  <2> QED BY <2>1, <2>2, <2>3 DEF InOrder
\* What was reached from the cursor by the first n messages still is, from where the cursor is now.
<1>6. ASSUME NEW n \in 1..Len(q), NEW p \in Place, Reaches(q, at, n, p),
             ~(at = p /\ Moves(m) /\ At(m) # p)
      PROVE  Reaches(t, to, n - 1, p)
  <2>1. CASE at # None /\ at = p
    <3>1. to = p
      BY <1>3, <1>6, <2>1
    <3> QED BY <2>1, <3>1 DEF Reaches
  <2>2. CASE \E j \in 1..n : Moves(q[j]) /\ At(q[j]) = p
    <3>1. PICK j \in 1..n : Moves(q[j]) /\ At(q[j]) = p
      BY <2>2
    <3>2. CASE j = 1
      <4>1. to = p
        BY <1>1, <1>3, <3>1, <3>2
      <4>2. to # None
        BY <4>1, Bounds
      <4> QED BY <4>1, <4>2 DEF Reaches
    <3>3. CASE j > 1
      <4>1. j - 1 \in 1..(n - 1) /\ j - 1 \in 1..Len(t) /\ j - 1 + 1 = j
        BY <1>2, <3>3
      <4>2. t[j - 1] = q[j]
        BY <1>2, <4>1
      <4> QED BY <3>1, <4>1, <4>2 DEF Reaches
    <3> QED BY <3>2, <3>3
  <2> QED BY <1>6, <2>1, <2>2 DEF Reaches
<1>7. InLine(t, to)
  <2> SUFFICES ASSUME NEW i \in 1..Len(t), t[i].type = "chat"
               PROVE  \E p \in Place : Joins(p, t[i]) /\ Reaches(t, to, i - 1, p)
    BY DEF InLine
  <2>1. i + 1 \in 1..Len(q) /\ t[i] = q[i + 1] /\ i \in 1..Len(q) /\ i + 1 - 1 = i /\ t[i] \in Message
    BY <1>2
  <2>2. PICK p \in Place : Joins(p, t[i]) /\ Reaches(q, at, i, p)
    BY <2>1 DEF Queued, InLine
  <2>3. CASE ~(at = p /\ Moves(m) /\ At(m) # p)
    BY <1>6, <2>1, <2>2, <2>3
  <2>4. CASE at = p /\ Moves(m) /\ At(m) # p
    \* The cursor has gone on, within the run.
    <3>1. at # None /\ at \in Place /\ to = At(m) /\ At(m) \in Place /\ to # None
      BY <1>3, <2>4, Bounds
    <3>2. Upto(at, At(m)) /\ Upto(At(m), At(t[i]))
      <4>1. Upto(at, At(m))
        BY <1>1, <2>4, <3>1, TakesIt
      <4>2. Moves(t[i]) /\ 1 < i + 1 /\ 1 \in 1..Len(q)
        BY <1>2 DEF Moves
      <4> QED BY <1>1, <2>1, <2>4, <4>1, <4>2 DEF Queued, InOrder
    <3>3. Well(t[i], lengths) /\ Moves(t[i])
      BY <1>2, <1>4 DEF InLog, Moves
    <3>4. At(t[i]) \in Place /\ t[i].seq \in Nat /\ Len(t[i].events) \in Nat
      BY <2>1, <3>3, AtFacts
    <3>5. at.log = At(t[i]).log /\ t[i].seq <= at.seq + Len(t[i].events)
      BY <2>2, <2>4 DEF Joins
    <3>6. At(m).log = at.log /\ at.seq <= At(m).seq
      BY SMTT(30), <3>1, <3>2, <3>4, <3>5, UptoFacts DEF Upto
    <3>7. Joins(At(m), t[i])
      BY SMTT(30), <3>1, <3>4, <3>5, <3>6, UptoFacts DEF Joins
    <3>8. Reaches(t, to, i - 1, At(m))
      BY <3>1 DEF Reaches
    <3> QED BY <3>1, <3>7, <3>8
  <2> QED BY <2>3, <2>4
<1>8. \A p \in Place : Reaches(q, at, Len(q), p) /\ ~(at = p /\ Moves(m) /\ At(m) # p)
          => Reaches(t, to, Len(t), p)
  <2>1. Len(q) \in 1..Len(q) /\ Len(t) = Len(q) - 1
    BY <1>2
  <2> QED BY <1>6, <2>1
<1>9. Queued(t, to, lengths, tip)
  BY <1>4, <1>5, <1>7 DEF Queued
<1> QED BY <1>1, <1>8, <1>9

LEMMA StillReaches ==
    ASSUME NEW q \in Seq(Message), q # <<>>, NEW at \in Cursors, NEW lengths, NEW tip \in Place,
           Queued(q, at, lengths, tip), Reaches(q, at, Len(q), tip)
    PROVE  Reaches(Tail(q), Moved(at, q[1]), Len(Tail(q)), tip)
<1>1. PICK m : m = q[1]
  OBVIOUS
<1>2. ~(at = tip /\ Moves(m) /\ At(m) # tip)
  <2> SUFFICES ASSUME at = tip, Moves(m) PROVE At(m) = tip
    OBVIOUS
  <2>1. at # None
    BY Bounds
  <2>2. At(m) \in Place /\ Upto(at, At(m)) /\ Upto(At(m), tip)
    BY <1>1, <2>1, TakesIt
  <2> QED BY <2>2, UptoFacts
<1>3. \A p \in Place : Reaches(q, at, Len(q), p) /\ ~(at = p /\ Moves(q[1]) /\ At(q[1]) # p)
          => Reaches(Tail(q), Moved(at, q[1]), Len(Tail(q)), p)
  BY QueuedTail
<1> QED BY <1>1, <1>2, <1>3

LEMMA NothingQueued ==
    ASSUME NEW at, NEW lengths, NEW tip
    PROVE  Queued(<<>>, at, lengths, tip)
<1>1. 1..Len(<<>>) = {}
  OBVIOUS
<1> QED BY <1>1 DEF Queued, InLog, InOrder, InLine

\* A longer log has every place a shorter one has.
Grows(lengths, new) ==
    /\ lengths \in Seq(0..MaxEvents) /\ new \in Seq(0..MaxEvents)
    /\ Len(lengths) <= Len(new)
    /\ \A i \in 1..Len(lengths) : lengths[i] <= new[i]

LEMMA GrowsFacts ==
    ASSUME NEW lengths, NEW new, Grows(lengths, new), NEW p \in Place, Real(p, lengths)
    PROVE  Real(p, new)
<1>1. Len(lengths) \in Nat /\ Len(new) \in Nat /\ p.log \in Nat \ {0} /\ p.seq \in Nat
  BY DomainFacts, UptoFacts DEF Grows
<1>2. p.log \in 1..Len(lengths) /\ p.log \in 1..Len(new)
  BY <1>1 DEF Grows, Real
<1>3. lengths[p.log] \in 0..MaxEvents /\ new[p.log] \in 0..MaxEvents
  <2>1. PICK S : S = 0..MaxEvents
    OBVIOUS
  <2>2. lengths \in Seq(S) /\ new \in Seq(S)
    BY <2>1 DEF Grows
  <2> QED BY <1>2, <2>1, <2>2, ElementOfSeq
<1>4. lengths[p.log] <= new[p.log] /\ p.seq <= lengths[p.log]
  BY <1>2 DEF Grows, Real
<1>5. p.seq <= new[p.log]
  BY <1>1, <1>3, <1>4, Bounds
<1> QED BY <1>1, <1>2, <1>5 DEF Real

LEMMA QueuedGrow ==
    ASSUME NEW q \in Seq(Message), NEW at, NEW lengths, NEW new, Grows(lengths, new),
           NEW tip \in Place, NEW next \in Place, Upto(tip, next), Queued(q, at, lengths, tip)
    PROVE  Queued(q, at, new, next)
<1>1. \A i \in 1..Len(q) : q[i] \in Message
  BY ElementOfSeq
<1>2. \A i \in 1..Len(q) : Moves(q[i]) => At(q[i]) \in Place
  BY <1>1, AtFacts DEF Queued, InLog
<1>3. InLog(q, new)
  <2> SUFFICES ASSUME NEW i \in 1..Len(q) PROVE Well(q[i], new)
    BY DEF InLog
  <2>1. Well(q[i], lengths)
    BY DEF Queued, InLog
  <2>2. Moves(q[i]) => Real(At(q[i]), new)
    BY <1>2, <2>1, GrowsFacts DEF Well
  <2> QED BY <2>1, <2>2 DEF Well
<1>4. InOrder(q, at, next)
  <2>1. \A i \in 1..Len(q) : Moves(q[i]) => Upto(At(q[i]), next)
    BY <1>2, UptoFacts DEF Queued, InOrder
  <2> QED BY <2>1 DEF Queued, InOrder
<1> QED BY <1>3, <1>4 DEF Queued

\* The forwarder's unsent messages are dropped.
LEMMA QueuedPrefix ==
    ASSUME NEW q \in Seq(Message), NEW t \in Seq(Message), NEW at, NEW lengths, NEW tip,
           Queued(q \o t, at, lengths, tip)
    PROVE  Queued(q, at, lengths, tip)
<1>1. PICK a : a = q \o t
  OBVIOUS
<1>2. /\ Len(q) \in Nat /\ Len(a) = Len(q) + Len(t) /\ Len(t) \in Nat
      /\ \A i \in 1..Len(q) + Len(t) : a[i] = IF i <= Len(q) THEN q[i] ELSE t[i - Len(q)]
  BY <1>1, ConcatProperties, LenProperties
<1>3. \A i \in 1..Len(q) : i \in 1..Len(a) /\ a[i] = q[i]
  BY <1>2
<1>4. Queued(a, at, lengths, tip)
  BY <1>1
<1>5. InLog(q, lengths) /\ InOrder(q, at, tip)
  BY <1>3, <1>4 DEF Queued, InLog, InOrder
<1>6. InLine(q, at)
  <2> SUFFICES ASSUME NEW i \in 1..Len(q), q[i].type = "chat"
               PROVE  \E p \in Place : Joins(p, q[i]) /\ Reaches(q, at, i - 1, p)
    BY DEF InLine
  <2>1. PICK p \in Place : Joins(p, a[i]) /\ Reaches(a, at, i - 1, p)
    BY <1>3, <1>4 DEF Queued, InLine
  <2>2. \A j \in 1..(i - 1) : j \in 1..Len(q)
    BY <1>2
  <2>3. Reaches(q, at, i - 1, p)
    BY <1>3, <2>1, <2>2 DEF Reaches
  <2> QED BY <1>3, <2>1, <2>3
<1> QED BY <1>5, <1>6 DEF Queued

\* A message that leads to the tip, from where the others lead.
LEMMA QueuedMore ==
    ASSUME NEW q \in Seq(Message), NEW at \in Cursors, NEW lengths, NEW tip \in Place,
           NEW next \in Place, Queued(q, at, lengths, tip), Upto(tip, next),
           at # None => Upto(at, next),
           NEW m \in Message, Well(m, lengths), Moves(m) => At(m) = next,
           m.type = "chat" => \E p \in Place : Joins(p, m) /\ Reaches(q, at, Len(q), p),
           NEW a, a = Append(q, m)
    PROVE  /\ a \in Seq(Message)
           /\ Queued(a, at, lengths, next)
           /\ Moves(m) => Reaches(a, at, Len(a), next)
           /\ \A p \in Place : Reaches(q, at, Len(q), p) => Reaches(a, at, Len(a), p)
<1>1. /\ a \in Seq(Message) /\ Len(q) \in Nat /\ Len(a) = Len(q) + 1
      /\ \A i \in 1..Len(q) : i \in 1..Len(a) /\ a[i] = q[i] /\ q[i] \in Message
      /\ a[Len(q) + 1] = m
      /\ \A i \in 1..Len(a) : i \in 1..Len(q) \/ i = Len(q) + 1
  BY AppendFacts
<1>2. \A i \in 1..Len(q) : Moves(q[i]) => At(q[i]) \in Place /\ Upto(At(q[i]), next)
  <2> SUFFICES ASSUME NEW i \in 1..Len(q), Moves(q[i])
               PROVE  At(q[i]) \in Place /\ Upto(At(q[i]), next)
    OBVIOUS
  <2>1. At(q[i]) \in Place
    BY <1>1, AtFacts DEF Queued, InLog
  <2>2. Upto(At(q[i]), tip)
    BY DEF Queued, InOrder
  <2> QED BY <2>1, <2>2, UptoFacts
<1>3. InLog(a, lengths)
  BY <1>1 DEF Queued, InLog
<1>4. InOrder(a, at, next)
  <2>1. ASSUME NEW i \in 1..Len(a), Moves(a[i])
        PROVE  Upto(At(a[i]), next) /\ (at # None => Upto(at, At(a[i])))
    <3>1. CASE i \in 1..Len(q)
      BY <1>1, <1>2, <2>1, <3>1 DEF Queued, InOrder
    <3>2. CASE i = Len(q) + 1
      BY <1>1, <2>1, <3>2, UptoFacts
    <3> QED BY <1>1, <3>1, <3>2
  <2>2. ASSUME NEW i \in 1..Len(a), NEW j \in 1..Len(a), i < j, Moves(a[i]), Moves(a[j])
        PROVE  Upto(At(a[i]), At(a[j]))
    <3>1. i \in 1..Len(q)
      BY <1>1, <2>2
    <3>2. CASE j \in 1..Len(q)
      BY <1>1, <2>2, <3>1, <3>2 DEF Queued, InOrder
    <3>3. CASE j = Len(q) + 1
      BY <1>1, <1>2, <2>2, <3>1, <3>3
    <3> QED BY <1>1, <3>2, <3>3
  <2> QED BY <2>1, <2>2 DEF InOrder
<1>5. \A n \in 0..Len(q), p \in Place : Reaches(q, at, n, p) => Reaches(a, at, n, p)
  <2> SUFFICES ASSUME NEW n \in 0..Len(q), NEW p \in Place, Reaches(q, at, n, p)
               PROVE  Reaches(a, at, n, p)
    OBVIOUS
  <2>1. \A j \in 1..n : j \in 1..Len(q)
    BY <1>1
  <2> QED BY <1>1, <2>1 DEF Reaches
<1>6. InLine(a, at)
  <2> SUFFICES ASSUME NEW i \in 1..Len(a), a[i].type = "chat"
               PROVE  \E p \in Place : Joins(p, a[i]) /\ Reaches(a, at, i - 1, p)
    BY DEF InLine
  <2>1. i - 1 \in 0..Len(q)
    BY <1>1
  <2>2. \E p \in Place : Joins(p, a[i]) /\ Reaches(q, at, i - 1, p)
    <3>1. CASE i \in 1..Len(q)
      BY <1>1, <3>1 DEF Queued, InLine
    <3>2. CASE i = Len(q) + 1
      <4>1. i - 1 = Len(q) /\ a[i] = m
        BY <1>1, <3>2
      <4> QED BY <4>1
    <3> QED BY <1>1, <3>1, <3>2
  <2> QED BY <1>5, <2>1, <2>2
<1>7. Moves(m) => Reaches(a, at, Len(a), next)
  <2>1. Len(a) \in 1..Len(a) /\ a[Len(a)] = m
    BY <1>1
  <2> QED BY <2>1 DEF Reaches
<1>8. \A p \in Place : Reaches(q, at, Len(q), p) => Reaches(a, at, Len(a), p)
  <2> SUFFICES ASSUME NEW p \in Place, Reaches(q, at, Len(q), p) PROVE Reaches(a, at, Len(a), p)
    OBVIOUS
  <2>1. Len(q) \in 0..Len(q)
    BY <1>1
  <2>2. Reaches(a, at, Len(q), p)
    BY <1>5, <2>1
  <2>3. \A j \in 1..Len(q) : j \in 1..Len(a)
    BY <1>1
  <2> QED BY <2>2, <2>3 DEF Reaches
<1> QED BY <1>1, <1>3, <1>4, <1>6, <1>7, <1>8 DEF Queued

\* A page asked for is put in the queue ahead of what the forwarder has still to send.
LEMMA QueuedInsert ==
    ASSUME NEW w \in Seq(Message), NEW t \in Seq(Message), NEW at \in Cursors, NEW lengths,
           NEW tip \in Place, NEW h \in Message, ~Moves(h), Queued(w \o t, at, lengths, tip)
    PROVE  /\ Queued(Append(w, h) \o t, at, lengths, tip)
           /\ \A p \in Place : Reaches(w \o t, at, Len(w \o t), p)
                  => Reaches(Append(w, h) \o t, at, Len(Append(w, h) \o t), p)
<1>1. PICK a, b, v : a = w \o t /\ v = Append(w, h) /\ b = v \o t
  OBVIOUS
<1>2. /\ Len(w) \in Nat /\ Len(t) \in Nat /\ Len(a) = Len(w) + Len(t)
      /\ \A i \in 1..Len(w) + Len(t) : a[i] = IF i <= Len(w) THEN w[i] ELSE t[i - Len(w)]
  BY <1>1, ConcatProperties, LenProperties
<1>3. /\ v \in Seq(Message) /\ Len(v) = Len(w) + 1 /\ v[Len(w) + 1] = h
      /\ \A i \in 1..Len(w) : v[i] = w[i]
  BY <1>1, AppendFacts
<1>4. /\ Len(b) = Len(v) + Len(t)
      /\ \A i \in 1..Len(v) + Len(t) : b[i] = IF i <= Len(v) THEN v[i] ELSE t[i - Len(v)]
  BY <1>1, <1>3, ConcatProperties
<1> DEFINE To(i) == IF i <= Len(w) THEN i ELSE i + 1
           From(i) == IF i <= Len(w) THEN i ELSE i - 1
<1>5. \A i \in 1..Len(a) : To(i) \in 1..Len(b) /\ b[To(i)] = a[i] /\ To(i) # Len(w) + 1
  <2> SUFFICES ASSUME NEW i \in 1..Len(a)
               PROVE  To(i) \in 1..Len(b) /\ b[To(i)] = a[i] /\ To(i) # Len(w) + 1
    OBVIOUS
  <2>1. CASE i <= Len(w)
    BY SMTT(30), <1>2, <1>3, <1>4, <2>1
  <2>2. CASE i > Len(w)
    <3>1. i + 1 \in 1..Len(v) + Len(t) /\ ~(i + 1 <= Len(v)) /\ i + 1 - Len(v) = i - Len(w)
          /\ ~(i <= Len(w)) /\ i \in 1..Len(w) + Len(t)
      BY <1>2, <1>3, <2>2
    <3>2. b[i + 1] = t[i + 1 - Len(v)] /\ a[i] = t[i - Len(w)]
      BY <1>2, <1>4, <3>1
    <3> QED BY <1>2, <1>3, <1>4, <3>1, <3>2
  <2> QED BY <1>2, <2>1, <2>2
<1>6. \A i \in 1..Len(b) : i # Len(w) + 1 =>
          From(i) \in 1..Len(a) /\ To(From(i)) = i /\ b[i] = a[From(i)]
  <2> SUFFICES ASSUME NEW i \in 1..Len(b), i # Len(w) + 1
               PROVE  From(i) \in 1..Len(a) /\ To(From(i)) = i
    BY <1>5
  <2>1. Len(b) = Len(w) + 1 + Len(t)
    BY <1>3, <1>4
  <2> QED BY <1>2, <2>1
<1>7. \A i, j \in 1..Len(b) : i < j /\ i # Len(w) + 1 /\ j # Len(w) + 1 => From(i) < From(j)
  <2>1. Len(b) \in Nat
    BY <1>2, <1>3, <1>4
  <2> QED BY <1>2, <2>1
<1>8. b[Len(w) + 1] = h
  BY <1>2, <1>3, <1>4
<1>9. Queued(a, at, lengths, tip)
  BY <1>1
<1>10. \A i \in 1..Len(b) : Moves(b[i]) => i # Len(w) + 1
  BY <1>8
<1>11. InLog(b, lengths)
  <2> SUFFICES ASSUME NEW i \in 1..Len(b) PROVE Well(b[i], lengths)
    BY DEF InLog
  <2>1. CASE i = Len(w) + 1
    <3>1. h.type # "chat"
      BY MessageFacts DEF Moves
    <3> QED BY <1>8, <2>1, <3>1 DEF Well
  <2>2. CASE i # Len(w) + 1
    BY <1>6, <1>9, <2>2 DEF Queued, InLog
  <2> QED BY <2>1, <2>2
<1> HIDE DEF From, To
<1>12. InOrder(b, at, tip)
  <2>1. ASSUME NEW i \in 1..Len(b), Moves(b[i])
        PROVE  Upto(At(b[i]), tip) /\ (at # None => Upto(at, At(b[i])))
    BY <1>6, <1>9, <1>10, <2>1 DEF Queued, InOrder
  <2>2. ASSUME NEW i \in 1..Len(b), NEW j \in 1..Len(b), i < j, Moves(b[i]), Moves(b[j])
        PROVE  Upto(At(b[i]), At(b[j]))
    <3>1. From(i) \in 1..Len(a) /\ From(j) \in 1..Len(a) /\ From(i) < From(j)
          /\ b[i] = a[From(i)] /\ b[j] = a[From(j)]
      BY <1>6, <1>7, <1>10, <2>2
    <3> QED BY <1>9, <2>2, <3>1 DEF Queued, InOrder
  <2> QED BY <2>1, <2>2 DEF InOrder
<1>13. ASSUME NEW n \in 0..Len(a), NEW k \in Nat, \A j \in 1..n : To(j) \in 1..k,
              NEW p \in Place, Reaches(a, at, n, p)
       PROVE  Reaches(b, at, k, p)
  <2>1. CASE at # None /\ at = p
    BY <2>1 DEF Reaches
  <2>2. CASE \E j \in 1..n : Moves(a[j]) /\ At(a[j]) = p
    <3>1. PICK j \in 1..n : Moves(a[j]) /\ At(a[j]) = p
      BY <2>2
    <3>2. j \in 1..Len(a)
      BY <1>2
    <3>3. To(j) \in 1..k /\ b[To(j)] = a[j]
      BY <1>5, <1>13, <3>2
    <3> QED BY <3>1, <3>3 DEF Reaches
  <2> QED BY <1>13, <2>1, <2>2 DEF Reaches
<1>14. InLine(b, at)
  <2> SUFFICES ASSUME NEW i \in 1..Len(b), b[i].type = "chat"
               PROVE  \E p \in Place : Joins(p, b[i]) /\ Reaches(b, at, i - 1, p)
    BY DEF InLine
  <2>1. i # Len(w) + 1
    BY <1>10 DEF Moves
  <2>2. PICK k : k = From(i)
    OBVIOUS
  <2>3. k \in 1..Len(a) /\ To(k) = i /\ b[i] = a[k] /\ Len(a) \in Nat
    BY <1>2, <1>6, <2>1, <2>2
  <2>4. PICK p \in Place : Joins(p, a[k]) /\ Reaches(a, at, k - 1, p)
    BY <1>9, <2>3 DEF Queued, InLine
  <2>5. \A j \in 1..(k - 1) : To(j) \in 1..(i - 1)
    BY <1>2, <2>3 DEF To
  <2>6. k - 1 \in 0..Len(a) /\ i - 1 \in Nat
    BY <2>3
  <2>7. Reaches(b, at, i - 1, p)
    BY <1>13, <2>4, <2>5, <2>6
  <2> QED BY <2>3, <2>4, <2>7
<1>15. \A p \in Place : Reaches(a, at, Len(a), p) => Reaches(b, at, Len(b), p)
  <2>1. Len(a) \in 0..Len(a) /\ Len(b) \in Nat /\ \A j \in 1..Len(a) : To(j) \in 1..Len(b)
    BY <1>2, <1>3, <1>4, <1>5
  <2> QED BY <1>13, <2>1
<1>16. Queued(b, at, lengths, tip)
  BY <1>11, <1>12, <1>14 DEF Queued
<1> QED BY <1>1, <1>15, <1>16

-----------------------------------------------------------------------------
(* The log's feed: what a receiver has waiting goes on from the place its   *)
(* forwarder has sent, event by event, over a restart of the log or not.    *)

\* The last place of a run.
EndOf(lengths, run) == [log |-> run, seq |-> lengths[run]]

Feeds(q, to, tip, lengths) ==
    /\ q = <<>> => to = tip
    /\ q # <<>> => q[Len(q)] = tip.seq
    /\ q # <<>> /\ q[1] # Restarted => q[1] = to.seq + 1
    /\ \A i \in 2..Len(q) : q[i] # Restarted => q[i] = q[i - 1] + 1
    /\ (\A i \in 1..Len(q) : q[i] # Restarted) => to.log = tip.log
    /\ \A i \in 1..Len(q) : (\A j \in 1..i : q[j] # Restarted) => q[i] <= lengths[to.log]

LEMMA EndOfFacts ==
    ASSUME NEW lengths, NEW new, Grows(lengths, new), Len(new) <= MaxRuns,
           NEW run \in 1..Len(lengths), NEW next \in 1..Len(new), run <= next
    PROVE  /\ EndOf(lengths, run) \in Place /\ EndOf(new, next) \in Place
           /\ Upto(EndOf(lengths, run), EndOf(new, next))
           /\ Real(EndOf(new, next), new)
<1>1. PICK S : S = 0..MaxEvents
  OBVIOUS
<1>2. lengths \in Seq(S) /\ new \in Seq(S) /\ Len(lengths) <= Len(new)
  BY <1>1 DEF Grows
<1>3. /\ Len(lengths) \in Nat /\ Len(new) \in Nat /\ lengths[run] \in S /\ new[next] \in S
      /\ run \in 1..Len(new) /\ new[run] \in S
  BY <1>2, DomainFacts
<1>4. EndOf(lengths, run) \in Place /\ EndOf(new, next) \in Place
  <2>1. run \in 1..MaxRuns /\ next \in 1..MaxRuns
    BY <1>3, Bounds
  <2>2. lengths[run] \in 0..MaxEvents /\ new[next] \in 0..MaxEvents
    BY <1>1, <1>3
  <2> QED BY <2>1, <2>2 DEF EndOf, Place
<1>5. lengths[run] <= new[run]
  BY DEF Grows
<1>6. Upto(EndOf(lengths, run), EndOf(new, next))
  <2>1. CASE run < next
    BY <2>1 DEF EndOf, Upto
  <2>2. CASE run = next
    BY <1>5, <2>2 DEF EndOf, Upto
  <2> QED BY <1>3, <2>1, <2>2
<1>7. Real(EndOf(new, next), new)
  BY <1>1, <1>3, Bounds DEF EndOf, Real
<1> QED BY <1>4, <1>6, <1>7

LEMMA GrowsSelf ==
    ASSUME NEW lengths \in Seq(0..MaxEvents)
    PROVE  Grows(lengths, lengths)
<1>1. PICK S : S = 0..MaxEvents
  OBVIOUS
<1>2. Len(lengths) \in Nat /\ \A i \in 1..Len(lengths) : lengths[i] \in S
  BY <1>1, DomainFacts
<1>3. \A i \in 1..Len(lengths) : lengths[i] <= lengths[i]
  BY <1>1, <1>2, Bounds
<1> QED BY <1>2, <1>3 DEF Grows

LEMMA RunFacts ==
    ASSUME NEW lengths, NEW new, Grows(lengths, new), NEW to \in Place, Real(to, lengths)
    PROVE  /\ to.log \in 1..Len(lengths) /\ lengths[to.log] \in 0..MaxEvents
           /\ new[to.log] \in 0..MaxEvents /\ lengths[to.log] <= new[to.log]
<1>1. PICK S : S = 0..MaxEvents
  OBVIOUS
<1>2. lengths \in Seq(S) /\ new \in Seq(S) /\ Len(lengths) <= Len(new)
  BY <1>1 DEF Grows
<1>3. Len(lengths) \in Nat /\ Len(new) \in Nat
  BY <1>2, DomainFacts
<1>4. to.log \in 1..Len(lengths) /\ to.log \in 1..Len(new)
  BY <1>2, <1>3, UptoFacts DEF Real
<1>5. lengths[to.log] \in S /\ new[to.log] \in S
  BY <1>2, <1>4, DomainFacts
<1> QED BY <1>1, <1>4, <1>5 DEF Grows

LEMMA FeedsGrow ==
    ASSUME NEW q \in Seq(0..MaxEvents), NEW to \in Place, NEW tip \in Place, NEW lengths, NEW new,
           Grows(lengths, new), Real(to, lengths), Feeds(q, to, tip, lengths)
    PROVE  Feeds(q, to, tip, new)
<1>1. \A i \in 1..Len(q) : q[i] \in Nat
  <2>1. PICK S : S = 0..MaxEvents
    OBVIOUS
  <2>2. \A i \in 1..Len(q) : q[i] \in S
    BY <2>1, DomainFacts
  <2> QED BY <2>1, <2>2, Bounds
<1>2. \A i \in 1..Len(q) : (\A j \in 1..i : q[j] # Restarted) => q[i] <= new[to.log]
  <2> SUFFICES ASSUME NEW i \in 1..Len(q), \A j \in 1..i : q[j] # Restarted
               PROVE  q[i] <= new[to.log]
    OBVIOUS
  <2>1. q[i] <= lengths[to.log]
    BY DEF Feeds
  <2> QED BY <1>1, <2>1, RunFacts, Bounds
<1> QED BY <1>2 DEF Feeds

\* An event, or the log's starting over, is published.
LEMMA FeedsMore ==
    ASSUME NEW q \in Seq(0..MaxEvents), NEW to \in Place, NEW tip \in Place, NEW lengths, NEW new,
           Grows(lengths, new), Real(to, lengths), Feeds(q, to, tip, lengths),
           NEW next \in Place, next = EndOf(new, next.log), NEW f, f = next.seq,
           \/ f = Restarted
           \/ f = tip.seq + 1 /\ next.log = tip.log,
           NEW a, a = Append(q, f)
    PROVE  Feeds(a, to, next, new)
<1>1. f \in 0..MaxEvents /\ f \in Nat
  BY Bounds DEF Place
<1>2. PICK S : S = 0..MaxEvents
  OBVIOUS
<1>3. q \in Seq(S) /\ f \in S
  BY <1>1, <1>2
<1>4. /\ Len(q) \in Nat /\ Len(a) = Len(q) + 1 /\ a # <<>>
      /\ \A i \in 1..Len(q) : a[i] = q[i] /\ q[i] \in Nat
      /\ a[Len(q) + 1] = f
      /\ q = <<>> <=> Len(q) = 0
  <2>1. /\ Len(q) \in Nat /\ Len(a) = Len(q) + 1 /\ a # <<>>
        /\ \A i \in 1..Len(q) : a[i] = q[i] /\ q[i] \in S
        /\ a[Len(q) + 1] = f
    BY <1>3, AppendFacts
  <2>2. q = <<>> <=> Len(q) = 0
    BY <1>3, DomainFacts
  <2> QED BY <1>2, <2>1, <2>2, Bounds
<1>5. tip.seq \in Nat /\ to.seq \in Nat
  BY UptoFacts
<1>6. a[Len(a)] = next.seq
  BY <1>4
<1>7. a[1] # Restarted => a[1] = to.seq + 1
  <2>1. CASE Len(q) = 0
    BY <1>4, <2>1 DEF Feeds
  <2>2. CASE Len(q) # 0
    <3>1. 1 \in 1..Len(q) /\ a[1] = q[1] /\ q # <<>>
      BY <1>4, <2>2
    <3> QED BY <3>1 DEF Feeds
  <2> QED BY <2>1, <2>2
<1>8. \A i \in 2..Len(a) : a[i] # Restarted => a[i] = a[i - 1] + 1
  <2> SUFFICES ASSUME NEW i \in 2..Len(a), a[i] # Restarted PROVE a[i] = a[i - 1] + 1
    OBVIOUS
  <2>1. CASE i \in 2..Len(q)
    <3>1. i \in 1..Len(q) /\ i - 1 \in 1..Len(q) /\ a[i] = q[i] /\ a[i - 1] = q[i - 1]
      BY <1>4, <2>1
    <3> QED BY <2>1, <3>1 DEF Feeds
  <2>2. CASE i = Len(q) + 1
    <3>1. i - 1 = Len(q) /\ Len(q) \in 1..Len(q) /\ q # <<>> /\ a[i] = f /\ a[i - 1] = q[Len(q)]
      BY <1>4, <2>2
    <3>2. q[Len(q)] = tip.seq
      BY <3>1 DEF Feeds
    <3> QED BY <3>1, <3>2
  <2> QED BY <1>4, <2>1, <2>2
<1>9. ASSUME \A i \in 1..Len(a) : a[i] # Restarted
      PROVE  to.log = next.log /\ f = tip.seq + 1
  <2>1. f # Restarted /\ \A i \in 1..Len(q) : q[i] # Restarted
    BY <1>4, <1>9
  <2> QED BY <2>1 DEF Feeds
<1>10. \A i \in 1..Len(a) : (\A j \in 1..i : a[j] # Restarted) => a[i] <= new[to.log]
  <2> SUFFICES ASSUME NEW i \in 1..Len(a), \A j \in 1..i : a[j] # Restarted
               PROVE  a[i] <= new[to.log]
    OBVIOUS
  <2>1. CASE i \in 1..Len(q)
    <3>1. \A j \in 1..i : j \in 1..Len(q) /\ q[j] # Restarted
      BY <1>4, <2>1
    <3>2. q[i] <= lengths[to.log]
      BY <2>1, <3>1 DEF Feeds
    <3> QED BY <1>4, <2>1, <3>2, RunFacts, Bounds
  <2>2. CASE i = Len(q) + 1
    <3>1. \A j \in 1..Len(a) : a[j] # Restarted
      BY <1>4, <2>2
    <3>2. to.log = next.log
      BY <1>9, <3>1
    <3>3. new[to.log] = f
      BY <3>2 DEF EndOf
    <3> QED BY <1>1, <1>4, <2>2, <3>3
  <2> QED BY <1>4, <2>1, <2>2
<1> QED BY <1>4, <1>6, <1>7, <1>8, <1>9, <1>10 DEF Feeds

\* The next event is sent on.
LEMMA FeedsTail ==
    ASSUME NEW q \in Seq(0..MaxEvents), q # <<>>, q[1] # Restarted, NEW to \in Place,
           NEW tip \in Place, NEW lengths \in Seq(0..MaxEvents), Real(to, lengths), Upto(to, tip),
           tip = EndOf(lengths, tip.log), Feeds(q, to, tip, lengths),
           NEW next, next = [log |-> to.log, seq |-> q[1]]
    PROVE  /\ next \in Place /\ q[1] = to.seq + 1
           /\ Upto(to, next) /\ Upto(next, tip) /\ Real(next, lengths)
           /\ Feeds(Tail(q), next, tip, lengths)
<1>1. PICK S, t : S = 0..MaxEvents /\ t = Tail(q)
  OBVIOUS
<1>2. /\ Len(q) \in Nat \ {0} /\ Len(t) = Len(q) - 1 /\ t \in Seq(S)
      /\ \A i \in 1..Len(q) - 1 : t[i] = q[i + 1]
      /\ \A i \in 1..Len(q) : q[i] \in S
  BY <1>1, TailFacts
<1>3. q[1] = to.seq + 1 /\ q[1] \in S /\ q[1] <= lengths[to.log]
  <2>1. 1 \in 1..Len(q) /\ \A j \in 1..1 : q[j] # Restarted
    BY <1>2
  <2> QED BY <1>2, <2>1 DEF Feeds
<1>4. next \in Place /\ next.log = to.log /\ next.seq = q[1]
  BY <1>1, <1>3 DEF Place
<1>5. Upto(to, next) /\ Real(next, lengths)
  BY <1>3, <1>4, UptoFacts DEF Upto, Real
<1>6. Upto(next, tip)
  <2>1. CASE to.log < tip.log
    BY <1>4, <2>1 DEF Upto
  <2>2. CASE to.log = tip.log
    <3>1. tip.seq = lengths[tip.log]
      BY DEF EndOf
    <3> QED BY <1>3, <1>4, <2>2, <3>1 DEF Upto
  <2> QED BY <2>1, <2>2 DEF Upto
<1>7. t = <<>> <=> Len(q) = 1
  BY <1>2, DomainFacts
<1>8. ASSUME t = <<>> PROVE next = tip
  <2>1. Len(q) = 1
    BY <1>7, <1>8
  <2>2. \A i \in 1..Len(q) : q[i] # Restarted
    BY <2>1
  <2>3. to.log = tip.log /\ q[1] = tip.seq
    BY <2>1, <2>2 DEF Feeds
  <2> QED BY <1>4, <2>3, UptoFacts
<1>9. ASSUME t # <<>>
      PROVE  /\ t[Len(t)] = tip.seq
             /\ t[1] # Restarted => t[1] = next.seq + 1
  <2>1. Len(q) > 1 /\ Len(t) \in 1..Len(q) - 1 /\ Len(t) + 1 = Len(q)
    BY <1>2, <1>7, <1>9
  <2>2. t[Len(t)] = q[Len(q)] /\ t[1] = q[2] /\ 2 \in 2..Len(q) /\ 2 - 1 = 1
    BY <1>2, <2>1
  <2>3. q[2] # Restarted => q[2] = q[2 - 1] + 1
    BY <2>2 DEF Feeds
  <2>4. q[Len(q)] = tip.seq
    BY DEF Feeds
  <2> QED BY <1>4, <2>2, <2>3, <2>4
<1>10. \A i \in 2..Len(t) : t[i] # Restarted => t[i] = t[i - 1] + 1
  <2> SUFFICES ASSUME NEW i \in 2..Len(t), t[i] # Restarted PROVE t[i] = t[i - 1] + 1
    OBVIOUS
  <2>1. i + 1 \in 2..Len(q) /\ i + 1 - 1 = i /\ t[i] = q[i + 1] /\ t[i - 1] = q[i]
    <3>1. i - 1 \in 1..Len(q) - 1 /\ i - 1 + 1 = i /\ i \in 1..Len(q) - 1
      BY <1>2
    <3> QED BY <1>2, <3>1
  <2> QED BY <2>1 DEF Feeds
<1>11. ASSUME NEW n \in 0..Len(t), \A j \in 1..n : t[j] # Restarted
       PROVE  \A j \in 1..(n + 1) : q[j] # Restarted
  <2> SUFFICES ASSUME NEW j \in 1..(n + 1) PROVE q[j] # Restarted
    OBVIOUS
  <2>1. CASE j = 1
    BY <2>1
  <2>2. CASE j > 1
    <3>1. j - 1 \in 1..n /\ j - 1 \in 1..Len(q) - 1 /\ j - 1 + 1 = j
      BY <1>2, <2>2
    <3>2. t[j - 1] = q[j]
      BY <1>2, <3>1
    <3> QED BY <1>11, <3>1, <3>2
  <2> QED BY <2>1, <2>2
<1>12. (\A i \in 1..Len(t) : t[i] # Restarted) => next.log = tip.log
  <2>1. Len(t) \in 0..Len(t) /\ Len(t) + 1 = Len(q)
    BY <1>2
  <2> QED BY <1>4, <1>11, <2>1 DEF Feeds
<1>13. \A i \in 1..Len(t) : (\A j \in 1..i : t[j] # Restarted) => t[i] <= lengths[next.log]
  <2> SUFFICES ASSUME NEW i \in 1..Len(t), \A j \in 1..i : t[j] # Restarted
               PROVE  t[i] <= lengths[next.log]
    OBVIOUS
  <2>1. i \in 0..Len(t) /\ i + 1 \in 1..Len(q) /\ t[i] = q[i + 1]
    BY <1>2
  <2>2. \A j \in 1..(i + 1) : q[j] # Restarted
    BY <1>11, <2>1
  <2> QED BY <1>4, <2>1, <2>2 DEF Feeds
<1>14. Feeds(t, next, tip, lengths)
  BY <1>8, <1>9, <1>10, <1>12, <1>13 DEF Feeds
<1> QED BY <1>1, <1>3, <1>4, <1>5, <1>6, <1>14

-----------------------------------------------------------------------------
(* The invariant: all that is under way leads the viewport to the place its *)
(* forwarder has been sent, and what the forwarder has waiting leads from   *)
(* there to the end of the log it follows.                                  *)

Ahead == wire \o todo
Tip == EndOf(log, Followed)

\* A place a viewport asks to go on from is one it has been to.
Behind(at) == at = None \/ (cursor # None /\ Upto(at, cursor))

Following ==
    /\ left < Len(log)
    /\ fwd # "on" => todo = <<>> /\ feed = <<>> /\ lagged = FALSE
    /\ fwd = "off" => left = 0
    /\ lagged => feed = <<>>

Asking == \A i \in 1..Len(asks) : asks[i].type = "attach" => Behind(asks[i].cursor)

Asked ==
    /\ Asking
    /\ fwd = "starting" => Behind(want)

Feeding == fwd = "on" /\ ~lagged => Feeds(feed, sent, Tip, log)

Aimed ==
    /\ cursor # None => Real(cursor, log) /\ Upto(cursor, Tip)
    /\ Queued(Ahead, cursor, log, Tip)
    /\ fwd = "on" =>
          /\ Real(sent, log) /\ Upto(sent, Tip)
          /\ cursor # None => Upto(cursor, sent)
          /\ Queued(Ahead, cursor, log, sent)
          /\ Reaches(Ahead, cursor, Len(Ahead), sent)

IInv == Types /\ Following /\ Asked /\ Feeding /\ Aimed

LEMMA Places ==
    ASSUME Types
    PROVE  /\ Tip \in Place /\ Tip = [log |-> Followed, seq |-> End] /\ Tip # None
           /\ Tip.log = Followed /\ Tip.seq = End /\ Tip = EndOf(log, Tip.log)
           /\ Real(Tip, log) /\ Grows(log, log)
           /\ cursor \in Cursors /\ (cursor # None => cursor \in Place)
           /\ fwd = "on" => sent \in Place /\ sent # None
           /\ Ahead \in Seq(Message)
<1>1. Tip = [log |-> Followed, seq |-> End]
  BY DEF Tip, EndOf, End
<1>2. Tip \in Place
  BY <1>1, TipFacts
<1>3. PICK q, n : q = log /\ n = Followed
  OBVIOUS
<1>4. Grows(q, q) /\ n \in 1..Len(q) /\ Len(q) <= MaxRuns
  BY <1>3, GrowsSelf, TipFacts, Bounds DEF Types
<1>5. Real(EndOf(q, n), q)
  <2>1. n <= n
    BY <1>4
  <2> QED BY <1>4, <2>1, EndOfFacts
<1>6. Real(Tip, log)
  BY <1>3, <1>5 DEF Tip
<1>7. PICK w, t : w = wire /\ t = todo
  OBVIOUS
<1>8. w \o t \in Seq(Message)
  BY <1>7, ConcatProperties DEF Types
<1> QED BY SMTT(30), <1>1, <1>2, <1>3, <1>4, <1>6, <1>7, <1>8, Bounds DEF Types, Cursors, Place, Ahead, Tip

LEMMA SpanMessage ==
    ASSUME NEW run \in 1..MaxRuns, NEW b \in 0..MaxEvents, NEW a \in 1..b,
           NEW lengths, NEW place, place = [log |-> run, seq |-> b], Real(place, lengths),
           NEW m, m = Chat(Span(run, a, b), b)
    PROVE  /\ m \in Message /\ m.type = "chat" /\ Moves(m) /\ At(m) = place /\ Well(m, lengths)
           /\ m.events = Span(run, a, b) /\ Len(m.events) = b + 1 - a /\ m.seq = b
<1>1. a \in Nat \ {0} /\ a <= b /\ b \in Nat
  BY Bounds
<1>2. PICK s : s = Span(run, a, b)
  OBVIOUS
<1>3. s \in Seq(Event) /\ Len(s) = b + 1 - a /\ \A i \in 1..(b + 1 - a) : s[i] = <<run, a + i - 1>>
  BY <1>1, <1>2, SpanFacts
<1>4. m.type = "chat" /\ m.events = s /\ m.seq = b
  BY <1>2 DEF Chat
<1>5. m \in Message /\ Moves(m)
  BY <1>2, <1>3, <1>4, MessageFacts DEF Moves
<1>6. 1 \in 1..(b + 1 - a)
  BY <1>1
<1>7. s[1][1] = run
  BY <1>3, <1>6
<1>8. At(m) = place
  BY <1>4, <1>7 DEF At
<1>9. /\ Len(m.events) \in 1..m.seq
      /\ m.seq + 1 - Len(m.events) = a
  BY <1>1, <1>3, <1>4
<1>10. Well(m, lengths)
  <2>1. m.events = Span(At(m).log, m.seq + 1 - Len(m.events), m.seq)
    BY <1>2, <1>4, <1>8, <1>9
  <2> QED BY <1>8, <1>9, <2>1 DEF Well
<1> QED BY <1>2, <1>3, <1>4, <1>5, <1>8, <1>10

LEMMA Associates ==
    ASSUME NEW S, NEW q \in Seq(S), NEW s \in Seq(S), NEW t \in Seq(S)
    PROVE  (q \o s) \o t = q \o (s \o t)
OBVIOUS

LEMMA ConcatFacts ==
    ASSUME NEW q \in Seq(Message), NEW a \in Message, NEW b \in Message
    PROVE  /\ q \o <<>> = q
           /\ q \o <<a>> = Append(q, a)
           /\ q \o <<a, b>> = Append(Append(q, a), b)
<1>1. q \o <<>> = q
  BY ConcatEmptySeq
<1>2. \A s \in Seq(Message), e \in Message : s \o <<e>> = Append(s, e)
  <2> SUFFICES ASSUME NEW s \in Seq(Message), NEW e \in Message PROVE s \o <<e>> = Append(s, e)
    OBVIOUS
  <2>1. PICK t, u, v : t = <<e>> /\ u = s \o t /\ v = Append(s, e)
    OBVIOUS
  <2>2. t \in Seq(Message) /\ Len(t) = 1 /\ t[1] = e
    BY <2>1, PairFacts
  <2>3. /\ u \in Seq(Message) /\ Len(u) = Len(s) + 1
        /\ \A i \in 1..Len(s) + 1 : u[i] = IF i <= Len(s) THEN s[i] ELSE t[i - Len(s)]
    BY <2>1, <2>2, ConcatProperties
  <2>4. /\ v \in Seq(Message) /\ Len(v) = Len(s) + 1 /\ v[Len(s) + 1] = e /\ Len(s) \in Nat
        /\ \A i \in 1..Len(s) : v[i] = s[i]
    BY <2>1, AppendFacts
  <2>5. \A i \in 1..Len(s) + 1 : u[i] = v[i]
    <3> SUFFICES ASSUME NEW i \in 1..Len(s) + 1 PROVE u[i] = v[i]
      OBVIOUS
    <3>1. CASE i <= Len(s)
      BY <2>3, <2>4, <3>1
    <3>2. CASE i = Len(s) + 1
      <4>1. ~(i <= Len(s)) /\ i - Len(s) = 1
        BY <2>4, <3>2
      <4> QED BY <2>2, <2>3, <2>4, <3>2, <4>1
    <3> QED BY <2>4, <3>1, <3>2
  <2>6. u = v
    BY <2>3, <2>4, <2>5, SeqEqual
  <2> QED BY <2>1, <2>6
<1>3. PICK s, t, r : s = <<a>> /\ t = <<b>> /\ r = <<a, b>>
  OBVIOUS
<1>4. s \in Seq(Message) /\ t \in Seq(Message)
  BY <1>3, PairFacts
<1>5. q \o r = (q \o s) \o t
  <2>1. s \o t = r
    BY <1>3, PairFacts
  <2>2. (q \o s) \o t = q \o (s \o t)
    BY <1>4, Associates
  <2> QED BY <2>1, <2>2
<1>6. Append(q, a) \in Seq(Message)
  BY AppendFacts
<1> QED BY <1>1, <1>2, <1>3, <1>5, <1>6

LEMMA QueuedPage ==
    ASSUME NEW q \in Seq(Message), NEW at \in Cursors, NEW lengths, NEW tip \in Place,
           at # None => Upto(at, tip), Queued(q, at, lengths, tip),
           NEW h \in Message, h.type = "history", NEW a, a = Append(q, h)
    PROVE  /\ Queued(a, at, lengths, tip)
           /\ \A p \in Place : Reaches(q, at, Len(q), p) => Reaches(a, at, Len(a), p)
<1>1. ~Moves(h) /\ h.type # "chat" /\ Well(h, lengths)
  BY DEF Moves, Well
<1>2. Upto(tip, tip)
  BY UptoFacts
<1> QED BY <1>1, <1>2, QueuedMore

\* What brings a viewport level does so from wherever it is, if it has been to the place it names.
LEMMA CaughtUp ==
    ASSUME Types, NEW q \in Seq(Message), NEW from \in Cursors, NEW t, Catching(from, t),
           NEW c \in Cursors, c # None => Upto(c, Tip), Queued(q, c, log, Tip),
           from # None => \E p \in Place : Reaches(q, c, Len(q), p) /\ Upto(from, p) /\ Upto(p, Tip),
           NEW a, a = q \o t
    PROVE  Queued(a, c, log, Tip) /\ Reaches(a, c, Len(a), Tip)
<1>1. PICK lengths, tip, run, end : lengths = log /\ tip = Tip /\ run = Followed /\ end = End
  OBVIOUS
<1>2. /\ tip \in Place /\ tip = [log |-> run, seq |-> end] /\ tip.log = run /\ tip.seq = end
      /\ Real(tip, lengths) /\ run \in 1..MaxRuns /\ end \in 0..MaxEvents /\ Upto(tip, tip)
  <2>1. Upto(Tip, Tip)
    BY Places, UptoFacts
  <2> QED BY <1>1, <2>1, Places, TipFacts
<1>3. Queued(q, c, lengths, tip) /\ (c # None => Upto(c, tip))
  BY <1>1
<1>4. PICK r, h : r = ChatReset(run, end) /\ h = LastPage
  OBVIOUS
<1>5. /\ r \in Message /\ Moves(r) /\ At(r) = tip /\ Well(r, lengths) /\ r.type = "reset"
  <2>1. r.type = "reset" /\ r.log = run /\ r.seq = end /\ r \in Message
    BY <1>2, <1>4, MessageFacts DEF ChatReset
  <2>2. At(r) = tip /\ Moves(r)
    BY <1>2, <2>1 DEF At, Moves
  <2> QED BY <1>2, <2>1, <2>2 DEF Well
<1>6. h \in Message /\ ~Moves(h) /\ Well(h, lengths) /\ h.type = "history"
  <2>1. h \in Message /\ h.type = "history"
    BY <1>4, LastPageFacts DEF Histories
  <2> QED BY <2>1 DEF Moves, Well
<1>7. CASE Resumes(from) /\ from.seq = End /\ t = <<>>
  <2>1. from # None /\ from.log = run /\ from.seq = end /\ from \in Place
    BY <1>1, <1>7 DEF Resumes, Cursors, Place
  <2>2. from = tip
    BY <1>2, <2>1, UptoFacts
  <2>3. PICK p \in Place : Reaches(q, c, Len(q), p) /\ Upto(from, p) /\ Upto(p, tip)
    BY <1>1, <2>1
  <2>4. p = tip
    BY <1>2, <2>2, <2>3, UptoFacts
  <2>5. a = q
    BY <1>7, ConcatEmptySeq
  <2> QED BY <1>1, <1>3, <2>3, <2>4, <2>5
<1>8. CASE /\ Resumes(from) /\ from.seq < End
           /\ t = <<Chat(Span(Followed, from.seq + 1, End), End)>>
  <2>1. from # None /\ from.log = run /\ from.seq < end /\ from \in Place
    BY <1>1, <1>8 DEF Resumes, Cursors, Place
  <2>2. PICK p \in Place : Reaches(q, c, Len(q), p) /\ Upto(from, p) /\ Upto(p, tip)
    BY <1>1, <2>1
  <2>3. from.seq \in Nat /\ p.seq \in Nat /\ p.log \in Nat /\ run \in Nat /\ end \in Nat
    BY <1>2, <2>1, UptoFacts, Bounds
  <2>4. p.log = run /\ from.seq <= p.seq
    BY <1>2, <2>1, <2>2, <2>3 DEF Upto
  <2>5. PICK m : m = Chat(Span(run, from.seq + 1, end), end)
    OBVIOUS
  <2>6. from.seq + 1 \in 1..end
    BY <2>1, <2>3
  <2>7. /\ m \in Message /\ m.type = "chat" /\ Moves(m) /\ At(m) = tip /\ Well(m, lengths)
        /\ Len(m.events) = end + 1 - (from.seq + 1) /\ m.seq = end
    BY <1>2, <2>5, <2>6, SpanMessage
  <2>8. Joins(p, m)
    BY <1>2, <2>3, <2>4, <2>7 DEF Joins
  <2>9. a = Append(q, m)
    BY <1>1, <1>8, <2>5, <2>7, ConcatFacts
  <2>10. Queued(a, c, lengths, tip) /\ Reaches(a, c, Len(a), tip)
    BY <1>2, <1>3, <2>2, <2>7, <2>8, <2>9, QueuedMore
  <2> QED BY <1>1, <2>10
<1>9. PICK b : b = Append(q, r)
  OBVIOUS
<1>10. b \in Seq(Message) /\ Queued(b, c, lengths, tip) /\ Reaches(b, c, Len(b), tip)
  <2>1. r.type # "chat"
    BY <1>5
  <2> QED BY <1>2, <1>3, <1>5, <1>9, <2>1, QueuedMore
<1>11. CASE t = <<ChatReset(Followed, End)>>
  <2>1. a = b
    BY <1>1, <1>4, <1>5, <1>9, <1>11, ConcatFacts
  <2> QED BY <1>1, <1>10, <2>1
<1>12. CASE t = <<ChatReset(Followed, End), LastPage>>
  <2>1. a = Append(b, h)
    BY <1>1, <1>4, <1>5, <1>6, <1>9, <1>12, ConcatFacts
  <2>2. /\ tip \in Place /\ (c # None => Upto(c, tip)) /\ b \in Seq(Message)
        /\ Queued(b, c, lengths, tip) /\ h \in Message /\ h.type = "history"
    BY <1>2, <1>3, <1>6, <1>10
  <2>3. /\ Queued(a, c, lengths, tip)
        /\ \A p \in Place : Reaches(b, c, Len(b), p) => Reaches(a, c, Len(a), p)
    BY <2>1, <2>2, QueuedPage
  <2> QED BY <1>1, <1>10, <2>2, <2>3
<1> QED BY <1>7, <1>8, <1>11, <1>12 DEF Catching

-----------------------------------------------------------------------------
(* The log grows, starts over or makes way for another. *)

LEMMA LogFacts ==
    ASSUME Types, Following, Push \/ Restart \/ Relaunch
    PROVE  /\ Grows(log, log') /\ Len(log') <= MaxRuns
           /\ left' < Len(log') /\ Followed' \in 1..Len(log') /\ Followed <= Followed'
           /\ fwd = "off" => left' = 0
           /\ UNCHANGED <<fwd, want, sent, todo, asks, wire, cursor>>
           /\ \/ UNCHANGED <<feed, lagged>> /\ (fwd = "on" /\ ~lagged => Tip' = Tip)
              \/ fwd = "on" /\ lagged' = TRUE /\ feed' = <<>>
              \/ /\ fwd = "on" /\ lagged = FALSE /\ lagged' = FALSE
                 /\ feed' = Append(feed, Tip'.seq)
                 /\ Tip'.seq = Restarted \/ (Tip'.seq = Tip.seq + 1 /\ Tip'.log = Tip.log)
<1>1. PICK S, q, n : S = 0..MaxEvents /\ q = log /\ n = Len(log)
  OBVIOUS
<1>2. /\ q \in Seq(S) /\ n = Len(q) /\ n \in 1..MaxRuns /\ n \in Nat /\ n \in 1..n
      /\ \A i \in 1..n : q[i] \in S /\ q[i] \in Nat
  <2>1. q \in Seq(S) /\ n = Len(q) /\ n \in 1..MaxRuns
    BY <1>1 DEF Types
  <2>2. \A i \in 1..n : q[i] \in S
    BY <2>1, DomainFacts
  <2> QED BY <1>1, <2>1, <2>2, Bounds
<1>3. left \in 0..n /\ left < n /\ Run = n /\ Length = q[n]
  BY <1>1 DEF Types, Following, Run, Length
<1>4. Followed = (IF left = 0 THEN n ELSE left) /\ Tip = EndOf(q, Followed)
  BY <1>1, <1>3 DEF Followed, Tip
<1>5. CASE Push
  <2>1. q[n] + 1 \in S /\ q[n] < MaxEvents
    BY <1>1, <1>2, <1>3, <1>5, Bounds DEF Push
  <2>2. PICK new : new = [q EXCEPT ![n] = q[n] + 1]
    OBVIOUS
  <2>3. log' = new /\ left' = left
    BY <1>1, <1>3, <1>5, <2>2 DEF Push
  <2>4. PICK k : k = q[n] + 1
    OBVIOUS
  <2>5. new = [q EXCEPT ![n] = k]
    BY <2>2, <2>4
  <2>6. new \in Seq(S) /\ Len(new) = n
    BY <1>2, <2>1, <2>4, <2>5, ExceptSeq
  <2>7. \A i \in 1..n : new[i] = IF i = n THEN q[n] + 1 ELSE q[i]
    BY <1>2, <2>2, DomainFacts
  <2>8. \A i \in 1..n : q[i] <= new[i]
    BY <1>2, <2>7
  <2>9. Grows(log, log') /\ Len(log') <= MaxRuns
    BY <1>1, <1>2, <2>3, <2>6, <2>8, Bounds DEF Grows
  <2>10. Followed' = Followed /\ Tip' = EndOf(new, Followed)
    <3>1. Len(log') = n
      BY <2>3, <2>6
    <3>2. Followed' = IF left = 0 THEN n ELSE left
      BY <2>3, <3>1 DEF Followed, Run
    <3> QED BY <1>4, <2>3, <3>2 DEF Tip
  <2>11. left' < Len(log') /\ Followed' \in 1..Len(log') /\ Followed <= Followed'
    BY <1>2, <1>3, <1>4, <2>3, <2>6, <2>10
  <2>12. UNCHANGED <<fwd, want, sent, todo, asks, wire, cursor>> /\ Publish(Length + 1)
    BY <1>5 DEF Push, client
  <2>13. CASE left # 0
    <3>1. UNCHANGED <<feed, lagged>>
      BY <2>12, <2>13 DEF Publish
    <3>2. new[left] = q[left]
      BY <1>3, <2>7, <2>13
    <3>3. Tip' = Tip
      BY <1>4, <2>10, <2>13, <3>2 DEF EndOf
    <3> QED BY <2>3, <2>9, <2>11, <2>12, <3>1, <3>3 DEF Following
  <2>14. CASE left = 0
    <3>1. Followed = n /\ Tip' = [log |-> n, seq |-> q[n] + 1] /\ Tip = [log |-> n, seq |-> q[n]]
      BY <1>2, <1>4, <2>7, <2>10, <2>14 DEF EndOf
    <3>2. Tip'.seq = q[n] + 1 /\ Tip'.log = n /\ Tip.seq = q[n] /\ Tip.log = n
      BY <3>1
    <3>3. \/ fwd # "on" /\ UNCHANGED <<feed, lagged>>
          \/ fwd = "on" /\ lagged' = TRUE /\ feed' = <<>>
          \/ lagged = TRUE /\ UNCHANGED <<feed, lagged>>
          \/ fwd = "on" /\ lagged = FALSE /\ feed' = Append(feed, q[n] + 1) /\ lagged' = FALSE
      BY <1>3, <2>12, <2>14 DEF Publish, Types
    <3> QED BY <2>3, <2>9, <2>11, <2>12, <2>14, <3>2, <3>3
  <2> QED BY <2>13, <2>14
<1>6. ASSUME NEW seed \in S, log' = Append(log, seed), n < MaxRuns
      PROVE  /\ Grows(log, log') /\ Len(log') = n + 1 /\ Len(log') <= MaxRuns
             /\ \A i \in 1..n : log'[i] = q[i]
             /\ log'[n + 1] = seed
  <2>1. PICK new : new = Append(q, seed)
    OBVIOUS
  <2>2. /\ new \in Seq(S) /\ Len(new) = n + 1 /\ new[n + 1] = seed
        /\ \A i \in 1..n : new[i] = q[i]
    BY <1>2, <2>1, AppendFacts
  <2>3. log' = new
    BY <1>1, <1>6, <2>1
  <2>4. \A i \in 1..n : q[i] <= new[i]
    BY <1>2, <2>2
  <2>5. Grows(q, new)
    BY <1>1, <1>2, <2>2, <2>4 DEF Grows
  <2> QED BY <1>1, <1>2, <1>6, <2>2, <2>3, <2>5, Bounds
<1>7. CASE Restart
  <2>1. log' = Append(log, 0) /\ left' = left /\ n < MaxRuns /\ 0 \in S
    BY <1>1, <1>3, <1>7, Bounds DEF Restart
  <2>2. /\ Grows(log, log') /\ Len(log') = n + 1 /\ Len(log') <= MaxRuns
        /\ \A i \in 1..n : log'[i] = q[i]
        /\ log'[n + 1] = 0
    BY <1>6, <2>1
  <2>3. Followed' = IF left = 0 THEN n + 1 ELSE left
    BY <2>1, <2>2 DEF Followed, Run
  <2>4. left' < Len(log') /\ Followed' \in 1..Len(log') /\ Followed <= Followed'
    BY <1>2, <1>3, <1>4, <2>1, <2>2, <2>3
  <2>5. UNCHANGED <<fwd, want, sent, todo, asks, wire, cursor>> /\ Publish(Restarted)
    BY <1>7 DEF Restart, client
  <2>6. CASE left # 0
    <3>1. UNCHANGED <<feed, lagged>>
      BY <2>5, <2>6 DEF Publish
    <3>2. log'[left] = q[left] /\ Followed' = left /\ Followed = left
      BY <1>3, <1>4, <2>2, <2>3, <2>6
    <3>3. Tip' = Tip
      BY <1>4, <3>2 DEF EndOf, Tip
    <3> QED BY <2>1, <2>2, <2>4, <2>5, <3>1, <3>3 DEF Following
  <2>7. CASE left = 0
    <3>1. Tip'.seq = 0
      BY <2>2, <2>3, <2>7 DEF Tip, EndOf
    <3>2. \/ fwd # "on" /\ UNCHANGED <<feed, lagged>>
          \/ fwd = "on" /\ lagged' = TRUE /\ feed' = <<>>
          \/ lagged = TRUE /\ UNCHANGED <<feed, lagged>>
          \/ fwd = "on" /\ lagged = FALSE /\ feed' = Append(feed, Restarted) /\ lagged' = FALSE
      BY <2>5, <2>7 DEF Publish, Types
    <3> QED BY <2>1, <2>2, <2>4, <2>5, <2>7, <3>1, <3>2 DEF Restarted
  <2> QED BY <2>6, <2>7
<1>8. CASE Relaunch
  <2>1. PICK seed \in S : log' = Append(log, seed)
    BY <1>1, <1>8, Bounds DEF Relaunch
  <2>2. n < MaxRuns /\ left' = IF fwd = "off" \/ left # 0 THEN left ELSE n
    BY <1>3, <1>8 DEF Relaunch
  <2>3. /\ Grows(log, log') /\ Len(log') = n + 1 /\ Len(log') <= MaxRuns
        /\ \A i \in 1..n : log'[i] = q[i]
    BY <1>6, <2>1, <2>2
  <2>4. UNCHANGED <<feed, lagged, fwd, want, sent, todo, asks, wire, cursor>>
    BY <1>8 DEF Relaunch, client
  <2>5. Followed' = IF left' = 0 THEN n + 1 ELSE left'
    BY <2>3 DEF Followed, Run
  <2>6. left' < Len(log') /\ Followed' \in 1..Len(log') /\ Followed <= Followed'
    BY <1>2, <1>3, <1>4, <2>2, <2>3, <2>5
  <2>7. fwd = "off" => left' = 0
    BY <2>2 DEF Following
  <2>8. fwd = "on" => Tip' = Tip
    <3> SUFFICES ASSUME fwd = "on" PROVE Tip' = Tip
      OBVIOUS
    <3>1. Followed' = Followed /\ Followed \in 1..n
      BY <1>2, <1>3, <1>4, <2>2, <2>5
    <3>2. log'[Followed] = q[Followed]
      BY <2>3, <3>1
    <3> QED BY <1>4, <3>1, <3>2 DEF EndOf, Tip
  <2> QED BY <2>3, <2>4, <2>6, <2>7, <2>8
<1> QED BY <1>5, <1>7, <1>8

LEMMA LogKeeps ==
    ASSUME IInv, Push \/ Restart \/ Relaunch
    PROVE  Following' /\ Asked' /\ Feeding' /\ Aimed'
<1>1. PICK l, n, c, a, t, u, f, s :
          l = log /\ n = log' /\ c = cursor /\ a = Ahead /\ t = Tip /\ u = Tip' /\ f = feed /\ s = sent
  OBVIOUS
<1>2. /\ Grows(l, n) /\ Len(n) <= MaxRuns
      /\ left' < Len(n) /\ Followed' \in 1..Len(n) /\ Followed <= Followed'
      /\ fwd = "off" => left' = 0
      /\ UNCHANGED <<fwd, want, sent, todo, asks, wire, cursor>>
      /\ \/ UNCHANGED <<feed, lagged>> /\ (fwd = "on" /\ ~lagged => u = t)
         \/ fwd = "on" /\ lagged' = TRUE /\ feed' = <<>>
         \/ /\ fwd = "on" /\ lagged = FALSE /\ lagged' = FALSE
            /\ feed' = Append(f, u.seq)
            /\ u.seq = Restarted \/ (u.seq = t.seq + 1 /\ u.log = t.log)
  BY <1>1, LogFacts DEF IInv
<1>3. /\ cursor' = c /\ Ahead' = a /\ sent' = s /\ fwd' = fwd /\ a \in Seq(Message)
      /\ c \in Cursors /\ (c # None => c \in Place) /\ (fwd = "on" => s \in Place) /\ t \in Place
  BY <1>1, <1>2, Places DEF IInv, Ahead
<1>4. u \in Place /\ Upto(t, u) /\ Real(u, n) /\ u = EndOf(n, u.log)
  <2>1. PICK i, j : i = Followed /\ j = Followed'
    OBVIOUS
  <2>2. i \in 1..Len(l) /\ j \in 1..Len(n) /\ i <= j
    BY <1>1, <1>2, <2>1, TipFacts DEF IInv
  <2>3. t = EndOf(l, i) /\ u = EndOf(n, j)
    BY <1>1, <2>1 DEF Tip
  <2>4. u \in Place /\ Upto(t, u) /\ Real(u, n)
    BY <1>2, <2>2, <2>3, EndOfFacts
  <2>5. u.log = j
    BY <2>3 DEF EndOf
  <2> QED BY <2>3, <2>4, <2>5
<1>5. Following'
  BY <1>1, <1>2 DEF IInv, Following, Types
<1>6. Asked'
  BY <1>2 DEF IInv, Asked, Asking, Behind
<1>7. /\ c # None => Real(c, l) /\ Upto(c, t)
      /\ Queued(a, c, l, t)
      /\ fwd = "on" => /\ Real(s, l) /\ Upto(s, t)
                       /\ c # None => Upto(c, s)
                       /\ Queued(a, c, l, s)
                       /\ Reaches(a, c, Len(a), s)
  BY <1>1 DEF IInv, Aimed
<1>8. Aimed'
  <2>1. c # None => Real(c, n) /\ Upto(c, u)
    BY <1>2, <1>3, <1>4, <1>7, GrowsFacts, UptoFacts
  <2>2. Queued(a, c, n, u)
    BY <1>2, <1>3, <1>4, <1>7, QueuedGrow
  <2>3. fwd = "on" => Real(s, n) /\ Upto(s, u)
    BY <1>2, <1>3, <1>4, <1>7, GrowsFacts, UptoFacts
  <2>4. fwd = "on" => Queued(a, c, n, s)
    <3>1. fwd = "on" => Upto(s, s)
      BY <1>3, UptoFacts
    <3> QED BY <1>2, <1>3, <1>7, <3>1, QueuedGrow
  <2> QED BY <1>1, <1>3, <1>7, <2>1, <2>2, <2>3, <2>4 DEF Aimed
<1>9. Feeding'
  <2> SUFFICES ASSUME fwd = "on", ~lagged' PROVE Feeds(feed', s, u, n)
    BY <1>1, <1>2, <1>3 DEF Feeding
  <2>1. f \in Seq(0..MaxEvents) /\ s \in Place /\ Real(s, l)
    BY <1>1, <1>3, <1>7 DEF IInv, Types
  <2>2. ~lagged => Feeds(f, s, t, l)
    BY <1>1 DEF IInv, Feeding
  <2>3. CASE UNCHANGED <<feed, lagged>> /\ (fwd = "on" /\ ~lagged => u = t)
    <3>1. feed' = f /\ u = t /\ Feeds(f, s, t, l)
      BY <1>1, <2>2, <2>3
    <3> QED BY <1>2, <1>3, <2>1, <3>1, FeedsGrow
  <2>4. CASE /\ fwd = "on" /\ lagged = FALSE /\ lagged' = FALSE
             /\ feed' = Append(f, u.seq)
             /\ u.seq = Restarted \/ (u.seq = t.seq + 1 /\ u.log = t.log)
    <3>1. PICK b, e : b = Append(f, e) /\ e = u.seq
      OBVIOUS
    <3>2. e = Restarted \/ (e = t.seq + 1 /\ u.log = t.log)
      BY <2>4, <3>1
    <3>3. Feeds(b, s, u, n)
      BY <1>2, <1>3, <1>4, <2>1, <2>2, <2>4, <3>1, <3>2, FeedsMore
    <3> QED BY <2>4, <3>1, <3>3
  <2> QED BY <1>2, <2>3, <2>4
<1> QED BY <1>5, <1>6, <1>8, <1>9

-----------------------------------------------------------------------------
(* The forwarder brings its viewport level and goes on from there. *)

LEMMA NoFrames ==
    ASSUME NEW to, NEW lengths
    PROVE  Feeds(<<>>, to, to, lengths)
<1>1. 1..Len(<<>>) = {} /\ 2..Len(<<>>) = {}
  OBVIOUS
<1> QED BY <1>1 DEF Feeds

LEMMA LevelKeeps ==
    ASSUME IInv, todo = <<>>, NEW from \in Cursors, Level(from), fwd' = "on",
           from # None => \E p \in Place :
               Reaches(Ahead, cursor, Len(Ahead), p) /\ Upto(from, p) /\ Upto(p, Tip),
           UNCHANGED <<log, left, want, relaunched, asks, wire, cursor>>
    PROVE  Following' /\ Asked' /\ Feeding' /\ Aimed'
<1>1. PICK l, c, q, t, d, b : l = log /\ c = cursor /\ q = wire /\ t = Tip /\ d = todo' /\ b = q \o d
  OBVIOUS
<1>2. /\ sent' = t /\ feed' = <<>> /\ lagged' = FALSE /\ Catching(from, d) /\ d \in Seq(Message)
      /\ log' = l /\ cursor' = c /\ wire' = q
  BY <1>1, LevelFacts, Places DEF IInv
<1>3. Tip' = t
  BY <1>1 DEF Tip, EndOf, Followed, Run
<1>4. q \in Seq(Message) /\ Ahead = q
  BY <1>1, ConcatEmptySeq DEF IInv, Types, Ahead
<1>5. c \in Cursors /\ t \in Place /\ Upto(t, t) /\ Real(t, l)
      /\ (c # None => Real(c, l) /\ Upto(c, t)) /\ Queued(q, c, l, t)
  BY <1>1, <1>4, Places, UptoFacts DEF IInv, Aimed
<1>6. Queued(b, c, l, t) /\ Reaches(b, c, Len(b), t)
  <2>1. c # None => Upto(c, Tip)
    BY <1>1, <1>5
  <2>2. Queued(q, c, log, Tip)
    BY <1>1, <1>5
  <2>3. from # None => \E p \in Place : Reaches(q, c, Len(q), p) /\ Upto(from, p) /\ Upto(p, Tip)
    BY <1>1, <1>4
  <2>4. Types
    BY DEF IInv
  <2>5. Queued(b, c, log, Tip) /\ Reaches(b, c, Len(b), Tip)
    BY <1>1, <1>2, <1>4, <1>5, <2>1, <2>2, <2>3, <2>4, CaughtUp
  <2> QED BY <1>1, <2>5
<1>7. Ahead' = b
  BY <1>1, <1>2 DEF Ahead
<1>8. Aimed'
  BY <1>2, <1>3, <1>5, <1>6, <1>7 DEF Aimed
<1>9. Following' /\ Asked' /\ Feeding'
  <2>1. Following'
    BY <1>2 DEF IInv, Following
  <2>2. Asked'
    BY DEF IInv, Asked, Asking, Behind
  <2>3. Feeding'
    BY <1>2, <1>3, NoFrames DEF Feeding
  <2> QED BY <2>1, <2>2, <2>3
<1> QED BY <1>8, <1>9

LEMMA ForwardKeeps ==
    ASSUME IInv, Forward
    PROVE  Following' /\ Asked' /\ Feeding' /\ Aimed'
<1>1. PICK l, c, q, t, f, s, k : l = log /\ c = cursor /\ q = wire /\ t = Tip /\ f = feed /\ s = sent
                                 /\ k = Head(feed)
  OBVIOUS
<1>2. /\ s \in Place /\ k \in 0..MaxEvents /\ f # <<>> /\ ~lagged /\ todo = <<>>
      /\ fwd = "on" /\ fwd' = "on" /\ k = Head(f)
      /\ UNCHANGED <<log, left, want, relaunched, asks, wire, cursor>>
      /\ \/ k # Restarted /\ k <= s.seq
         \/ /\ k # Restarted
            /\ sent' = [log |-> s.log, seq |-> k]
            /\ todo' = <<Chat(Span(s.log, k, k), k)>>
            /\ feed' = Tail(f) /\ UNCHANGED lagged
         \/ Level(None)
  BY <1>1, ForwardFacts DEF IInv, client
<1>3. CASE Level(None)
  <2>1. None \in Cursors
    BY DEF Cursors
  <2> QED BY <1>2, <1>3, <2>1, LevelKeeps
<1>4. CASE k # Restarted /\ ~Level(None)
  <2>1. q \in Seq(Message) /\ Ahead = q /\ f \in Seq(0..MaxEvents) /\ l \in Seq(0..MaxEvents)
    BY <1>1, <1>2, ConcatEmptySeq DEF IInv, Types, Ahead
  <2>2. k = f[1]
    <3>1. PICK S : S = 0..MaxEvents
      OBVIOUS
    <3> QED BY <1>2, <2>1, <3>1, TailFacts
  <2>3. /\ t \in Place /\ t = EndOf(l, t.log) /\ Real(t, l) /\ Grows(l, l)
        /\ c \in Cursors /\ (c # None => c \in Place)
    BY <1>1, Places DEF IInv
  <2>4. /\ c # None => Real(c, l) /\ Upto(c, t)
        /\ Real(s, l) /\ Upto(s, t)
        /\ c # None => Upto(c, s)
        /\ Queued(q, c, l, s)
        /\ Reaches(q, c, Len(q), s)
        /\ Feeds(f, s, t, l)
    BY <1>1, <1>2, <2>1 DEF IInv, Aimed, Feeding
  <2>5. PICK next : next = [log |-> s.log, seq |-> k]
    OBVIOUS
  <2>6. /\ next \in Place /\ k = s.seq + 1
        /\ Upto(s, next) /\ Upto(next, t) /\ Real(next, l)
        /\ Feeds(Tail(f), next, t, l)
    BY SMTT(30), <1>2, <1>4, <2>1, <2>2, <2>3, <2>4, <2>5, FeedsTail
  <2>7. s.seq \in Nat /\ s.log \in 1..MaxRuns
    BY <1>2, UptoFacts DEF Place
  <2>8. /\ sent' = next /\ feed' = Tail(f) /\ lagged' = lagged
        /\ todo' = <<Chat(Span(s.log, k, k), k)>>
    BY <1>2, <1>4, <2>5, <2>6, <2>7
  <2>9. PICK m, b : m = Chat(Span(s.log, k, k), k) /\ b = Append(q, m)
    OBVIOUS
  <2>10. k \in 1..k
    BY <1>2, <2>6, <2>7
  <2>11. /\ m \in Message /\ m.type = "chat" /\ Moves(m) /\ At(m) = next /\ Well(m, l)
         /\ Len(m.events) = k + 1 - k /\ m.seq = k
    <3>1. PICK run, e : run = s.log /\ e = k
      OBVIOUS
    <3>2. /\ run \in 1..MaxRuns /\ k \in 0..MaxEvents /\ next = [log |-> run, seq |-> k]
          /\ Real(next, l) /\ m = Chat(Span(run, e, k), k) /\ e \in 1..k
      BY <1>2, <2>5, <2>6, <2>7, <2>9, <2>10, <3>1
    <3>3. /\ m \in Message /\ m.type = "chat" /\ Moves(m) /\ At(m) = next /\ Well(m, l)
          /\ Len(m.events) = k + 1 - e /\ m.seq = k
      BY <3>2, SpanMessage
    <3> QED BY <3>1, <3>3
  <2>12. Joins(s, m)
    <3>1. Len(m.events) = 1
      BY <1>2, <2>11, Bounds
    <3>2. At(m).log = s.log
      BY <2>5, <2>11
    <3> QED BY <2>6, <2>7, <2>11, <3>1, <3>2 DEF Joins
  <2>13. c # None => Upto(c, next)
    BY <1>2, <2>3, <2>4, <2>6, UptoFacts
  <2>14. Queued(b, c, l, next) /\ Reaches(b, c, Len(b), next) /\ b \in Seq(Message)
    <3>1. /\ q \in Seq(Message) /\ c \in Cursors /\ s \in Place /\ next \in Place
          /\ Queued(q, c, l, s) /\ Upto(s, next) /\ (c # None => Upto(c, next))
          /\ m \in Message /\ Well(m, l) /\ Moves(m) /\ At(m) = next
          /\ b = Append(q, m)
      BY <1>2, <2>1, <2>3, <2>4, <2>6, <2>9, <2>11, <2>13
    <3>2. \E p \in Place : Joins(p, m) /\ Reaches(q, c, Len(q), p)
      BY <1>2, <2>4, <2>12
    <3> QED BY <3>1, <3>2, QueuedMore
  <2>15. Queued(b, c, l, t)
    BY <2>3, <2>6, <2>14, QueuedGrow
  <2>16. Ahead' = b
    BY <1>1, <1>2, <2>1, <2>8, <2>9, <2>11, ConcatFacts DEF Ahead
  <2>17. Tip' = t /\ log' = l /\ cursor' = c
    BY <1>1, <1>2 DEF Tip, EndOf, Followed, Run
  <2>18. Aimed'
    BY <2>4, <2>6, <2>8, <2>13, <2>14, <2>15, <2>16, <2>17 DEF Aimed
  <2>19. Following' /\ Asked'
    <3>1. Following'
      BY <1>2, <2>8 DEF IInv, Following
    <3>2. Asked'
      BY <1>2 DEF IInv, Asked, Asking, Behind
    <3> QED BY <3>1, <3>2
  <2>20. Feeding'
    BY <2>6, <2>8, <2>17 DEF Feeding
  <2> QED BY <2>18, <2>19, <2>20
<1>5. k = Restarted => Level(None)
  BY <1>1, ForwardFacts DEF IInv
<1> QED BY <1>3, <1>4, <1>5

LEMMA ForwarderKeeps ==
    ASSUME IInv, Begin \/ Send \/ Forward \/ Lagged
    PROVE  Following' /\ Asked' /\ Feeding' /\ Aimed'
<1>1. CASE Begin
  <2>1. /\ fwd = "starting" /\ fwd' = "on" /\ Level(want) /\ want \in Cursors /\ todo = <<>>
        /\ UNCHANGED <<log, left, want, relaunched, asks, wire, cursor>>
    BY <1>1 DEF Begin, client, IInv, Following, Types
  <2>2. want # None => \E p \in Place :
            Reaches(Ahead, cursor, Len(Ahead), p) /\ Upto(want, p) /\ Upto(p, Tip)
    <3> SUFFICES ASSUME want # None
                 PROVE  cursor \in Place /\ Reaches(Ahead, cursor, Len(Ahead), cursor)
                        /\ Upto(want, cursor) /\ Upto(cursor, Tip)
      OBVIOUS
    <3>1. cursor # None /\ Upto(want, cursor)
      BY <2>1 DEF IInv, Asked, Asking, Behind
    <3>2. cursor \in Place /\ Upto(cursor, Tip)
      BY <3>1, Places DEF IInv, Aimed
    <3> QED BY <3>1, <3>2 DEF Reaches
  <2> QED BY <2>1, <2>2, LevelKeeps
<1>2. CASE Lagged
  <2>1. /\ fwd = "on" /\ fwd' = "on" /\ Level(sent) /\ sent \in Cursors /\ todo = <<>>
        /\ UNCHANGED <<log, left, want, relaunched, asks, wire, cursor>>
    BY <1>2 DEF Lagged, CatchUp, client, IInv, Types
  <2>2. sent \in Place /\ Reaches(Ahead, cursor, Len(Ahead), sent)
        /\ Upto(sent, sent) /\ Upto(sent, Tip)
    <3>1. sent \in Place
      BY <2>1, Places DEF IInv
    <3> QED BY <2>1, <3>1, UptoFacts DEF IInv, Aimed
  <2> QED BY <2>1, <2>2, LevelKeeps
<1>3. CASE Send
  <2>1. /\ Ahead' = Ahead /\ todo # <<>>
        /\ UNCHANGED <<log, feed, lagged, left, fwd, want, sent, asks, cursor>>
    BY <1>3, SendFacts DEF Ahead, client, IInv, Send
  <2>2. Tip' = Tip
    BY <2>1 DEF Tip, EndOf, Followed, Run
  <2>3. Aimed'
    BY <2>1, <2>2 DEF IInv, Aimed
  <2>4. Following'
    BY <2>1 DEF IInv, Following
  <2>5. Asked'
    BY <2>1 DEF IInv, Asked, Asking, Behind
  <2>6. Feeding'
    BY <2>1, <2>2 DEF IInv, Feeding
  <2> QED BY <2>3, <2>4, <2>5, <2>6
<1> QED BY <1>1, <1>2, <1>3, ForwardKeeps

-----------------------------------------------------------------------------
(* The connection starts forwarders and stops them, and is lost.            *)

LEMMA StoppedKeeps ==
    ASSUME IInv, fwd' \in {"off", "starting"}, todo' = <<>>, feed' = <<>>, lagged' = FALSE, left' = 0,
           wire' = wire \/ wire' = <<>>, UNCHANGED <<log, cursor>>
    PROVE  Following' /\ Feeding' /\ Aimed'
<1>1. PICK l, c, q, d, t, u : l = log /\ c = cursor /\ q = wire /\ d = todo /\ t = Tip /\ u = Tip'
  OBVIOUS
<1>2. /\ c \in Cursors /\ (c # None => c \in Place) /\ t \in Place /\ Grows(l, l)
      /\ q \in Seq(Message) /\ d \in Seq(Message)
  BY <1>1, Places DEF IInv, Types
<1>3. u \in Place /\ Upto(t, u)
  <2>1. PICK i, j : i = Followed /\ j = Run
    OBVIOUS
  <2>2. i \in 1..Len(l) /\ j \in 1..Len(l) /\ i <= j /\ Len(l) <= MaxRuns
    BY <1>1, <2>1, TipFacts, Bounds DEF IInv, Types, Run
  <2>3. t = EndOf(l, i) /\ u = EndOf(l, j)
    BY <1>1, <2>1 DEF Tip, Followed, Run
  <2> QED BY <1>2, <2>2, <2>3, EndOfFacts
<1>4. /\ c # None => Real(c, l) /\ Upto(c, t)
      /\ Queued(q \o d, c, l, t)
  BY <1>1 DEF IInv, Aimed, Ahead
<1>5. c # None => Real(c, l) /\ Upto(c, u)
  BY <1>2, <1>3, <1>4, UptoFacts
<1>6. Queued(Ahead', c, l, u)
  <2>1. CASE wire' = <<>>
    <3>1. Ahead' = <<>>
      <4>1. <<>> \in Seq(Message)
        BY EmptySeq
      <4> QED BY <2>1, <4>1, ConcatEmptySeq DEF Ahead
    <3> QED BY <3>1, NothingQueued
  <2>2. CASE wire' = wire
    <3>1. Ahead' = q
      BY <1>1, <1>2, <2>2, ConcatEmptySeq DEF Ahead
    <3>2. Queued(q, c, l, t)
      BY <1>2, <1>4, QueuedPrefix
    <3>3. Queued(q, c, l, u)
      BY <1>2, <1>3, <3>2, QueuedGrow
    <3> QED BY <3>1, <3>3
  <2> QED BY <2>1, <2>2
<1>7. Aimed'
  BY <1>1, <1>5, <1>6 DEF Aimed
<1>8. Following' /\ Feeding'
  BY Bounds DEF IInv, Types, Following, Feeding
<1> QED BY <1>7, <1>8

LEMMA AskingTail ==
    ASSUME Types, Asking, asks # <<>>, asks' = Tail(asks), UNCHANGED cursor
    PROVE  Asking' /\ (Head(asks).type = "attach" => Behind(Head(asks).cursor))
<1>1. PICK q : q = asks
  OBVIOUS
<1>2. q \in Seq(Ask) /\ q # <<>> /\ asks' = Tail(q)
  BY <1>1 DEF Types
<1>3. /\ Len(q) \in Nat \ {0} /\ Len(Tail(q)) = Len(q) - 1
      /\ \A i \in 1..Len(q) - 1 : Tail(q)[i] = q[i + 1]
      /\ Head(q) = q[1]
  BY <1>2, TailFacts
<1>4. \A i \in 1..Len(q) : q[i].type = "attach" => Behind(q[i].cursor)
  BY <1>1 DEF Asking
<1>5. Asking'
  <2> SUFFICES ASSUME NEW i \in 1..Len(q) - 1, Tail(q)[i].type = "attach"
               PROVE  Behind(Tail(q)[i].cursor)
    BY <1>2, <1>3 DEF Asking, Behind
  <2>1. i + 1 \in 1..Len(q) /\ Tail(q)[i] = q[i + 1]
    BY <1>3
  <2> QED BY <1>4, <2>1
<1>6. 1 \in 1..Len(q)
  BY <1>3
<1> QED BY <1>1, <1>3, <1>4, <1>5, <1>6

LEMMA AskingMore ==
    ASSUME Types, Asking, NEW a \in Ask, asks' = Append(asks, a), UNCHANGED cursor,
           a.type = "attach" => Behind(a.cursor)
    PROVE  Asking'
<1>1. PICK q, b : q = asks /\ b = Append(q, a)
  OBVIOUS
<1>2. q \in Seq(Ask) /\ asks' = b
  BY <1>1 DEF Types
<1>3. /\ Len(q) \in Nat /\ Len(b) = Len(q) + 1 /\ b[Len(q) + 1] = a
      /\ \A i \in 1..Len(q) : b[i] = q[i]
  BY <1>1, <1>2, AppendFacts
<1>4. \A i \in 1..Len(q) : q[i].type = "attach" => Behind(q[i].cursor)
  BY <1>1 DEF Asking
<1>5. \A i \in 1..Len(b) : b[i].type = "attach" => Behind(b[i].cursor)
  BY <1>3, <1>4
<1> QED BY <1>2, <1>5 DEF Asking, Behind

LEMMA HasBeen == ASSUME Types PROVE Behind(cursor)
<1>1. cursor # None => cursor \in Place
  BY Places
<1> QED BY <1>1, UptoFacts DEF Behind

LEMMA ReconnectedKeeps ==
    ASSUME IInv, Reconnected
    PROVE  Following' /\ Asked' /\ Feeding' /\ Aimed'
<1>1. /\ fwd' = "off" /\ todo' = <<>> /\ feed' = <<>> /\ lagged' = FALSE /\ left' = 0 /\ wire' = <<>>
      /\ UNCHANGED <<log, cursor>>
  BY DEF Reconnected, client
<1>2. Following' /\ Feeding' /\ Aimed'
  BY <1>1, StoppedKeeps
<1>3. Asked'
  <2>1. Behind(cursor)
    BY HasBeen DEF IInv
  <2>2. CASE asks' = <<>>
    <3>1. 1..Len(<<>>) = {}
      OBVIOUS
    <3> QED BY <1>1, <2>2, <3>1 DEF Asked, Asking
  <2>3. CASE asks' = <<Attach(cursor)>>
    <3>1. PICK a : a = Attach(cursor)
      OBVIOUS
    <3>2. a.cursor = cursor
      BY <3>1 DEF Attach
    <3>3. asks' = <<a>> /\ Len(<<a>>) = 1 /\ <<a>>[1] = a
      BY <2>3, <3>1
    <3>4. Asking'
      <4>1. \A i \in 1..Len(asks') : asks'[i] = a
        BY <3>3
      <4> QED BY <1>1, <2>1, <3>2, <4>1 DEF Asking, Behind
    <3> QED BY <1>1, <3>4 DEF Asked
  <2> QED BY <2>2, <2>3 DEF Reconnected
<1> QED BY <1>2, <1>3

LEMMA LoadEarlierKeeps ==
    ASSUME IInv, HandleLoadEarlier
    PROVE  Following' /\ Asked' /\ Feeding' /\ Aimed'
<1>1. PICK p : p = EarlierPage(Head(asks).loaded)
  OBVIOUS
<1>2. p \in Message /\ ~Moves(p) /\ asks # <<>>
  <2>1. asks # <<>> /\ Head(asks) \in Ask /\ Head(asks).type = "load-earlier"
    BY AsksTypes DEF HandleLoadEarlier, IInv
  <2>2. p \in Histories /\ p \in Message
    BY <1>1, <2>1, AskFacts, PageFacts DEF IInv
  <2> QED BY <2>1, <2>2 DEF Histories, Moves
<1>3. CASE Reconnected
  BY <1>3, ReconnectedKeeps
<1>4. CASE /\ wire' = IF p.events = <<>> THEN wire ELSE Append(wire, p)
           /\ asks' = Tail(asks)
           /\ UNCHANGED <<daemon, client, showing>>
  <2>1. PICK l, c, q, d, t, s : l = log /\ c = cursor /\ q = wire /\ d = todo /\ t = Tip /\ s = sent
    OBVIOUS
  <2>2. UNCHANGED <<log, feed, lagged, left, fwd, want, sent, todo, cursor>>
    BY <1>4 DEF daemon, client
  <2>3. Tip' = t
    BY <2>1, <2>2 DEF Tip, EndOf, Followed, Run
  <2>4. /\ c \in Cursors /\ t \in Place /\ q \in Seq(Message) /\ d \in Seq(Message)
        /\ (fwd = "on" => s \in Place)
    BY <2>1, Places DEF IInv, Types
  <2>5. /\ c # None => Real(c, l) /\ Upto(c, t)
        /\ Queued(q \o d, c, l, t)
        /\ fwd = "on" => /\ Real(s, l) /\ Upto(s, t)
                         /\ c # None => Upto(c, s)
                         /\ Queued(q \o d, c, l, s)
                         /\ Reaches(q \o d, c, Len(q \o d), s)
    BY <2>1 DEF IInv, Aimed, Ahead
  <2>6. /\ Queued(Ahead', c, l, t)
        /\ fwd = "on" => Queued(Ahead', c, l, s) /\ Reaches(Ahead', c, Len(Ahead'), s)
    <3>1. CASE p.events = <<>>
      <4>1. Ahead' = q \o d
        BY <1>4, <2>1, <2>2, <3>1 DEF Ahead
      <4> QED BY <2>5, <4>1
    <3>2. CASE p.events # <<>>
      <4>1. PICK b : b = Append(q, p) \o d
        OBVIOUS
      <4>2. Ahead' = b
        BY <1>4, <2>1, <2>2, <3>2, <4>1 DEF Ahead
      <4>3. Queued(b, c, l, t)
        BY <1>2, <2>4, <2>5, <4>1, QueuedInsert
      <4>4. fwd = "on" => Queued(b, c, l, s) /\ Reaches(b, c, Len(b), s)
        <5> SUFFICES ASSUME fwd = "on" PROVE Queued(b, c, l, s) /\ Reaches(b, c, Len(b), s)
          OBVIOUS
        <5>1. /\ s \in Place /\ Queued(q \o d, c, l, s)
              /\ Reaches(q \o d, c, Len(q \o d), s)
          BY <2>4, <2>5
        <5>2. Queued(b, c, l, s)
          BY <1>2, <2>4, <4>1, <5>1, QueuedInsert
        <5>3. \A r \in Place : Reaches(q \o d, c, Len(q \o d), r) => Reaches(b, c, Len(b), r)
          BY <1>2, <2>4, <4>1, <5>1, QueuedInsert
        <5> QED BY <5>1, <5>2, <5>3
      <4> QED BY <4>2, <4>3, <4>4
    <3> QED BY <3>1, <3>2
  <2>7. Aimed'
    BY <2>1, <2>2, <2>3, <2>5, <2>6 DEF Aimed
  <2>8. Following' /\ Feeding'
    BY <2>1, <2>2, <2>3 DEF IInv, Following, Feeding
  <2>9. Asked'
    <3>1. Asking'
      BY <1>2, <1>4, <2>2, AskingTail DEF IInv, Asked
    <3> QED BY <2>2, <3>1 DEF IInv, Asked, Behind
  <2> QED BY <2>7, <2>8, <2>9
<1> QED BY <1>1, <1>3, <1>4 DEF HandleLoadEarlier

LEMMA ConnectionKeeps ==
    ASSUME IInv, HandleAttach \/ HandleDetach \/ HandleLoadEarlier \/ SessionRestarted \/ Break
    PROVE  Following' /\ Asked' /\ Feeding' /\ Aimed'
<1>1. CASE HandleAttach
  <2>1. /\ asks # <<>> /\ asks' = Tail(asks) /\ Head(asks).type = "attach"
        /\ fwd' = "starting" /\ want' = Head(asks).cursor
        /\ todo' = <<>> /\ feed' = <<>> /\ lagged' = FALSE /\ left' = 0
        /\ UNCHANGED <<log, wire, cursor>>
    BY <1>1 DEF HandleAttach, Spawn, client
  <2>2. Asking' /\ Behind(Head(asks).cursor)
    BY <2>1, AskingTail DEF IInv, Asked
  <2>3. Asked'
    BY <2>1, <2>2 DEF Asked, Behind
  <2> QED BY <2>1, <2>3, StoppedKeeps
<1>2. CASE HandleDetach
  <2>1. /\ asks # <<>> /\ asks' = Tail(asks)
        /\ fwd' = "off"
        /\ todo' = <<>> /\ feed' = <<>> /\ lagged' = FALSE /\ left' = 0
        /\ UNCHANGED <<log, wire, cursor>>
    BY <1>2 DEF HandleDetach, client
  <2>2. Asking'
    BY <2>1, AskingTail DEF IInv, Asked
  <2>3. Asked'
    BY <2>1, <2>2 DEF Asked
  <2> QED BY <2>1, <2>3, StoppedKeeps
<1>3. CASE HandleLoadEarlier
  BY <1>3, LoadEarlierKeeps
<1>4. CASE SessionRestarted
  <2>1. UNCHANGED <<log, sent, asks, wire, cursor>>
    BY <1>4 DEF SessionRestarted, client
  <2>2. CASE fwd = "off"
    <3>1. UNCHANGED <<fwd, want, todo, feed, lagged, left>>
      BY <1>4, <2>2 DEF SessionRestarted
    <3>2. Ahead' = Ahead /\ Tip' = Tip
      BY <2>1, <3>1 DEF Ahead, Tip, EndOf, Followed, Run
    <3>3. Following' /\ Asked'
      BY <2>1, <3>1 DEF IInv, Following, Asked, Asking, Behind
    <3>4. Feeding' /\ Aimed'
      BY <2>1, <3>1, <3>2 DEF IInv, Feeding, Aimed
    <3> QED BY <3>3, <3>4
  <2>3. CASE fwd # "off"
    <3>1. /\ fwd' = "starting" /\ want' = None /\ todo' = <<>> /\ feed' = <<>> /\ lagged' = FALSE
          /\ left' = 0
      BY <1>4, <2>3 DEF SessionRestarted, Spawn
    <3>2. Asked'
      BY <2>1, <3>1 DEF IInv, Asked, Asking, Behind
    <3> QED BY <2>1, <3>1, <3>2, StoppedKeeps
  <2> QED BY <2>2, <2>3
<1>5. CASE Break
  BY <1>5, ReconnectedKeeps DEF Break
<1> QED BY <1>1, <1>2, <1>3, <1>4, <1>5

-----------------------------------------------------------------------------
(* The viewport asks, and takes what comes.                                 *)

LEMMA PersonKeeps ==
    ASSUME IInv, Mount \/ Unmount \/ AskEarlier
    PROVE  Following' /\ Asked' /\ Feeding' /\ Aimed'
<1>1. UNCHANGED <<log, feed, lagged, left, fwd, want, sent, todo, wire, cursor>>
  BY DEF Mount, Unmount, AskEarlier, daemon, client
<1>2. Ahead' = Ahead /\ Tip' = Tip
  BY <1>1 DEF Ahead, Tip, EndOf, Followed, Run
<1>3. \E a \in Ask : asks' = Append(asks, a) /\ (a.type = "attach" => Behind(a.cursor))
  <2>1. CASE Mount
    <3>1. Attach(cursor) \in Ask
      BY AskFacts DEF IInv, Types
    <3>2. Behind(Attach(cursor).cursor)
      BY HasBeen DEF IInv, Attach
    <3> QED BY <2>1, <3>1, <3>2 DEF Mount
  <2>2. CASE Unmount
    <3>1. Detach.type # "attach"
      BY DEF Detach
    <3> QED BY <2>2, <3>1, AskFacts DEF Unmount
  <2>3. CASE AskEarlier
    <3>1. LoadEarlier(Len(held)) \in Ask
      BY AskFacts, LenProperties DEF IInv, Types
    <3>2. LoadEarlier(Len(held)).type # "attach"
      BY DEF LoadEarlier
    <3> QED BY <2>3, <3>1, <3>2 DEF AskEarlier
  <2> QED BY <2>1, <2>2, <2>3
<1>4. Asking'
  BY <1>1, <1>3, AskingMore DEF IInv, Asked
<1>5. Asked'
  BY <1>1, <1>4 DEF IInv, Asked, Behind
<1>6. Following' /\ Feeding' /\ Aimed'
  BY <1>1, <1>2 DEF IInv, Following, Feeding, Aimed
<1> QED BY <1>5, <1>6

LEMMA TailConcat ==
    ASSUME NEW S, NEW q \in Seq(S), q # <<>>, NEW t \in Seq(S)
    PROVE  /\ Tail(q \o t) = Tail(q) \o t
           /\ q \o t \in Seq(S) /\ q \o t # <<>> /\ (q \o t)[1] = Head(q)
<1>1. PICK a, b, c, d : a = q \o t /\ b = Tail(q) /\ c = b \o t /\ d = Tail(a)
  OBVIOUS
<1>2. /\ b \in Seq(S) /\ Len(q) \in Nat \ {0} /\ Len(b) = Len(q) - 1 /\ Head(q) = q[1]
      /\ \A i \in 1..Len(q) - 1 : b[i] = q[i + 1]
  BY <1>1, TailFacts
<1>3. /\ a \in Seq(S) /\ Len(t) \in Nat /\ Len(a) = Len(q) + Len(t)
      /\ \A i \in 1..Len(q) + Len(t) : a[i] = IF i <= Len(q) THEN q[i] ELSE t[i - Len(q)]
  BY <1>1, ConcatProperties, LenProperties
<1>4. /\ c \in Seq(S) /\ Len(c) = Len(b) + Len(t)
      /\ \A i \in 1..Len(b) + Len(t) : c[i] = IF i <= Len(b) THEN b[i] ELSE t[i - Len(b)]
  BY <1>1, <1>2, ConcatProperties
<1>5. a # <<>> /\ a[1] = q[1]
  <2>1. Len(a) # 0
    BY <1>2, <1>3
  <2>2. 1 \in 1..Len(q) + Len(t) /\ 1 <= Len(q)
    BY <1>2, <1>3
  <2> QED BY <1>3, <2>1, <2>2, EmptySeq
<1>6. /\ d \in Seq(S) /\ Len(d) = Len(a) - 1
      /\ \A i \in 1..Len(a) - 1 : d[i] = a[i + 1]
  BY <1>1, <1>3, <1>5, TailFacts
<1>7. \A i \in 1..Len(d) : d[i] = c[i]
  <2> SUFFICES ASSUME NEW i \in 1..Len(d) PROVE d[i] = c[i]
    OBVIOUS
  <2>1. i \in 1..Len(a) - 1 /\ i \in Nat /\ i + 1 \in 1..Len(q) + Len(t) /\ i \in 1..Len(b) + Len(t)
    BY <1>2, <1>3, <1>6
  <2>4. d[i] = a[i + 1]
    BY <1>6, <2>1
  <2>2. CASE i <= Len(b)
    <3>1. i + 1 <= Len(q) /\ i \in 1..Len(q) - 1
      BY <1>2, <2>2
    <3> QED BY <1>2, <1>3, <1>4, <2>1, <2>2, <2>4, <3>1
  <2>3. CASE i > Len(b)
    <3>1. ~(i + 1 <= Len(q)) /\ ~(i <= Len(b)) /\ i + 1 - Len(q) = i - Len(b)
      BY <1>2, <2>3
    <3>2. a[i + 1] = t[i + 1 - Len(q)]
      BY <1>3, <2>1, <3>1
    <3>3. c[i] = t[i - Len(b)]
      BY <1>4, <2>1, <3>1
    <3> QED BY <2>4, <3>1, <3>2, <3>3
  <2> QED BY <1>2, <2>1, <2>2, <2>3
<1>8. d = c
  BY <1>2, <1>3, <1>4, <1>6, <1>7, SeqEqual
<1> QED BY <1>1, <1>2, <1>3, <1>5, <1>8

\* The viewport takes the first message of what is under way.
LEMMA ReceiveTakes ==
    ASSUME IInv, Receive, NEW m, m = Head(wire)
    PROVE  /\ Ahead \in Seq(Message) /\ Ahead # <<>> /\ Ahead[1] = m /\ Ahead' = Tail(Ahead)
           /\ m \in Message
           /\ cursor' = Moved(cursor, m)
           /\ m.type = "reset" => held' = <<>>
           /\ m.type = "history" => held' = m.events \o held
           /\ m.type = "chat" =>
                 held' = IF cursor # None /\ cursor.seq < m.seq
                         THEN held \o Others(cursor, m) ELSE held
<1>1. /\ wire # <<>> /\ wire' = Tail(wire) /\ todo' = todo /\ m \in Message
      /\ View \in Views /\ View' = Apply(View, m) /\ View' \in Views
  BY ReceiveFacts DEF IInv, daemon
<1>2. PICK v, w : v = View /\ w = Apply(v, m)
  OBVIOUS
<1>3. v \in Views /\ m \in Message /\ w = Apply(v, m)
  BY <1>1, <1>2
<1>4. w.cursor = Moved(v.cursor, m)
  BY <1>3, ApplyFacts
<1>5. m.type = "reset" => w.held = <<>>
  BY ZenonT(60), <1>3, ApplyFacts
<1>6. m.type = "history" => w.held = m.events \o v.held
  BY ZenonT(60), <1>3, ApplyFacts
<1>7. m.type = "chat" =>
         w.held = IF v.cursor # None /\ v.cursor.seq < m.seq
                  THEN v.held \o Others(v.cursor, m) ELSE v.held
  BY <1>3, ApplyFacts
<1>8. v.cursor = cursor /\ v.held = held /\ w.cursor = cursor' /\ w.held = held'
  BY <1>1, <1>2 DEF View
<1>9. /\ Ahead \in Seq(Message) /\ Ahead # <<>> /\ Ahead[1] = m /\ Ahead' = Tail(Ahead)
  <2>1. PICK q, d : q = wire /\ d = todo
    OBVIOUS
  <2>2. q \in Seq(Message) /\ d \in Seq(Message) /\ q # <<>>
    BY <1>1, <2>1 DEF IInv, Types
  <2>3. Tail(q \o d) = Tail(q) \o d /\ q \o d \in Seq(Message) /\ q \o d # <<>> /\ (q \o d)[1] = Head(q)
    BY <2>2, TailConcat
  <2> QED BY <1>1, <2>1, <2>3 DEF Ahead
<1> QED BY <1>1, <1>4, <1>5, <1>6, <1>7, <1>8, <1>9

LEMMA ReceiveKeeps ==
    ASSUME IInv, Receive
    PROVE  Following' /\ Asked' /\ Feeding' /\ Aimed'
<1>1. PICK l, c, a, m, to, t, s : /\ l = log /\ c = cursor /\ a = Ahead /\ m = Head(wire)
                                  /\ to = Moved(c, m) /\ t = Tip /\ s = sent
  OBVIOUS
<1>2. /\ UNCHANGED <<log, feed, lagged, left, fwd, want, sent, todo, asks>>
      /\ wire # <<>> /\ wire' = Tail(wire)
  BY ReceiveFacts DEF IInv, daemon
<1>3. cursor' = to /\ Ahead' = Tail(a) /\ a \in Seq(Message) /\ a # <<>> /\ a[1] = m
  BY <1>1, ReceiveTakes
<1>4. Tip' = t
  BY <1>1, <1>2 DEF Tip, EndOf, Followed, Run
<1>5. /\ c \in Cursors /\ (c # None => c \in Place) /\ t \in Place
      /\ (fwd = "on" => s \in Place)
      /\ to \in Cursors /\ (to # None => to \in Place)
  <2>1. /\ c \in Cursors /\ (c # None => c \in Place) /\ t \in Place
        /\ (fwd = "on" => s \in Place)
    BY <1>1, Places DEF IInv
  <2>2. m \in Message
    BY <1>3, TailFacts
  <2>3. to \in Cursors
    BY <1>1, <2>1, <2>2, MovedTypes
  <2> QED BY <2>1, <2>3 DEF Cursors, Place
<1>6. /\ c # None => Real(c, l) /\ Upto(c, t)
      /\ Queued(a, c, l, t)
      /\ fwd = "on" => /\ Real(s, l) /\ Upto(s, t)
                       /\ c # None => Upto(c, s)
                       /\ Queued(a, c, l, s)
                       /\ Reaches(a, c, Len(a), s)
  BY <1>1 DEF IInv, Aimed
\* Where the cursor goes: on, and no further than either place.
<1>7. /\ Moves(m) => to = At(m) /\ At(m) \in Place /\ Real(At(m), l) /\ Upto(At(m), t)
                     /\ (c # None => Upto(c, At(m)))
      /\ ~Moves(m) => to = c
  BY <1>1, <1>3, <1>5, <1>6, TakesIt
<1>8. fwd = "on" => (Moves(m) => Upto(At(m), s))
  BY <1>3, <1>5, <1>6, TakesIt
<1>9. /\ to # None => Real(to, l) /\ Upto(to, t)
      /\ fwd = "on" => (to # None => Upto(to, s))
      /\ c # None => to # None /\ Upto(c, to)
  <2>1. CASE Moves(m)
    <3>1. At(m) # None
      BY <1>7, <2>1, Bounds
    <3> QED BY <1>7, <1>8, <2>1, <3>1
  <2>2. CASE ~Moves(m)
    BY <1>5, <1>6, <1>7, <2>2, UptoFacts
  <2> QED BY <2>1, <2>2
<1>10. Queued(Tail(a), to, l, t)
  BY <1>1, <1>3, <1>5, <1>6, QueuedTail
<1>11. fwd = "on" => Queued(Tail(a), to, l, s) /\ Reaches(Tail(a), to, Len(Tail(a)), s)
  <2> SUFFICES ASSUME fwd = "on"
               PROVE  Queued(Tail(a), to, l, s) /\ Reaches(Tail(a), to, Len(Tail(a)), s)
    OBVIOUS
  <2>1. s \in Place /\ Queued(a, c, l, s) /\ Reaches(a, c, Len(a), s)
    BY <1>5, <1>6
  <2>2. Queued(Tail(a), to, l, s)
    BY <1>1, <1>3, <1>5, <2>1, QueuedTail
  <2>3. Reaches(Tail(a), to, Len(Tail(a)), s)
    BY <1>1, <1>3, <1>5, <2>1, StillReaches
  <2> QED BY <2>2, <2>3
<1>12. Aimed'
  <2>1. log' = l /\ fwd' = fwd /\ sent' = s /\ cursor' = to /\ Ahead' = Tail(a) /\ Tip' = t
    BY <1>1, <1>2, <1>3, <1>4
  <2> QED BY <1>6, <1>9, <1>10, <1>11, <2>1 DEF Aimed
<1>13. Following' /\ Feeding'
  BY <1>1, <1>2, <1>4 DEF IInv, Following, Feeding
<1>14. ASSUME NEW at \in Cursors, Behind(at)
       PROVE  at = None \/ (to # None /\ Upto(at, to))
  <2> SUFFICES ASSUME at # None PROVE to # None /\ Upto(at, to)
    OBVIOUS
  <2>1. at \in Place
    BY DEF Cursors, Place
  <2>2. c # None /\ Upto(at, c)
    BY <1>1, <1>14 DEF Behind
  <2>3. c \in Place /\ to \in Place /\ to # None /\ Upto(c, to)
    BY <1>5, <1>9, <2>2
  <2> QED BY <2>1, <2>2, <2>3, UptoFacts
<1>15. Asking'
  <2> SUFFICES ASSUME NEW i \in 1..Len(asks), asks[i].type = "attach"
               PROVE  asks[i].cursor = None \/ (to # None /\ Upto(asks[i].cursor, to))
    BY <1>2, <1>3 DEF Asking, Behind
  <2>1. asks[i].cursor \in Cursors
    BY DomainFacts, AskFacts DEF IInv, Types
  <2>2. Behind(asks[i].cursor)
    BY DEF IInv, Asked, Asking
  <2> QED BY <1>14, <2>1, <2>2
<1>16. Asked'
  <2>1. fwd = "starting" => (want = None \/ (to # None /\ Upto(want, to)))
    BY <1>14 DEF IInv, Asked, Types
  <2> QED BY <1>2, <1>3, <1>15, <2>1 DEF Asked, Behind
<1> QED BY <1>12, <1>13, <1>16

LEMMA InitIInv == Init => IInv
<1> SUFFICES ASSUME Init PROVE IInv
  OBVIOUS
<1>1. Types
  BY InitTypes
<1>2. /\ log = <<0>> /\ left = 0 /\ fwd = "off" /\ want = None /\ cursor = None
      /\ todo = <<>> /\ wire = <<>> /\ feed = <<>> /\ lagged = FALSE /\ asks = <<>>
  BY DEF Init
<1>3. Following
  BY <1>1, <1>2, Bounds DEF Following, Types
<1>4. 1..Len(<<>>) = {}
  OBVIOUS
<1>5. Asked
  BY <1>2, <1>4 DEF Asked, Asking
<1>6. Feeding
  BY <1>2 DEF Feeding
<1>7. Aimed
  <2>1. <<>> \in Seq(Message)
    BY EmptySeq
  <2>2. Ahead = <<>>
    BY <1>2, <2>1, ConcatEmptySeq DEF Ahead
  <2> QED BY <1>2, <2>2, NothingQueued DEF Aimed
<1> QED BY <1>1, <1>3, <1>5, <1>6, <1>7 DEF IInv

LEMMA IInvStep == IInv /\ [Next]_vars => IInv'
<1> SUFFICES ASSUME IInv, [Next]_vars PROVE IInv'
  OBVIOUS
<1>1. Types'
  BY TypesStep DEF IInv
<1>2. CASE UNCHANGED vars
  <2>1. UNCHANGED <<log, feed, lagged, left, fwd, want, sent, todo, asks, wire, cursor>>
    BY <1>2 DEF vars, daemon, client
  <2>2. Ahead' = Ahead /\ Tip' = Tip
    BY <2>1 DEF Ahead, Tip, EndOf, Followed, Run
  <2>3. Following' /\ Asked'
    BY <2>1 DEF IInv, Following, Asked, Asking, Behind
  <2>4. Feeding' /\ Aimed'
    BY <2>1, <2>2 DEF IInv, Feeding, Aimed
  <2> QED BY <1>1, <2>3, <2>4 DEF IInv
<1>3. CASE Next
  <2>1. Following' /\ Asked' /\ Feeding' /\ Aimed'
    BY <1>3, LogKeeps, ForwarderKeeps, ConnectionKeeps, PersonKeeps, ReceiveKeeps DEF Next, Progress
  <2> QED BY <1>1, <2>1 DEF IInv
<1> QED BY <1>2, <1>3

-----------------------------------------------------------------------------
(* What the viewport is once it has taken all that is under way.            *)

LEMMA Smallest ==
    ASSUME NEW T, T \subseteq Nat, T # {}
    PROVE  \E n \in T : \A m \in T : n <= m
<1> DEFINE R == OpToRel(<, Nat)
<1>1. IsWellFoundedOn(R, Nat)
  BY NatLessThanWellFounded
<1>2. \A m, n \in Nat : m < n => <<m, n>> \in R
  BY DEF OpToRel
<1> HIDE DEF R
<1>3. PICK n \in T : \A m \in T : ~ (<<m, n>> \in R)
  BY <1>1, WFMin
<1>4. \A m \in T : n <= m
  <2> SUFFICES ASSUME NEW m \in T PROVE n <= m
    OBVIOUS
  <2>1. m \in Nat /\ n \in Nat
    OBVIOUS
  <2>2. ~(m < n)
    BY <1>2, <1>3, <2>1
  <2> QED BY <2>1, <2>2
<1> QED BY <1>4

\* The views a viewport goes through as it takes the first n messages of a queue.
Taken(g, v, q, n) == g = [i \in 0..n |-> IF i = 0 THEN v ELSE Apply(g[i - 1], q[i])]

LEMMA TakenExists ==
    ASSUME NEW v, NEW q, Len(q) \in Nat
    PROVE  \E g : Taken(g, v, q, Len(q))
<1> DEFINE Has(n) == \E g : Taken(g, v, q, n)
           T == {n \in 0..Len(q) : ~Has(n)}
<1> SUFFICES ASSUME T # {} PROVE FALSE
  <2>1. Len(q) \in 0..Len(q)
    OBVIOUS
  <2> QED BY <2>1
<1>1. T \subseteq Nat
  OBVIOUS
<1>2. PICK n \in T : \A m \in T : n <= m
  <2> HIDE DEF T
  <2> QED BY <1>1, Smallest
<1>3. n # 0
  <2> SUFFICES ASSUME n = 0 PROVE FALSE
    OBVIOUS
  <2> DEFINE g == [i \in 0..0 |-> v]
  <2>1. g = [i \in 0..0 |-> IF i = 0 THEN v ELSE Apply(g[i - 1], q[i])]
    OBVIOUS
  <2> HIDE DEF g
  <2>2. Has(0)
    BY <2>1 DEF Taken
  <2> QED BY <1>2, <2>2
<1>4. Has(n - 1)
  <2>1. n - 1 \in 0..Len(q) /\ ~(n <= n - 1)
    BY <1>1, <1>3
  <2>2. n - 1 \notin T
    BY <1>2, <2>1
  <2> QED BY <2>1, <2>2
<1>5. PICK f : f = [i \in 0..(n - 1) |-> IF i = 0 THEN v ELSE Apply(f[i - 1], q[i])]
  BY <1>4 DEF Taken
<1> DEFINE g == [i \in 0..n |-> IF i = n THEN Apply(f[n - 1], q[n]) ELSE f[i]]
<1>6. \A i \in 0..n : g[i] = IF i = 0 THEN v ELSE Apply(g[i - 1], q[i])
  <2> SUFFICES ASSUME NEW i \in 0..n PROVE g[i] = IF i = 0 THEN v ELSE Apply(g[i - 1], q[i])
    OBVIOUS
  <2>1. CASE i = n
    BY <1>2, <1>3, <2>1
  <2>2. CASE i < n
    BY <1>2, <1>3, <1>5, <2>2
  <2> QED BY <1>2, <2>1, <2>2
<1>7. g = [i \in 0..n |-> IF i = 0 THEN v ELSE Apply(g[i - 1], q[i])]
  BY <1>6
<1> HIDE DEF g
<1>8. Has(n)
  BY <1>7 DEF Taken
<1> QED BY <1>2, <1>8

\* A queue that leads from the cursor to a place takes the cursor there.
LEMMA TakenToTip ==
    ASSUME NEW v \in Views, NEW q \in Seq(Message), NEW lengths, NEW tip \in Place,
           Queued(q, v.cursor, lengths, tip), Reaches(q, v.cursor, Len(q), tip),
           NEW g, Taken(g, v, q, Len(q))
    PROVE  g[Len(q)].cursor = tip
<1> DEFINE Rest(i) == SubSeq(q, i + 1, Len(q))
           Good(i) == /\ g[i] \in Views
                      /\ Queued(Rest(i), g[i].cursor, lengths, tip)
                      /\ Reaches(Rest(i), g[i].cursor, Len(Rest(i)), tip)
           T == {i \in 0..Len(q) : ~Good(i)}
<1>1. Len(q) \in Nat /\ \A i \in 1..Len(q) : q[i] \in Message
  BY DomainFacts
<1>2. \A i \in 0..Len(q) : /\ Rest(i) \in Seq(Message) /\ Len(Rest(i)) = Len(q) - i
                           /\ \A j \in 1..Len(q) - i : Rest(i)[j] = q[i + j]
  <2> SUFFICES ASSUME NEW i \in 0..Len(q), NEW r, r = Rest(i)
               PROVE  /\ r \in Seq(Message) /\ Len(r) = Len(q) - i
                      /\ \A j \in 1..Len(q) - i : r[j] = q[i + j]
    OBVIOUS
  <2>1. \A j \in (i + 1)..Len(q) : q[j] \in Message
    BY <1>1
  <2>2. i + 1 \in 1..Len(q) + 1
    BY <1>1
  <2>3. r \in Seq(Message) /\ Len(r) = Len(q) - i
    BY <1>1, <2>1, <2>2, SubSeqProperties
  <2>4. \A j \in 1..Len(q) - i : r[j] = q[i + j]
    <3> SUFFICES ASSUME NEW j \in 1..Len(q) - i PROVE r[j] = q[i + j]
      OBVIOUS
    <3>1. r[j] = q[i + 1 + j - 1]
      BY <1>1, <2>1, <2>2, SubSeqProperties
    <3>2. i + 1 + j - 1 = i + j
      OBVIOUS
    <3> QED BY <3>1, <3>2
  <2> QED BY <2>3, <2>4
<1> HIDE DEF Rest
<1>3. g[0] = v /\ \A i \in 1..Len(q) : g[i] = Apply(g[i - 1], q[i])
  <2>1. g = [i \in 0..Len(q) |-> IF i = 0 THEN v ELSE Apply(g[i - 1], q[i])]
    BY DEF Taken
  <2>2. \A i \in 0..Len(q) : g[i] = IF i = 0 THEN v ELSE Apply(g[i - 1], q[i])
    BY <2>1
  <2> QED BY <1>1, <2>2
<1>4. Good(0)
  <2>1. 0 \in 0..Len(q)
    BY <1>1
  <2>2. /\ Rest(0) \in Seq(Message) /\ Len(Rest(0)) = Len(q)
        /\ \A j \in 1..Len(q) : Rest(0)[j] = q[j]
    <3>1. \A j \in 1..Len(q) : j \in 1..Len(q) - 0 /\ 0 + j = j
      BY <1>1
    <3> QED BY <1>1, <1>2, <2>1, <3>1
  <2>3. Rest(0) = q
    BY <2>2, SeqEqual
  <2> QED BY <1>3, <2>3
<1>5. ASSUME NEW i \in 1..Len(q), Good(i - 1)
      PROVE  Good(i)
  <2>1. PICK w, r, t, m : w = g[i - 1] /\ r = Rest(i - 1) /\ t = Rest(i) /\ m = q[i]
    OBVIOUS
  <2>2. i - 1 \in 0..Len(q) /\ i \in 0..Len(q)
    BY <1>1
  <2>3. /\ r \in Seq(Message) /\ Len(r) = Len(q) - (i - 1)
        /\ \A j \in 1..Len(q) - (i - 1) : r[j] = q[i - 1 + j]
    BY <1>2, <2>1, <2>2
  <2>4. t \in Seq(Message) /\ Len(t) = Len(q) - i /\ \A j \in 1..Len(q) - i : t[j] = q[i + j]
    BY <1>2, <2>1, <2>2
  <2>5. r # <<>> /\ r[1] = m
    <3>1. Len(r) # 0 /\ 1 \in 1..Len(q) - (i - 1) /\ i - 1 + 1 = i
      BY <1>1, <2>3
    <3> QED BY <2>1, <2>3, <3>1, EmptySeq
  <2>6. Tail(r) = t
    <3>1. PICK u : u = Tail(r)
      OBVIOUS
    <3>2. u \in Seq(Message) /\ Len(u) = Len(q) - i /\ \A j \in 1..Len(r) - 1 : u[j] = r[j + 1]
      BY <1>1, <2>3, <2>5, <3>1, TailFacts
    <3>3. \A j \in 1..Len(q) - i : u[j] = t[j]
      <4> SUFFICES ASSUME NEW j \in 1..Len(q) - i PROVE u[j] = t[j]
        OBVIOUS
      <4>1. j \in 1..Len(r) - 1 /\ j + 1 \in 1..Len(q) - (i - 1) /\ i - 1 + (j + 1) = i + j
        BY <1>1, <2>3
      <4> QED BY <2>3, <2>4, <3>2, <4>1
    <3>4. u = t
      BY <2>4, <3>2, <3>3, SeqEqual
    <3> QED BY <3>1, <3>4
  <2>7. w \in Views /\ w.cursor \in Cursors /\ m \in Message
        /\ Queued(r, w.cursor, lengths, tip) /\ Reaches(r, w.cursor, Len(r), tip)
    BY <1>1, <1>5, <2>1 DEF Views
  <2>8. PICK x, c : x = Apply(w, m) /\ c = w.cursor
    OBVIOUS
  <2>9. x \in Views /\ x.cursor = Moved(c, m)
    BY <2>7, <2>8, ApplyFacts
  <2>10. Queued(t, Moved(c, m), lengths, tip) /\ Reaches(t, Moved(c, m), Len(t), tip)
    <3>1. c \in Cursors /\ Queued(r, c, lengths, tip) /\ Reaches(r, c, Len(r), tip)
      BY <2>7, <2>8
    <3>2. Queued(Tail(r), Moved(c, r[1]), lengths, tip)
      BY <2>3, <2>5, <3>1, QueuedTail
    <3>3. Reaches(Tail(r), Moved(c, r[1]), Len(Tail(r)), tip)
      BY <2>3, <2>5, <3>1, StillReaches
    <3> QED BY <2>5, <2>6, <3>2, <3>3
  <2>11. g[i] = x
    BY <1>3, <2>1, <2>8
  <2> QED BY <2>1, <2>9, <2>10, <2>11
<1> HIDE DEF Good
<1>6. T = {}
  <2> SUFFICES ASSUME T # {} PROVE FALSE
    OBVIOUS
  <2>1. T \subseteq Nat
    BY <1>1
  <2>2. PICK n \in T : \A m \in T : n <= m
    <3> HIDE DEF T
    <3> QED BY <2>1, Smallest
  <2>3. n \in 0..Len(q) /\ ~Good(n) /\ n # 0
    BY <1>4, <2>2
  <2>4. n \in 1..Len(q) /\ n - 1 \in 0..Len(q) /\ ~(n <= n - 1)
    BY <1>1, <2>3
  <2>5. Good(n - 1)
    BY <2>2, <2>4
  <2> QED BY <1>5, <2>3, <2>4, <2>5
<1>7. Good(Len(q))
  <2>1. Len(q) \in 0..Len(q)
    BY <1>1
  <2> QED BY <1>6, <2>1
<1>8. Len(Rest(Len(q))) = 0
  <2>1. Len(q) \in 0..Len(q) /\ Len(q) - Len(q) = 0
    BY <1>1
  <2> QED BY <1>2, <2>1
<1>9. Reaches(Rest(Len(q)), g[Len(q)].cursor, 0, tip)
  BY <1>7, <1>8 DEF Good
<1>10. ~\E j \in 1..0 : Moves(Rest(Len(q))[j]) /\ At(Rest(Len(q))[j]) = tip
  OBVIOUS
<1> QED BY <1>9, <1>10 DEF Reaches

LEMMA LevelIsDrained == IInv => LevelOnceDrained
<1> SUFFICES ASSUME IInv, fwd = "on" PROVE LevelOnceDrained
  BY DEF LevelOnceDrained
<1>1. PICK v, q, l, s : v = View /\ q = Ahead /\ l = log /\ s = sent
  OBVIOUS
<1>2. v \in Views /\ v.cursor = cursor /\ q \in Seq(Message) /\ s \in Place /\ Len(q) \in Nat
  <2>1. q \in Seq(Message) /\ s \in Place
    BY <1>1, Places DEF IInv
  <2>2. v \in Views /\ v.cursor = cursor
    BY <1>1 DEF IInv, Types, View, Views
  <2> QED BY <2>1, <2>2, LenProperties
<1>3. Queued(q, v.cursor, l, s) /\ Reaches(q, v.cursor, Len(q), s)
  BY <1>1, <1>2 DEF IInv, Aimed
<1>4. PICK h : h = CHOOSE g : Taken(g, v, q, Len(q))
  OBVIOUS
<1>5. Taken(h, v, q, Len(q))
  BY <1>2, <1>4, TakenExists
<1>6. h[Len(q)].cursor = s
  BY <1>2, <1>3, <1>5, TakenToTip
<1> QED BY <1>1, <1>4, <1>6 DEF LevelOnceDrained, Taken, Ahead

\* Whatever breaks, starts over or is restarted, and however far behind a viewport is, a viewport
\* that takes what is on its way ends up where its forwarder has it: no event is left out and none
\* is sent twice (ChatLog::attach, ChatFeed::forward, the store's appendEvents).
THEOREM NothingMissed == Spec => []LevelOnceDrained
<1>1. Spec => []IInv
  BY InitIInv, IInvStep, PTL DEF Spec
<1> QED BY <1>1, LevelIsDrained, PTL

-----------------------------------------------------------------------------
(* A reader who asks for no earlier page reads what it was promised.        *)

\* The page a viewport starts over with: it ends at the place it starts over at.
Fills(m, p) == \E a \in 1..p.seq : m.events = Span(p.log, a, p.seq)

\* Such a page comes right after the message that starts the viewport over.
Opens(q, at) ==
    \A i \in 1..Len(q) : q[i].type = "history" =>
        IF i = 1 THEN at # None /\ Fills(q[1], at)
        ELSE q[i - 1].type = "reset" /\ Fills(q[i], At(q[i - 1]))

LEMMA OpensNothing == ASSUME NEW at PROVE Opens(<<>>, at)
<1>1. 1..Len(<<>>) = {}
  OBVIOUS
<1> QED BY <1>1 DEF Opens

LEMMA OpensMore ==
    ASSUME NEW q \in Seq(Message), NEW at, Opens(q, at), NEW m \in Message, NEW a, a = Append(q, m),
           m.type = "history" => q # <<>> /\ q[Len(q)].type = "reset" /\ Fills(m, At(q[Len(q)]))
    PROVE  Opens(a, at) /\ (q # <<>> => a[1] = q[1]) /\ (q = <<>> => a[1] = m)
<1>1. /\ Len(q) \in Nat /\ Len(a) = Len(q) + 1 /\ a[Len(q) + 1] = m
      /\ \A i \in 1..Len(q) : a[i] = q[i]
      /\ q = <<>> <=> Len(q) = 0
  BY AppendFacts, EmptySeq
<1>2. Opens(a, at)
  <2> SUFFICES ASSUME NEW i \in 1..Len(a), a[i].type = "history"
               PROVE  IF i = 1 THEN at # None /\ Fills(a[1], at)
                      ELSE a[i - 1].type = "reset" /\ Fills(a[i], At(a[i - 1]))
    BY DEF Opens
  <2>1. CASE i \in 1..Len(q)
    <3>1. a[i] = q[i] /\ (i # 1 => a[i - 1] = q[i - 1])
      <4>1. i # 1 => i - 1 \in 1..Len(q)
        BY <1>1, <2>1
      <4> QED BY <1>1, <2>1, <4>1
    <3> QED BY <2>1, <3>1 DEF Opens
  <2>2. CASE i = Len(q) + 1
    <3>1. q # <<>> /\ q[Len(q)].type = "reset" /\ Fills(m, At(q[Len(q)]))
      BY <1>1, <2>2
    <3>2. i # 1 /\ i - 1 = Len(q) /\ Len(q) \in 1..Len(q)
      BY <1>1, <2>2, <3>1
    <3>3. a[i - 1] = q[Len(q)] /\ a[i] = m
      BY <1>1, <2>2, <3>2
    <3> QED BY <3>1, <3>2, <3>3
  <2> QED BY <1>1, <2>1, <2>2
<1>3. q # <<>> => 1 \in 1..Len(q)
  BY <1>1
<1> QED BY <1>1, <1>2, <1>3

LEMMA OpensPrefix ==
    ASSUME NEW q \in Seq(Message), NEW t \in Seq(Message), NEW at, Opens(q \o t, at)
    PROVE  Opens(q, at) /\ (q # <<>> => q \o t # <<>> /\ (q \o t)[1] = q[1])
<1>1. PICK a : a = q \o t
  OBVIOUS
<1>2. /\ Len(q) \in Nat /\ Len(a) = Len(q) + Len(t) /\ Len(t) \in Nat /\ a \in Seq(Message)
      /\ \A i \in 1..Len(q) + Len(t) : a[i] = IF i <= Len(q) THEN q[i] ELSE t[i - Len(q)]
  BY <1>1, ConcatProperties, LenProperties
<1>3. \A i \in 1..Len(q) : i \in 1..Len(a) /\ a[i] = q[i]
  BY <1>2
<1>4. Opens(a, at)
  BY <1>1
<1>5. Opens(q, at)
  <2> SUFFICES ASSUME NEW i \in 1..Len(q), q[i].type = "history"
               PROVE  IF i = 1 THEN at # None /\ Fills(q[1], at)
                      ELSE q[i - 1].type = "reset" /\ Fills(q[i], At(q[i - 1]))
    BY DEF Opens
  <2>1. i # 1 => i - 1 \in 1..Len(q)
    BY <1>2
  <2>2. i \in 1..Len(a) /\ a[i] = q[i] /\ (i # 1 => a[i - 1] = q[i - 1])
    BY <1>3, <2>1
  <2> QED BY <1>4, <2>2 DEF Opens
<1>6. ASSUME q # <<>> PROVE a # <<>> /\ a[1] = q[1]
  <2>1. 1 \in 1..Len(q) /\ Len(a) # 0
    BY <1>2, <1>6, EmptySeq
  <2> QED BY <1>2, <1>3, <2>1, EmptySeq
<1> QED BY <1>1, <1>5, <1>6

LEMMA OpensTail ==
    ASSUME NEW q \in Seq(Message), q # <<>>, NEW at, Opens(q, at), NEW to,
           q[1].type = "reset" => to = At(q[1]) /\ to # None
    PROVE  /\ Opens(Tail(q), to)
           /\ Tail(q) # <<>> /\ Tail(q)[1].type = "history" => q[1].type = "reset"
<1>1. PICK t : t = Tail(q)
  OBVIOUS
<1>2. /\ t \in Seq(Message) /\ Len(q) \in Nat \ {0} /\ Len(t) = Len(q) - 1
      /\ \A i \in 1..Len(q) - 1 : t[i] = q[i + 1]
  BY <1>1, TailFacts
<1>3. ASSUME NEW i \in 1..Len(t), t[i].type = "history"
      PROVE  /\ q[i].type = "reset" /\ Fills(t[i], At(q[i]))
             /\ i # 1 => t[i - 1] = q[i]
  <2>1. i \in 1..Len(q) - 1 /\ i + 1 \in 1..Len(q) /\ i + 1 # 1 /\ i + 1 - 1 = i
    BY <1>2
  <2>2. t[i] = q[i + 1]
    BY <1>2, <2>1
  <2>3. q[i].type = "reset" /\ Fills(q[i + 1], At(q[i]))
    BY <1>3, <2>1, <2>2 DEF Opens
  <2>4. i # 1 => t[i - 1] = q[i]
    <3> SUFFICES ASSUME i # 1 PROVE t[i - 1] = q[i]
      OBVIOUS
    <3>1. i - 1 \in 1..Len(q) - 1 /\ i - 1 + 1 = i
      BY <1>2, <2>1
    <3> QED BY <1>2, <3>1
  <2> QED BY <2>2, <2>3, <2>4
<1>4. Opens(t, to)
  <2> SUFFICES ASSUME NEW i \in 1..Len(t), t[i].type = "history"
               PROVE  IF i = 1 THEN to # None /\ Fills(t[1], to)
                      ELSE t[i - 1].type = "reset" /\ Fills(t[i], At(t[i - 1]))
    BY DEF Opens
  <2>1. CASE i = 1
    BY <1>3, <2>1
  <2>2. CASE i # 1
    BY <1>3, <2>2
  <2> QED BY <2>1, <2>2
<1>5. ASSUME t # <<>>, t[1].type = "history" PROVE q[1].type = "reset"
  <2>1. 1 \in 1..Len(t)
    BY <1>2, <1>5, EmptySeq
  <2> QED BY <1>3, <1>5, <2>1
<1> QED BY <1>1, <1>4, <1>5

\* What a viewport adds of a message is what lies between its place and the message's.
LEMMA OthersAre ==
    ASSUME NEW m \in Message, m.type = "chat", NEW lengths, Well(m, lengths), NEW at \in Place,
           at.log = At(m).log, at.seq < m.seq, m.seq <= at.seq + Len(m.events)
    PROVE  Others(at, m) = Span(at.log, at.seq + 1, m.seq)
<1>1. PICK e, n, k, s, a : e = m.events /\ n = Len(m.events) /\ k = Skipped(at, m) /\ s = m.seq
                           /\ a = at.seq
  OBVIOUS
<1>2. m \in Chats /\ e \in Seq(Event) /\ s \in 0..MaxEvents /\ a \in Nat /\ n \in Nat /\ s \in Nat
      /\ at.log \in 1..MaxRuns
  <2>1. m \in Chats
    BY MessageFacts
  <2>2. e \in Seq(Event) /\ s \in 0..MaxEvents
    BY <1>1, <2>1 DEF Chats
  <2>3. a \in Nat /\ n \in Nat
    BY <1>1, <2>1, OthersFacts, UptoFacts
  <2>4. s \in Nat /\ at.log \in 1..MaxRuns
    BY <2>2, Bounds DEF Place
  <2> QED BY <2>1, <2>2, <2>3, <2>4
<1>3. n \in 1..s /\ e = Span(at.log, s + 1 - n, s) /\ a < s /\ s <= a + n
  BY <1>1 DEF Well
<1>4. k = a + n - s
  BY <1>1, <1>2, <1>3 DEF Skipped
<1>5. k \in Nat /\ k + 1 \in 1..n /\ s + 1 - n \in Nat \ {0} /\ s + 1 - n <= s
  BY <1>2, <1>3, <1>4
<1>6. \A i \in 1..n : e[i] = <<at.log, s + 1 - n + i - 1>>
  <2>1. PICK b : b = s + 1 - n
    OBVIOUS
  <2>2. b \in Nat \ {0}
    BY <1>5, <2>1
  <2>3. \A i \in 1..(s + 1 - b) : Span(at.log, b, s)[i] = <<at.log, b + i - 1>>
    BY <1>2, <2>2, SpanFacts
  <2>4. \A i \in 1..(s + 1 - b) : e[i] = <<at.log, b + i - 1>>
    BY <1>3, <2>1, <2>3
  <2>5. s + 1 - b = n
    BY <1>2, <1>3, <2>1
  <2> QED BY <2>1, <2>4, <2>5
<1>7. PICK o, w : o = SubSeq(e, k + 1, n) /\ w = Span(at.log, a + 1, s)
  OBVIOUS
<1>8. /\ o \in Seq(Event) /\ Len(o) = s - a
      /\ \A i \in 1..(s - a) : o[i] = e[k + i]
  <2>1. \A i \in (k + 1)..n : e[i] \in Event
    <3>1. \A i \in 1..Len(e) : e[i] \in Event
      BY <1>2, DomainFacts
    <3> QED BY <1>1, <1>5, <3>1
  <2>2. /\ o \in Seq(Event) /\ Len(o) = n - (k + 1) + 1
        /\ \A i \in 1..(n - (k + 1) + 1) : o[i] = e[k + 1 + i - 1]
    BY <1>2, <1>5, <1>7, <2>1, SubSeqProperties
  <2>3. n - (k + 1) + 1 = s - a
    BY <1>2, <1>4
  <2>4. \A i \in 1..(s - a) : k + 1 + i - 1 = k + i
    BY <1>5
  <2> QED BY <2>2, <2>3, <2>4
<1>9. /\ w \in Seq(Event) /\ Len(w) = s - a
      /\ \A i \in 1..(s - a) : w[i] = <<at.log, a + 1 + i - 1>>
  <2>1. PICK b : b = a + 1
    OBVIOUS
  <2>2. b \in Nat \ {0} /\ b <= s /\ s + 1 - b = s - a
    BY <1>2, <1>3, <2>1
  <2>3. w \in Seq(Event) /\ Len(w) = s + 1 - b /\ \A i \in 1..(s + 1 - b) : w[i] = <<at.log, b + i - 1>>
    BY <1>2, <1>7, <2>1, <2>2, SpanFacts
  <2> QED BY <2>1, <2>2, <2>3
<1>10. \A i \in 1..(s - a) : o[i] = w[i]
  <2> SUFFICES ASSUME NEW i \in 1..(s - a) PROVE o[i] = w[i]
    OBVIOUS
  <2>1. k + i \in 1..n /\ s + 1 - n + (k + i) - 1 = a + 1 + i - 1
    BY <1>2, <1>3, <1>4, <1>5
  <2>2. o[i] = <<at.log, s + 1 - n + (k + i) - 1>>
    BY <1>6, <1>8, <2>1
  <2> QED BY <1>9, <2>1, <2>2
<1>11. o = w
  BY <1>8, <1>9, <1>10, SeqEqual
<1> QED BY <1>1, <1>7, <1>11 DEF Others

Opening(q, at, h) ==
    /\ Opens(q, at)
    /\ q # <<>> /\ q[1].type = "history" => h = <<>>

LEMMA OpeningMore ==
    ASSUME NEW q \in Seq(Message), NEW at, NEW h, Opening(q, at, h),
           NEW m \in Message, m.type # "history", NEW a, a = Append(q, m)
    PROVE  Opening(a, at, h)
<1>1. Opens(q, at)
  BY DEF Opening
<1>2. Opens(a, at)
  BY <1>1, OpensMore
<1>3. (q # <<>> => a[1] = q[1]) /\ (q = <<>> => a[1] = m)
  BY <1>1, OpensMore
<1> QED BY <1>2, <1>3 DEF Opening

LEMMA OpeningPage ==
    ASSUME NEW q \in Seq(Message), NEW at, NEW h, Opening(q, at, h),
           NEW r \in Message, r.type = "reset", NEW m \in Message, Fills(m, At(r)),
           NEW a, a = Append(Append(q, r), m)
    PROVE  Opening(a, at, h)
<1>1. PICK b : b = Append(q, r)
  OBVIOUS
<1>2. b \in Seq(Message) /\ b # <<>> /\ b[Len(b)] = r
  BY <1>1, AppendFacts
<1>3. Opening(b, at, h)
  BY <1>1, OpeningMore
<1>4. Opens(b, at) /\ b[Len(b)].type = "reset" /\ Fills(m, At(b[Len(b)])) /\ a = Append(b, m)
  BY <1>1, <1>2, <1>3 DEF Opening
<1>5. Opens(a, at)
  BY <1>2, <1>4, OpensMore
<1>6. b # <<>> => a[1] = b[1]
  BY <1>2, <1>4, OpensMore
<1> QED BY <1>2, <1>3, <1>5, <1>6 DEF Opening

LEMMA OpeningPrefix ==
    ASSUME NEW q \in Seq(Message), NEW t \in Seq(Message), NEW at, NEW h, Opening(q \o t, at, h)
    PROVE  Opening(q, at, h)
BY OpensPrefix DEF Opening

LEMMA OpeningNothing == ASSUME NEW at, NEW h PROVE Opening(<<>>, at, h)
BY OpensNothing DEF Opening

\* No earlier page has been asked for, so every page is one a viewport starts over with.
Pages ==
    /\ \A i \in 1..Len(asks) : asks[i].type # "load-earlier"
    /\ cursor = None => held = <<>>
    /\ Opening(Ahead, cursor, held)

PagesInv == earlier \in Nat /\ (earlier = 0 => Pages)

LEMMA LevelPages ==
    ASSUME Types, Pages, todo = <<>>, NEW from \in Cursors, Level(from),
           UNCHANGED <<wire, asks, held, cursor>>
    PROVE  Pages'
<1>1. PICK q, d, c, r, m, h : /\ q = wire /\ d = todo' /\ c = cursor /\ h = held
                              /\ r = ChatReset(Followed, End) /\ m = LastPage
  OBVIOUS
<1>2. q \in Seq(Message) /\ Ahead = q /\ Ahead' = q \o d
  BY <1>1, ConcatEmptySeq DEF Types, Ahead
<1>3. Catching(from, d)
  BY <1>1, LevelFacts
<1>4. Opening(q, c, h)
  BY <1>1, <1>2 DEF Pages
<1>5. r \in Message /\ r.type = "reset" /\ r.log = Followed /\ r.seq = End /\ m \in Message
  BY <1>1, TipFacts, MessageFacts, LastPageFacts DEF ChatReset
<1>6. Opening(q \o d, c, h)
  <2>1. CASE d = <<>>
    BY <1>2, <1>4, <2>1, ConcatEmptySeq
  <2>2. CASE /\ d = <<Chat(Span(Followed, from.seq + 1, End), End)>>
             /\ Span(Followed, from.seq + 1, End) \in Seq(Event)
    <3>1. PICK x : x = Chat(Span(Followed, from.seq + 1, End), End)
      OBVIOUS
    <3>2. x \in Message /\ x.type = "chat"
      BY <2>2, <3>1, TipFacts, MessageFacts DEF Chat
    <3>3. q \o d = Append(q, x)
      BY <1>2, <2>2, <3>1, <3>2, ConcatFacts
    <3> QED BY <1>2, <1>4, <3>2, <3>3, OpeningMore
  <2>3. CASE d = <<ChatReset(Followed, End)>>
    <3>1. q \o d = Append(q, r)
      BY <1>1, <1>2, <1>5, <2>3, ConcatFacts
    <3> QED BY <1>2, <1>4, <1>5, <3>1, OpeningMore
  <2>4. CASE d = <<ChatReset(Followed, End), LastPage>> /\ End > 0
    <3>1. q \o d = Append(Append(q, r), m)
      BY <1>1, <1>2, <1>5, <2>4, ConcatFacts
    <3>2. Fills(m, At(r))
      <4>1. At(r).log = Followed /\ At(r).seq = End
        BY <1>5 DEF At
      <4> QED BY <1>1, <2>4, <4>1, LastPageFacts DEF Fills
    <3> QED BY <1>2, <1>4, <1>5, <3>1, <3>2, OpeningPage
  <2> QED BY <1>3, <2>1, <2>2, <2>3, <2>4 DEF Catching
<1> QED BY <1>1, <1>2, <1>6 DEF Pages

LEMMA ForwardPages ==
    ASSUME Types, Pages, Forward
    PROVE  Pages'
<1>1. /\ todo = <<>> /\ sent \in Place /\ Head(feed) \in 0..MaxEvents
      /\ UNCHANGED <<wire, asks, held, cursor>>
      /\ \/ UNCHANGED todo
         \/ /\ Span(sent.log, Head(feed), Head(feed)) \in Seq(Event)
            /\ todo' = <<Chat(Span(sent.log, Head(feed), Head(feed)), Head(feed))>>
         \/ Level(None)
  BY ForwardFacts DEF client
<1>2. CASE UNCHANGED todo
  BY <1>1, <1>2 DEF Pages, Ahead
<1>3. CASE Level(None)
  <2>1. None \in Cursors
    BY DEF Cursors
  <2> QED BY <1>1, <1>3, <2>1, LevelPages
<1>4. CASE /\ Span(sent.log, Head(feed), Head(feed)) \in Seq(Event)
           /\ todo' = <<Chat(Span(sent.log, Head(feed), Head(feed)), Head(feed))>>
  <2>1. PICK q, x, c, h : /\ q = wire /\ c = cursor /\ h = held
                          /\ x = Chat(Span(sent.log, Head(feed), Head(feed)), Head(feed))
    OBVIOUS
  <2>2. q \in Seq(Message) /\ Ahead = q
    BY <1>1, <2>1, ConcatEmptySeq DEF Types, Ahead
  <2>3. x \in Message /\ x.type = "chat"
    BY <1>1, <1>4, <2>1, MessageFacts DEF Chat
  <2>4. Ahead' = Append(q, x)
    BY <1>1, <1>4, <2>1, <2>2, <2>3, ConcatFacts DEF Ahead
  <2>5. Opening(q, c, h)
    BY <2>1, <2>2 DEF Pages
  <2>6. Opening(Append(q, x), c, h)
    BY <2>2, <2>3, <2>5, OpeningMore
  <2> QED BY <1>1, <2>1, <2>4, <2>6 DEF Pages
<1> QED BY <1>1, <1>2, <1>3, <1>4

LEMMA ForwarderPages ==
    ASSUME IInv, Pages, Begin \/ Send \/ Forward \/ Lagged
    PROVE  Pages'
<1>1. CASE Begin
  <2>1. Level(want) /\ want \in Cursors /\ todo = <<>> /\ UNCHANGED <<wire, asks, held, cursor>>
    BY <1>1 DEF Begin, client, IInv, Following, Types
  <2> QED BY <2>1, LevelPages DEF IInv
<1>2. CASE Lagged
  <2>1. Level(sent) /\ sent \in Cursors /\ todo = <<>> /\ UNCHANGED <<wire, asks, held, cursor>>
    BY <1>2 DEF Lagged, CatchUp, client, IInv, Types
  <2> QED BY <2>1, LevelPages DEF IInv
<1>3. CASE Send
  <2>1. Ahead' = Ahead /\ UNCHANGED <<asks, held, cursor>>
    BY <1>3, SendFacts DEF Ahead, client, IInv
  <2> QED BY <2>1 DEF Pages
<1>4. CASE Forward
  BY <1>4, ForwardPages DEF IInv
<1> QED BY <1>1, <1>2, <1>3, <1>4

\* The forwarder is stopped, or the connection lost: what is left is a beginning of what there was.
LEMMA StoppedPages ==
    ASSUME Types, Pages, todo' = <<>>, wire' = wire \/ wire' = <<>>, UNCHANGED <<held, cursor>>,
           \A i \in 1..Len(asks') : asks'[i].type # "load-earlier"
    PROVE  Pages'
<1>1. PICK q, d, c, h : q = wire /\ d = todo /\ c = cursor /\ h = held
  OBVIOUS
<1>2. q \in Seq(Message) /\ d \in Seq(Message) /\ Opening(q \o d, c, h)
  BY <1>1 DEF Types, Pages, Ahead
<1>3. Opening(Ahead', c, h)
  <2>1. CASE wire' = <<>>
    <3>1. <<>> \in Seq(Message)
      BY EmptySeq
    <3>2. Ahead' = <<>>
      BY <2>1, <3>1, ConcatEmptySeq DEF Ahead
    <3> QED BY <3>2, OpeningNothing
  <2>2. CASE wire' = wire
    <3>1. Ahead' = q
      BY <1>1, <1>2, <2>2, ConcatEmptySeq DEF Ahead
    <3> QED BY <1>2, <3>1, OpeningPrefix
  <2> QED BY <2>1, <2>2
<1> QED BY <1>1, <1>3 DEF Pages

LEMMA ConnectionPages ==
    ASSUME Types, Pages, HandleAttach \/ HandleDetach \/ HandleLoadEarlier \/ SessionRestarted \/ Break
    PROVE  Pages'
<1>1. PICK q : q = asks
  OBVIOUS
<1>2. q \in Seq(Ask) /\ \A i \in 1..Len(q) : q[i].type # "load-earlier"
  BY <1>1 DEF Types, Pages
<1>3. q # <<>> => /\ Head(q).type # "load-earlier"
                  /\ \A i \in 1..Len(Tail(q)) : Tail(q)[i].type # "load-earlier"
  <2> SUFFICES ASSUME q # <<>>
               PROVE  /\ Head(q).type # "load-earlier"
                      /\ \A i \in 1..Len(Tail(q)) : Tail(q)[i].type # "load-earlier"
    OBVIOUS
  <2>1. /\ Len(q) \in Nat \ {0} /\ Len(Tail(q)) = Len(q) - 1 /\ Head(q) = q[1]
        /\ \A i \in 1..Len(q) - 1 : Tail(q)[i] = q[i + 1]
    BY <1>2, TailFacts
  <2>2. 1 \in 1..Len(q) /\ \A i \in 1..Len(q) - 1 : i + 1 \in 1..Len(q)
    BY <2>1
  <2> QED BY <1>2, <2>1, <2>2
<1>4. CASE HandleAttach
  <2>1. q # <<>> /\ asks' = Tail(q) /\ todo' = <<>> /\ wire' = wire /\ UNCHANGED <<held, cursor>>
    BY <1>1, <1>4 DEF HandleAttach, Spawn, client
  <2> QED BY <1>3, <2>1, StoppedPages
<1>5. CASE HandleDetach
  <2>1. q # <<>> /\ asks' = Tail(q) /\ todo' = <<>> /\ wire' = wire /\ UNCHANGED <<held, cursor>>
    BY <1>1, <1>5 DEF HandleDetach, client
  <2> QED BY <1>3, <2>1, StoppedPages
<1>6. CASE HandleLoadEarlier
  BY <1>1, <1>3, <1>6 DEF HandleLoadEarlier
<1>7. CASE SessionRestarted
  <2>1. asks' = q /\ wire' = wire /\ UNCHANGED <<held, cursor>>
    BY <1>1, <1>7 DEF SessionRestarted, client
  <2>2. CASE fwd = "off"
    <3>1. todo' = todo
      BY <1>7, <2>2 DEF SessionRestarted
    <3> QED BY <1>1, <2>1, <3>1 DEF Pages, Ahead
  <2>3. CASE fwd # "off"
    <3>1. todo' = <<>>
      BY <1>7, <2>3 DEF SessionRestarted, Spawn
    <3> QED BY <1>2, <2>1, <3>1, StoppedPages
  <2> QED BY <2>2, <2>3
<1>8. CASE Break
  <2>1. /\ todo' = <<>> /\ wire' = <<>> /\ UNCHANGED <<held, cursor>>
        /\ asks' = IF showing THEN <<Attach(cursor)>> ELSE <<>>
    BY <1>8 DEF Break, Reconnected, client
  <2>2. \A i \in 1..Len(asks') : asks'[i].type # "load-earlier"
    <3>1. PICK a : a = Attach(cursor)
      OBVIOUS
    <3>2. a.type = "attach"
      BY <3>1 DEF Attach
    <3>3. 1..Len(<<>>) = {} /\ Len(<<a>>) = 1 /\ <<a>>[1] = a
      OBVIOUS
    <3>4. CASE showing
      <4>1. \A i \in 1..Len(asks') : asks'[i] = a
        BY <2>1, <3>1, <3>3, <3>4
      <4> QED BY <3>2, <4>1
    <3>5. CASE ~showing
      BY <2>1, <3>3, <3>5
    <3> QED BY <3>4, <3>5
  <2> QED BY <2>1, <2>2, StoppedPages
<1> QED BY <1>4, <1>5, <1>6, <1>7, <1>8

LEMMA PersonPages ==
    ASSUME Types, Pages, Mount \/ Unmount
    PROVE  Pages'
<1>1. PICK q : q = asks
  OBVIOUS
<1>2. q \in Seq(Ask) /\ \A i \in 1..Len(q) : q[i].type # "load-earlier"
  BY <1>1 DEF Types, Pages
<1>3. PICK a \in Ask : asks' = Append(q, a) /\ a.type # "load-earlier"
  <2>1. CASE Mount
    <3>1. Attach(cursor) \in Ask /\ Attach(cursor).type # "load-earlier"
      BY AskFacts DEF Types, Attach
    <3> QED BY <1>1, <2>1, <3>1 DEF Mount
  <2>2. CASE Unmount
    <3>1. Detach \in Ask /\ Detach.type # "load-earlier"
      BY AskFacts DEF Detach
    <3> QED BY <1>1, <2>2, <3>1 DEF Unmount
  <2> QED BY <2>1, <2>2
<1>4. \A i \in 1..Len(asks') : asks'[i].type # "load-earlier"
  <2>1. /\ Len(q) \in Nat /\ Len(Append(q, a)) = Len(q) + 1 /\ Append(q, a)[Len(q) + 1] = a
        /\ \A i \in 1..Len(q) : Append(q, a)[i] = q[i]
    BY <1>2, AppendFacts
  <2>2. \A i \in 1..Len(q) + 1 : i \in 1..Len(q) \/ i = Len(q) + 1
    BY <2>1
  <2> QED BY <1>2, <1>3, <2>1, <2>2
<1>5. UNCHANGED <<todo, wire, held, cursor>>
  BY DEF Mount, Unmount, daemon, client
<1> QED BY <1>4, <1>5 DEF Pages, Ahead

LEMMA ReceivePages ==
    ASSUME IInv, Pages, Receive
    PROVE  Pages'
<1>1. PICK a, m, c, h, to, new : /\ a = Ahead /\ m = Head(wire) /\ c = cursor /\ h = held
                                 /\ to = cursor' /\ new = held'
  OBVIOUS
<1>2. a \in Seq(Message) /\ a # <<>> /\ a[1] = m /\ Ahead' = Tail(a) /\ m \in Message
  BY <1>1, ReceiveTakes
<1>3. to = Moved(c, m)
  BY <1>1, ReceiveTakes
<1>4. /\ m.type = "reset" => new = <<>>
      /\ m.type = "chat" => (new = h \/ c # None)
  BY <1>1, ReceiveTakes
<1>5. /\ c = None => h = <<>>
      /\ Opens(a, c)
  BY <1>1 DEF Pages, Opening
<1>6. m.type = "reset" => to = At(m) /\ to # None
  <2>1. m.type = "reset" => m.log \in 1..MaxRuns /\ m.seq \in 0..MaxEvents
    BY <1>2, MessageFacts DEF Resets
  <2> QED BY <1>3, <2>1, Bounds DEF Moved, At, Place
<1>7. /\ Opens(Tail(a), to)
      /\ (Tail(a) # <<>> /\ Tail(a)[1].type = "history") => m.type = "reset"
  BY <1>2, <1>5, <1>6, OpensTail
<1>8. to = None => new = <<>>
  <2>1. CASE m.type = "reset"
    BY <1>6, <2>1
  <2>2. CASE m.type = "history"
    <3>1. 1 \in 1..Len(a)
      BY <1>2, TailFacts
    <3>2. c # None
      BY <1>2, <1>5, <2>2, <3>1 DEF Opens
    <3> QED BY <1>3, <2>2, <3>2 DEF Moved
  <2>3. CASE m.type = "chat"
    <3>1. CASE c = None
      BY <1>4, <1>5, <2>3, <3>1
    <3>2. CASE c # None
      <4>1. c \in Place
        BY <1>1, <3>2, Places DEF IInv
      <4>2. m.seq \in 0..MaxEvents
        BY <1>2, <2>3, MessageFacts DEF Chats
      <4>3. [log |-> c.log, seq |-> m.seq] \in Place
        BY <4>1, <4>2 DEF Place
      <4> QED BY <1>3, <2>3, <3>2, <4>3, Bounds DEF Moved
    <3> QED BY <3>1, <3>2
  <2> QED BY <1>2, <2>1, <2>2, <2>3, MessageFacts
<1>9. Opening(Tail(a), to, new)
  BY <1>4, <1>7 DEF Opening
<1>10. asks' = asks
  BY ReceiveFacts DEF IInv
<1> QED BY <1>1, <1>2, <1>8, <1>9, <1>10 DEF Pages

LEMMA EarlierOnlyGrows ==
    ASSUME earlier \in Nat, [Next]_vars
    PROVE  earlier' \in Nat /\ (earlier' = 0 => earlier = 0)
<1>1. CASE AskEarlier
  BY <1>1 DEF AskEarlier
<1>2. CASE Next /\ ~AskEarlier
  <2>1. earlier' = earlier
    BY <1>2 DEF Next, Progress, Push, Restart, Relaunch, Begin, Send, Forward, Lagged, HandleAttach,
       HandleDetach, HandleLoadEarlier, SessionRestarted, Receive, Break, Mount, Unmount
  <2> QED BY <2>1
<1>3. CASE UNCHANGED vars
  BY <1>3 DEF vars
<1> QED BY <1>1, <1>2, <1>3

LEMMA PagesStep == IInv /\ PagesInv /\ [Next]_vars => PagesInv'
<1> SUFFICES ASSUME IInv, PagesInv, [Next]_vars PROVE PagesInv'
  OBVIOUS
<1>1. CASE UNCHANGED vars
  BY <1>1 DEF PagesInv, Pages, Ahead, vars, daemon, client
<1>2. CASE Next
  <2>1. earlier' \in Nat /\ (earlier' = 0 => earlier = 0)
    BY EarlierOnlyGrows DEF PagesInv
  <2>2. CASE AskEarlier
    <3>1. earlier \in Nat /\ earlier' = earlier + 1
      BY <2>2 DEF AskEarlier, PagesInv
    <3>2. earlier' # 0
      BY <3>1
    <3> QED BY <2>1, <3>2 DEF PagesInv
  <2>3. CASE ~AskEarlier
    <3>1. ASSUME Pages PROVE Pages'
      <4>1. CASE Push \/ Restart \/ Relaunch
        <5>1. UNCHANGED <<todo, wire, asks, held, cursor>>
          BY <4>1 DEF Push, Restart, Relaunch, client
        <5> QED BY <3>1, <5>1 DEF Pages, Ahead
      <4>2. CASE Begin \/ Send \/ Forward \/ Lagged
        BY <3>1, <4>2, ForwarderPages
      <4>3. CASE HandleAttach \/ HandleDetach \/ HandleLoadEarlier \/ SessionRestarted \/ Break
        BY <3>1, <4>3, ConnectionPages DEF IInv
      <4>4. CASE Receive
        BY <3>1, <4>4, ReceivePages
      <4>5. CASE Mount \/ Unmount
        BY <3>1, <4>5, PersonPages DEF IInv
      <4> QED BY <1>2, <2>3, <4>1, <4>2, <4>3, <4>4, <4>5 DEF Next, Progress
    <3> QED BY <2>1, <3>1 DEF PagesInv
  <2> QED BY <2>2, <2>3
<1> QED BY <1>1, <1>2

LEMMA InitPages == Init => PagesInv
<1> SUFFICES ASSUME Init PROVE PagesInv
  OBVIOUS
<1>1. /\ earlier = 0 /\ asks = <<>> /\ wire = <<>> /\ todo = <<>> /\ held = <<>>
  BY DEF Init
<1>2. <<>> \in Seq(Message) /\ 1..Len(<<>>) = {}
  BY EmptySeq
<1>3. Ahead = <<>>
  BY <1>1, <1>2, ConcatEmptySeq DEF Ahead
<1> QED BY <1>1, <1>2, <1>3, OpeningNothing DEF PagesInv, Pages

\* The transcript grows, or starts over as a new run.
LEMMA LogReads ==
    ASSUME Types, Push \/ Restart \/ Relaunch
    PROVE  F!FNext
<1>1. UNCHANGED <<held, cursor>>
  BY DEF Push, Restart, Relaunch, client
<1>2. CASE Push
  BY <1>1, <1>2 DEF Push, Run, F!FNext, F!Grow
<1>3. CASE Restart \/ Relaunch
  <2>1. PICK S, q, s : S = 0..MaxEvents /\ q = log /\ s \in S /\ log' = Append(q, s)
    BY <1>3, Bounds DEF Restart, Relaunch
  <2>2. q \in Seq(S)
    BY <2>1 DEF Types
  <2>3. Len(Append(q, s)) = Len(q) + 1 /\ \A i \in 1..Len(q) : Append(q, s)[i] = q[i]
    BY <2>1, <2>2, AppendFacts
  <2>4. F!NewRun
    BY <1>1, <2>1, <2>3 DEF F!NewRun
  <2> QED BY <2>4 DEF F!FNext
<1> QED BY <1>2, <1>3

\* A message that the viewport takes starts it over, fills it, takes it on, or changes nothing.
LEMMA ReceiveReads ==
    ASSUME IInv, Pages, Receive
    PROVE  F!FNext \/ UNCHANGED F!fvars
<1>1. PICK a, m, c, h, l, t : /\ a = Ahead /\ m = Head(wire) /\ c = cursor /\ h = held
                              /\ l = log /\ t = Tip
  OBVIOUS
<1>2. a \in Seq(Message) /\ a # <<>> /\ a[1] = m /\ m \in Message
  BY <1>1, ReceiveTakes
<1>3. cursor' = Moved(c, m) /\ log' = log
  BY <1>1, ReceiveTakes, ReceiveFacts DEF IInv, daemon
<1>4. c \in Cursors /\ t \in Place /\ Queued(a, c, l, t)
  BY <1>1, Places DEF IInv, Aimed
<1>5. Well(m, l)
  BY <1>2, <1>4, TakesIt
<1>6. Moves(m) => /\ Moved(c, m) = At(m) /\ At(m) \in Place /\ Real(At(m), l)
                  /\ c # None => Upto(c, At(m))
  BY <1>2, <1>4, TakesIt
<1>7. CASE m.type = "reset"
  <2>1. held' = <<>>
    BY <1>1, <1>7, ReceiveTakes
  <2>2. PICK to : to = At(m) /\ to \in Place /\ Real(to, l) /\ (c # None => Upto(c, to))
    BY <1>6, <1>7 DEF Moves
  <2>3. cursor' = to
    BY <1>3, <1>6, <1>7, <2>2 DEF Moves
  <2>4. to.log \in 1..Len(l) /\ to.seq \in 0..l[to.log] /\ to = [log |-> to.log, seq |-> to.seq]
    <3>1. Grows(l, l)
      BY <1>1, Places DEF IInv
    <3>2. to.log \in 1..Len(l) /\ l[to.log] \in 0..MaxEvents
      BY <2>2, <3>1, RunFacts
    <3> QED BY <2>2, <3>2, UptoFacts, Bounds DEF Real
  <2>5. c = None \/ to.log > c.log \/ (to.log = c.log /\ to.seq >= c.seq)
    <3>1. CASE c # None
      <4>1. c \in Place
        BY <1>4, <3>1 DEF Cursors, Place
      <4> QED BY <2>2, <3>1, <4>1, UptoFacts DEF Upto
    <3> QED BY <3>1
  <2>6. F!StartOver
    BY <1>1, <1>3, <2>1, <2>3, <2>4, <2>5 DEF F!StartOver
  <2> QED BY <2>6 DEF F!FNext
<1>8. CASE m.type = "history"
  <2>1. 1 \in 1..Len(a)
    BY <1>2, TailFacts
  <2>2. c # None /\ Fills(m, c) /\ h = <<>>
    BY <1>1, <1>2, <1>8, <2>1 DEF Pages, Opening, Opens
  <2>3. held' = m.events \o h
    BY <1>1, <1>8, ReceiveTakes
  <2>4. m.events \in Seq(Event)
    BY <1>2, <1>8, MessageFacts DEF Histories
  <2>5. held' = m.events
    BY <2>2, <2>3, <2>4, ConcatEmptySeq
  <2>6. cursor' = cursor
    BY <1>1, <1>3, <1>8 DEF Moved
  <2>7. F!Fill
    BY <1>1, <1>3, <2>2, <2>5, <2>6 DEF F!Fill, Fills, Span, F!Span
  <2> QED BY <2>7 DEF F!FNext
<1>9. CASE m.type = "chat"
  <2>1. /\ c \in Place /\ c # None /\ c.log = At(m).log /\ c.seq <= m.seq
        /\ m.seq <= c.seq + Len(m.events)
    BY <1>2, <1>4, <1>9, TakesIt
  <2>2. held' = IF c # None /\ c.seq < m.seq THEN h \o Others(c, m) ELSE h
    BY <1>1, <1>9, ReceiveTakes
  <2>3. CASE c.seq < m.seq
    <3>1. PICK b : b = m.seq
      OBVIOUS
    <3>2. held' = h \o Span(c.log, c.seq + 1, b)
      BY <1>2, <1>5, <1>9, <2>1, <2>2, <2>3, <3>1, OthersAre
    <3>3. cursor' = [c EXCEPT !.seq = b]
      <4>1. c = [log |-> c.log, seq |-> c.seq]
        BY <2>1, UptoFacts
      <4>2. cursor' = [log |-> c.log, seq |-> b]
        BY <1>3, <1>9, <2>1, <2>3, <3>1 DEF Moved
      <4> QED BY <4>1, <4>2
    <3>4. b \in (c.seq + 1)..l[c.log]
      <4>1. At(m) \in Place /\ Real(At(m), l) /\ At(m).seq = b
        BY <1>6, <1>9, <3>1 DEF Moves, At
      <4>2. Grows(l, l)
        BY <1>1, Places DEF IInv
      <4>3. l[c.log] \in 0..MaxEvents
        BY <2>1, <4>1, <4>2, RunFacts
      <4>4. b \in Nat /\ c.seq \in Nat /\ b <= l[c.log]
        BY <2>1, <4>1, UptoFacts DEF Real
      <4> QED BY <2>3, <3>1, <4>3, <4>4, Bounds
    <3>5. F!Extend
      BY <1>1, <1>3, <2>1, <3>2, <3>3, <3>4 DEF F!Extend, Span, F!Span
    <3> QED BY <3>5 DEF F!FNext
  <2>4. CASE ~(c.seq < m.seq)
    <3>1. held' = held
      BY <1>1, <2>2, <2>4
    <3>2. cursor' = cursor
      BY <1>1, <1>3, <1>9, <2>4 DEF Moved
    <3> QED BY <1>3, <3>1, <3>2 DEF F!fvars
  <2> QED BY <2>3, <2>4
<1> QED BY <1>2, <1>7, <1>8, <1>9, MessageFacts

LEMMA NextReads == IInv /\ Pages /\ [Next]_vars => [F!FNext]_F!fvars
<1> SUFFICES ASSUME IInv, Pages, [Next]_vars PROVE F!FNext \/ UNCHANGED F!fvars
  OBVIOUS
<1>1. CASE Push \/ Restart \/ Relaunch
  BY <1>1, LogReads DEF IInv
<1>2. CASE Receive
  BY <1>2, ReceiveReads
<1>3. ASSUME UNCHANGED <<log, held, cursor>> PROVE UNCHANGED F!fvars
  BY <1>3 DEF F!fvars
<1>4. CASE UNCHANGED vars
  BY <1>3, <1>4 DEF vars, daemon, client
<1>5. CASE Begin \/ Send \/ Forward \/ Lagged
  BY <1>3, <1>5 DEF Begin, Send, Forward, Lagged, client
<1>6. CASE HandleAttach \/ HandleDetach \/ HandleLoadEarlier \/ SessionRestarted
  BY <1>3, <1>6 DEF HandleAttach, HandleDetach, HandleLoadEarlier, SessionRestarted, Reconnected,
     client, daemon
<1>7. CASE Break \/ Mount \/ Unmount \/ AskEarlier
  BY <1>3, <1>7 DEF Break, Mount, Unmount, AskEarlier, Reconnected, client, daemon
<1> QED BY <1>1, <1>2, <1>4, <1>5, <1>6, <1>7 DEF Next, Progress

\* The daemon's log and feed, the forwarder, the queues, the breaks and the store keep what was
\* promised to the person who reads: as long as nobody asks for an earlier page, a chat never has a
\* gap, never shows an event twice and never goes back in time (chat_log.rs, store/transcript.ts).
THEOREM ReadsAsPromised == Spec /\ [](earlier = 0) => ImplementsFollowedLog
<1>1. Init => F!FInit
  BY DEF Init, F!FInit
<1>2. earlier = 0 /\ PagesInv => Pages
  BY DEF PagesInv
<1>3. IInv /\ PagesInv /\ earlier = 0 /\ [Next]_vars => [F!FNext]_F!fvars
  BY <1>2, NextReads
<1> QED
  BY <1>1, <1>3, InitIInv, IInvStep, InitPages, PagesStep, PTL
     DEF Spec, ImplementsFollowedLog, F!FSpec

\* What comes next goes on where the piece ends.
LEMMA SpanJoin ==
    ASSUME NEW run \in 1..MaxRuns, NEW a \in Nat \ {0}, NEW s \in 0..MaxEvents, a <= s + 1,
           NEW b \in 0..MaxEvents, s <= b
    PROVE  Span(run, a, s) \o Span(run, s + 1, b) = Span(run, a, b)
<1>1. PICK u, v, w, k : /\ u = Span(run, a, s) /\ v = Span(run, s + 1, b) /\ w = Span(run, a, b)
                        /\ k = s + 1
  OBVIOUS
<1>2. s \in Nat /\ b \in Nat /\ k \in Nat \ {0}
  BY <1>1, Bounds
<1>3. /\ u \in Seq(Event) /\ Len(u) = s + 1 - a
      /\ \A i \in 1..(s + 1 - a) : u[i] = <<run, a + i - 1>>
  <2>1. (IF a <= s THEN s + 1 - a ELSE 0) = s + 1 - a
    BY <1>2
  <2> QED BY <1>1, <2>1, SpanFacts
<1>4. /\ v \in Seq(Event) /\ Len(v) = b - s
      /\ \A i \in 1..(b - s) : v[i] = <<run, k + i - 1>>
  <2>1. (IF k <= b THEN b + 1 - k ELSE 0) = b - s /\ b + 1 - k = b - s
    BY <1>1, <1>2
  <2>2. v = Span(run, k, b)
    BY <1>1
  <2>3. /\ v \in Seq(Event) /\ Len(v) = IF k <= b THEN b + 1 - k ELSE 0
        /\ \A i \in 1..(b + 1 - k) : v[i] = <<run, k + i - 1>>
    BY <1>2, <2>2, SpanFacts
  <2> QED BY <2>1, <2>3
<1>5. /\ w \in Seq(Event) /\ Len(w) = b + 1 - a
      /\ \A i \in 1..(b + 1 - a) : w[i] = <<run, a + i - 1>>
  <2>1. (IF a <= b THEN b + 1 - a ELSE 0) = b + 1 - a
    BY <1>2
  <2> QED BY <1>1, <2>1, SpanFacts
<1>6. PICK o : o = u \o v
  OBVIOUS
<1>7. /\ o \in Seq(Event) /\ Len(o) = Len(u) + Len(v)
      /\ \A i \in 1..Len(u) + Len(v) : o[i] = IF i <= Len(u) THEN u[i] ELSE v[i - Len(u)]
  BY <1>3, <1>4, <1>6, ConcatProperties
<1>8. \A i \in 1..Len(o) : o[i] = w[i]
  <2> SUFFICES ASSUME NEW i \in 1..Len(o) PROVE o[i] = w[i]
    OBVIOUS
  <2>1. i \in 1..(b + 1 - a) /\ Len(u) = s + 1 - a /\ Len(u) + Len(v) = b + 1 - a
    BY <1>2, <1>3, <1>4, <1>7
  <2>2. w[i] = <<run, a + i - 1>>
    BY <1>5, <2>1
  <2>3. CASE i <= s + 1 - a
    <3>1. o[i] = u[i] /\ i \in 1..(s + 1 - a)
      BY <1>2, <1>7, <2>1, <2>3
    <3> QED BY <1>3, <2>2, <3>1
  <2>4. CASE ~(i <= s + 1 - a)
    <3>1. i - (s + 1 - a) \in 1..(b - s) /\ k + (i - (s + 1 - a)) - 1 = a + i - 1
      BY <1>1, <1>2, <2>1, <2>4
    <3>2. o[i] = v[i - (s + 1 - a)]
      BY <1>7, <2>1, <2>4
    <3> QED BY <1>4, <2>2, <3>1, <3>2
  <2> QED BY <2>3, <2>4
<1>9. o = w
  <2>1. Len(o) = Len(w)
    BY <1>2, <1>3, <1>4, <1>5, <1>7
  <2> QED BY <1>5, <1>7, <1>8, <2>1, SeqEqual
<1> QED BY <1>1, <1>6, <1>9

Piece(h, at) ==
    at # None => Len(h) <= at.seq /\ h = Span(at.log, at.seq + 1 - Len(h), at.seq)

LEMMA Pieces == HeldIsContiguous <=> Piece(held, cursor)
BY DEF HeldIsContiguous, F!Contiguous, Piece, Span, F!Span

LEMMA PieceStep ==
    ASSUME IInv, IInv', [F!FNext]_F!fvars, HeldIsContiguous
    PROVE  HeldIsContiguous'
<1>1. PICK h, c, h2, c2, l : h = held /\ c = cursor /\ h2 = held' /\ c2 = cursor' /\ l = log
  OBVIOUS
<1>2. /\ h \in Seq(Event) /\ Piece(h, c)
      /\ c # None => c \in Place
      /\ c2 # None => c2 \in Place
  BY <1>1, Pieces DEF IInv, Types, Cursors, Place
<1>3. SUFFICES ASSUME c2 # None PROVE Piece(h2, c2)
  BY <1>1 DEF HeldIsContiguous, F!Contiguous, Piece, Span, F!Span
<1>4. c2 \in Place /\ c2.log \in 1..MaxRuns /\ c2.seq \in 0..MaxEvents /\ c2.seq \in Nat
  BY <1>2, <1>3, Bounds DEF Place
<1>5. CASE UNCHANGED <<held, cursor>>
  BY <1>1, <1>2, <1>5
<1>6. CASE F!StartOver
  <2>1. h2 = <<>> /\ Len(h2) = 0
    BY <1>1, <1>6 DEF F!StartOver
  <2>2. PICK b : b = c2.seq + 1
    OBVIOUS
  <2>3. Span(c2.log, b, c2.seq) = <<>>
    <3>1. b \in Nat \ {0} /\ ~(b <= c2.seq)
      BY <1>4, <2>2
    <3>2. Span(c2.log, b, c2.seq) \in Seq(Event) /\ Len(Span(c2.log, b, c2.seq)) = 0
      BY <1>4, <3>1, SpanFacts
    <3> QED BY <3>2, EmptySeq
  <2>4. c2.seq + 1 - Len(h2) = b
    BY <1>4, <2>1, <2>2
  <2> QED BY <1>4, <2>1, <2>3, <2>4 DEF Piece
<1>7. CASE F!Fill
  <2>1. PICK a \in 1..c.seq : h2 = Span(c.log, a, c.seq)
    BY <1>1, <1>7 DEF F!Fill, Span, F!Span
  <2>2. c2 = c
    BY <1>1, <1>7 DEF F!Fill
  <2>3. a \in Nat \ {0} /\ a <= c.seq
    BY <1>4, <2>1, <2>2
  <2>4. Len(h2) = c.seq + 1 - a
    BY <1>4, <2>1, <2>2, <2>3, SpanFacts
  <2>5. Len(h2) <= c.seq /\ c.seq + 1 - Len(h2) = a
    BY <1>4, <2>2, <2>3, <2>4
  <2> QED BY <2>1, <2>2, <2>5 DEF Piece
<1>8. CASE F!Extend
  <2>1. PICK b \in (c.seq + 1)..l[c.log] : /\ h2 = h \o Span(c.log, c.seq + 1, b)
                                           /\ c2 = [c EXCEPT !.seq = b]
    BY <1>1, <1>8 DEF F!Extend, Span, F!Span
  <2>2. c \in Place
    BY <1>1, <1>2, <1>8 DEF F!Extend
  <2>3. c2.log = c.log /\ c2.seq = b
    <3>1. c = [log |-> c.log, seq |-> c.seq]
      BY <2>2, UptoFacts
    <3>2. c2 = [log |-> c.log, seq |-> b]
      BY <2>1, <3>1
    <3> QED BY <3>2
  <2>4. c.log \in 1..MaxRuns /\ c.seq \in 0..MaxEvents /\ c.seq \in Nat /\ Len(h) \in Nat
        /\ b \in 0..MaxEvents /\ c.seq < b
    BY <1>2, <1>4, <2>1, <2>2, <2>3, LenProperties, Bounds DEF Place
  <2>5. PICK a : a = c.seq + 1 - Len(h)
    OBVIOUS
  <2>6. Len(h) <= c.seq /\ h = Span(c.log, a, c.seq)
    BY <1>2, <2>2, <2>5, Bounds DEF Piece
  <2>7. a \in Nat \ {0} /\ a <= c.seq + 1
    BY <2>4, <2>5, <2>6
  <2>8. h2 = Span(c.log, a, b)
    <3>1. PICK r, s : r = c.log /\ s = c.seq
      OBVIOUS
    <3>2. r \in 1..MaxRuns /\ s \in 0..MaxEvents /\ a <= s + 1 /\ s <= b
      BY <2>4, <2>7, <3>1
    <3>3. Span(r, a, s) \o Span(r, s + 1, b) = Span(r, a, b)
      BY <2>4, <2>7, <3>2, SpanJoin
    <3> QED BY <2>1, <2>6, <3>1, <3>3
  <2>9. Len(h2) = b + 1 - a
    <3>1. a <= b
      BY <2>4, <2>7
    <3> QED BY <2>4, <2>7, <2>8, <3>1, SpanFacts
  <2>10. Len(h2) <= b /\ b + 1 - Len(h2) = a
    BY <2>4, <2>7, <2>9
  <2> QED BY <2>3, <2>8, <2>10 DEF Piece
<1>9. F!Grow \/ F!NewRun => UNCHANGED <<held, cursor>>
  BY DEF F!Grow, F!NewRun
<1> QED BY <1>5, <1>6, <1>7, <1>8, <1>9 DEF F!FNext, F!fvars

\* As long as nobody has asked for an earlier page, what a chat shows is a contiguous run of the
\* daemon's log that ends at its cursor (store/transcript.ts): only pages asked for can break that.
THEOREM ContiguousUnlessAsked == Spec => [](earlier = 0 => HeldIsContiguous)
<1> DEFINE Holds == earlier = 0 => HeldIsContiguous
<1>1. Init => Holds
  BY DEF Init, HeldIsContiguous, F!Contiguous
<1>2. IInv /\ PagesInv /\ Holds /\ [Next]_vars => Holds'
  <2> SUFFICES ASSUME IInv, PagesInv, Holds, [Next]_vars, earlier' = 0 PROVE HeldIsContiguous'
    OBVIOUS
  <2>1. earlier = 0 /\ Pages /\ HeldIsContiguous
    BY EarlierOnlyGrows DEF PagesInv
  <2>2. [F!FNext]_F!fvars
    BY <2>1, NextReads
  <2> QED BY <2>1, <2>2, IInvStep, PieceStep
<1> QED BY <1>1, <1>2, InitIInv, IInvStep, InitPages, PagesStep, PTL DEF Spec
=============================================================================
