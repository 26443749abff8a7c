----------------------------- MODULE ChatFollow -----------------------------
(***************************************************************************)
(* How one viewport follows one session's transcript: the daemon's log and *)
(* its feed (sessions/chat_log.rs), the task that forwards it and the      *)
(* connection that starts that task (transport/connection.rs), the queue   *)
(* every sender of the connection shares, and the store at the other end   *)
(* (packages/core/src/store).                                              *)
(*                                                                         *)
(* An event is <<run, place>>: what it says does not matter here.  The     *)
(* connection may break at any time, the viewport may leave and come back, *)
(* the conversation may start over and the agent may be launched afresh,   *)
(* all while frames are under way in both directions.                      *)
(***************************************************************************)
EXTENDS Integers, SequencesExt

CONSTANTS Page,         \* CHAT_PAGE
          Capacity,     \* CAPACITY of the feed
          QueueCap,     \* QUEUE_CAPACITY of the connection
          MaxEvents,    \* bound: events in one run
          MaxRuns,      \* bound: times the log starts over, and one
          MaxChurn,     \* bound: times the connection breaks or the viewport leaves
          MaxEarlier,   \* bound: times an earlier page is asked for
          None

ASSUME ChatFollowAssumption ==
    /\ {Page, Capacity, QueueCap, MaxEvents, MaxRuns} \subseteq Nat \ {0}
    /\ {MaxChurn, MaxEarlier} \subseteq Nat
    /\ None \notin [log : 1..MaxRuns, seq : 0..MaxEvents]

VARIABLES
    log,        \* lengths of the runs so far, the current one last
    feed,       \* frames the forwarder's receiver has waiting
    lagged,     \* the receiver missed frames
    left,       \* the run the forwarder's log was left at when the agent was started over, 0 if not
    fwd,        \* the forwarder: "off", "starting" or "on"
    want,       \* the cursor it starts with
    sent,       \* its place: run and last event sent
    todo,       \* messages it is about to send
    relaunched, \* the connection has yet to hear that the agent was started over
    asks,       \* messages on their way to the connection
    wire,       \* messages on their way to the viewport
    held, cursor, more,     \* the viewport's chat, chatCursor and chatEarlier
    showing,    \* the chat's pane is open
    churn, earlier          \* how often what the bounds limit has happened

daemon == <<log, feed, lagged, left, fwd, want, sent, todo, relaunched>>
client == <<held, cursor, more>>
vars == <<daemon, asks, wire, client, showing, churn, earlier>>

Run == Len(log)
Length == log[Run]
Span(run, a, b) == [i \in 1..(b + 1 - a) |-> <<run, a + i - 1>>]

Cursors == {None} \cup [log : 1..MaxRuns, seq : 0..MaxEvents]

TypeOK ==
    /\ log \in Seq(0..MaxEvents) /\ Len(log) \in 1..MaxRuns
    /\ feed \in Seq(0..MaxEvents) /\ Len(feed) <= Capacity
    /\ {lagged, relaunched, showing, more} \subseteq BOOLEAN
    /\ left \in 0..MaxRuns
    /\ fwd \in {"off", "starting", "on"}
    /\ {want, sent, cursor} \subseteq Cursors
    /\ Len(todo) <= 2 /\ Len(wire) <= QueueCap
    /\ \A i \in 1..Len(held) : held[i] \in (1..MaxRuns) \X (1..MaxEvents)

Init ==
    /\ log = <<0>>
    /\ feed = <<>>
    /\ lagged = FALSE
    /\ left = 0
    /\ fwd = "off"
    /\ want = None
    /\ sent = None
    /\ todo = <<>>
    /\ relaunched = FALSE
    /\ asks = <<>>
    /\ wire = <<>>
    /\ held = <<>>
    /\ cursor = None
    /\ more = FALSE
    /\ showing = FALSE
    /\ churn = 0
    /\ earlier = 0

-----------------------------------------------------------------------------
\* Messages.
Attach(at) == [type |-> "attach", cursor |-> at]
Detach == [type |-> "detach"]
LoadEarlier(n) == [type |-> "load-earlier", loaded |-> n]
ChatReset(run, seq) == [type |-> "reset", log |-> run, seq |-> seq]
ChatHistory(events, hasMore) == [type |-> "history", events |-> events, more |-> hasMore]
Chat(events, seq) == [type |-> "chat", events |-> events, seq |-> seq]

-----------------------------------------------------------------------------
\* The log.

\* A frame of the feed is the place of an event, or says that the log started over.
Restarted == 0

\* What a frame published now leaves in the forwarder's receiver.
Publish(frame) ==
    IF fwd # "on" \/ left # 0 THEN UNCHANGED <<feed, lagged>>
    ELSE IF Len(feed) = Capacity THEN lagged' = TRUE /\ feed' = <<>>
    ELSE IF lagged THEN UNCHANGED <<feed, lagged>>
    ELSE feed' = Append(feed, frame) /\ UNCHANGED lagged

\* extend
Push ==
    /\ Length < MaxEvents
    /\ log' = [log EXCEPT ![Run] = @ + 1]
    /\ Publish(Length + 1)
    /\ UNCHANGED <<left, fwd, want, sent, todo, relaunched, asks, wire, client, showing,
                   churn, earlier>>

\* restart
Restart ==
    /\ Run < MaxRuns
    /\ log' = Append(log, 0)
    /\ Publish(Restarted)
    /\ UNCHANGED <<left, fwd, want, sent, todo, relaunched, asks, wire, client, showing,
                   churn, earlier>>

\* The agent is started over: a log of its own, perhaps with a conversation it resumes, and
\* connections are told that the session was reset.
Relaunch ==
    /\ Run < MaxRuns
    /\ \E seed \in {0, MaxEvents} : log' = Append(log, seed)
    /\ left' = IF fwd = "off" \/ left # 0 THEN left ELSE Run
    /\ relaunched' = TRUE
    /\ UNCHANGED <<feed, lagged, fwd, want, sent, todo, asks, wire, client, showing, churn,
                   earlier>>

\* The run the forwarder's log is at, and how long it is.
Followed == IF left = 0 THEN Run ELSE left
End == log[Followed]

\* attach: whether a viewport that holds the log up to `at` keeps what it has.
Resumes(at) ==
    /\ at # None
    /\ at.log = Followed
    /\ at.seq <= End
    /\ End - at.seq <= Page

\* The last page of the log.
LastPage ==
    LET from == IF End > Page THEN End - Page ELSE 0
    IN  ChatHistory(Span(Followed, from + 1, End), from > 0)

\* attach and ChatFeed::start: the messages that bring the viewport level, and a receiver for what
\* comes after, taken in one go.
Level(at) ==
    /\ todo' = IF Resumes(at)
               THEN IF at.seq < End THEN <<Chat(Span(Followed, at.seq + 1, End), End)>> ELSE <<>>
               ELSE <<ChatReset(Followed, End)>> \o IF End > 0 THEN <<LastPage>> ELSE <<>>
    /\ sent' = [log |-> Followed, seq |-> End]
    /\ feed' = <<>>
    /\ lagged' = FALSE

-----------------------------------------------------------------------------
\* The forwarder (forward_chat, forward_pty, ChatFeed).

\* A forwarder that has just been spawned begins.
Begin ==
    /\ fwd = "starting"
    /\ fwd' = "on"
    /\ Level(want)
    /\ UNCHANGED <<log, left, want, relaunched, asks, wire, client, showing, churn, earlier>>

\* It sends a message, waiting for room in the queue.
Send ==
    /\ todo # <<>>
    /\ Len(wire) < QueueCap
    /\ wire' = Append(wire, Head(todo))
    /\ todo' = Tail(todo)
    /\ UNCHANGED <<log, feed, lagged, left, fwd, want, sent, relaunched, asks, client,
                   showing, churn, earlier>>

\* A slip: what has been sent is not noted.
NotNoted(seq) == sent

\* How far the viewport has been sent once event `seq` is on its way.
Noted(seq) == [sent EXCEPT !.seq = seq]

\* ChatFeed::forward: the next frame of the feed.
Forward ==
    /\ fwd = "on"
    /\ todo = <<>>
    /\ ~lagged
    /\ feed # <<>>
    /\ \/ /\ Head(feed) # Restarted
          /\ IF Head(feed) > sent.seq
             THEN /\ sent' = Noted(Head(feed))
                  /\ todo' = <<Chat(Span(sent.log, Head(feed), Head(feed)), Head(feed))>>
             ELSE UNCHANGED <<sent, todo>>
          /\ feed' = Tail(feed)
          /\ UNCHANGED lagged
       \/ /\ Head(feed) = Restarted
          /\ Level(None)
    /\ UNCHANGED <<log, left, fwd, want, relaunched, asks, wire, client, showing, churn, earlier>>

\* A slip: a receiver that missed frames just carries on with the next.
CarryOn == lagged' = FALSE /\ UNCHANGED <<feed, sent, todo>>

\* A viewport that missed frames is caught up from where it was.
CatchUp == Level(sent)

Lagged ==
    /\ fwd = "on"
    /\ todo = <<>>
    /\ lagged
    /\ CatchUp
    /\ UNCHANGED <<log, left, fwd, want, relaunched, asks, wire, client, showing, churn, earlier>>

-----------------------------------------------------------------------------
\* The connection.

\* attach: the previous forwarder, with what it was about to send, makes way for a new one.
Spawn(at) ==
    /\ fwd' = "starting"
    /\ want' = at
    /\ todo' = <<>>
    /\ feed' = <<>>
    /\ lagged' = FALSE
    /\ left' = 0

HandleAttach ==
    /\ asks # <<>>
    /\ Head(asks).type = "attach"
    /\ Spawn(Head(asks).cursor)
    /\ asks' = Tail(asks)
    /\ UNCHANGED <<log, sent, relaunched, wire, client, showing, churn, earlier>>

HandleDetach ==
    /\ asks # <<>>
    /\ Head(asks).type = "detach"
    /\ fwd' = "off"
    /\ todo' = <<>>
    /\ feed' = <<>>
    /\ lagged' = FALSE
    /\ left' = 0
    /\ asks' = Tail(asks)
    /\ UNCHANGED <<log, want, sent, relaunched, wire, client, showing, churn, earlier>>

\* The connection is gone and another takes its place: what was under way is lost, and a pane that
\* is open attaches again with what the store holds.
Reconnected ==
    /\ fwd' = "off"
    /\ todo' = <<>>
    /\ feed' = <<>>
    /\ lagged' = FALSE
    /\ left' = 0
    /\ relaunched' = FALSE
    /\ wire' = <<>>
    /\ asks' = IF showing THEN <<Attach(cursor)>> ELSE <<>>
    /\ UNCHANGED <<log, want, sent, client, showing>>

\* A slip: a page that would start before the log does is not cut off there.
EarlierUncut(loaded) ==
    LET oldest == IF Length > loaded THEN Length - loaded ELSE 0
        start == oldest - Page
    IN  ChatHistory(Span(Run, start + 1, oldest), start > 0)

\* earlier: the page just before the `loaded` most recent events, counted from the log's end now.
EarlierPage(loaded) ==
    LET oldest == IF Length > loaded THEN Length - loaded ELSE 0
        start == IF oldest > Page THEN oldest - Page ELSE 0
    IN  ChatHistory(Span(Run, start + 1, oldest), start > 0)

\* ChatLoadEarlier: answered at once if there is room; a connection with none is dropped.
HandleLoadEarlier ==
    /\ asks # <<>>
    /\ Head(asks).type = "load-earlier"
    /\ UNCHANGED <<churn, earlier>>
    /\ LET page == EarlierPage(Head(asks).loaded)
       IN  \/ /\ page.events # <<>>
              /\ Len(wire) = QueueCap
              /\ Reconnected
           \/ /\ page.events = <<>> \/ Len(wire) < QueueCap
              /\ wire' = IF page.events = <<>> THEN wire ELSE Append(wire, page)
              /\ asks' = Tail(asks)
              /\ UNCHANGED <<daemon, client, showing>>

\* session_restarted: a viewport that was following is moved onto the new process.
SessionRestarted ==
    /\ relaunched
    /\ relaunched' = FALSE
    /\ IF fwd = "off" THEN UNCHANGED <<fwd, want, todo, feed, lagged, left>> ELSE Spawn(None)
    /\ UNCHANGED <<log, sent, asks, wire, client, showing, churn, earlier>>

Break ==
    /\ churn < MaxChurn
    /\ churn' = churn + 1
    /\ Reconnected
    /\ UNCHANGED earlier

-----------------------------------------------------------------------------
\* The viewport.

\* A slip: an event that was sent twice is added twice.
AppendAll(view, m) ==
    IF view.cursor = None THEN view
    ELSE [view EXCEPT !.held = @ \o m.events, !.cursor = [@ EXCEPT !.seq = m.seq]]

\* appendEvents: events already held are left out.
AppendEvents(view, m) ==
    IF view.cursor = None \/ m.seq <= view.cursor.seq THEN view
    ELSE LET first == m.seq + 1 - Len(m.events)
             skipped == IF view.cursor.seq >= first THEN view.cursor.seq + 1 - first ELSE 0
         IN  [view EXCEPT !.held = @ \o SubSeq(m.events, skipped + 1, Len(m.events)),
                          !.cursor = [@ EXCEPT !.seq = m.seq]]

\* resetChat
ResetChat(view, m) ==
    [held |-> <<>>, cursor |-> [log |-> m.log, seq |-> m.seq], more |-> FALSE]

\* prependChatHistory
PrependChatHistory(view, m) == [view EXCEPT !.held = m.events \o @, !.more = m.more]

\* applyServerMessage
Apply(view, m) ==
    CASE m.type = "reset" -> ResetChat(view, m)
      [] m.type = "history" -> PrependChatHistory(view, m)
      [] m.type = "chat" -> AppendEvents(view, m)

View == [held |-> held, cursor |-> cursor, more |-> more]

Receive ==
    /\ wire # <<>>
    /\ wire' = Tail(wire)
    /\ LET next == Apply(View, Head(wire))
       IN  held' = next.held /\ cursor' = next.cursor /\ more' = next.more
    /\ UNCHANGED <<daemon, asks, showing, churn, earlier>>

\* The chat's pane opens ...
Mount ==
    /\ ~showing
    /\ showing' = TRUE
    /\ asks' = Append(asks, Attach(cursor))
    /\ UNCHANGED <<daemon, wire, client, churn, earlier>>

\* ... and closes.
Unmount ==
    /\ showing
    /\ churn < MaxChurn
    /\ churn' = churn + 1
    /\ showing' = FALSE
    /\ asks' = Append(asks, Detach)
    /\ UNCHANGED <<daemon, wire, client, earlier>>

\* "Load earlier messages" is pressed.
AskEarlier ==
    /\ showing
    /\ more
    /\ earlier < MaxEarlier
    /\ earlier' = earlier + 1
    /\ asks' = Append(asks, LoadEarlier(Len(held)))
    /\ UNCHANGED <<daemon, wire, client, showing, churn>>

-----------------------------------------------------------------------------
\* What goes on by itself: the tasks of the daemon, the network, the store.
Progress ==
    \/ Begin \/ Send \/ Forward \/ Lagged
    \/ HandleAttach \/ HandleDetach \/ HandleLoadEarlier \/ SessionRestarted
    \/ Receive

Next ==
    \/ Push \/ Restart \/ Relaunch
    \/ Progress
    \/ Break \/ Mount \/ Unmount \/ AskEarlier

Spec == Init /\ [][Next]_vars

FairSpec ==
    /\ Spec
    /\ WF_vars(Begin \/ Send \/ Forward \/ Lagged)
    /\ WF_vars(HandleAttach \/ HandleDetach \/ HandleLoadEarlier)
    /\ WF_vars(SessionRestarted)
    /\ WF_vars(Receive)

-----------------------------------------------------------------------------
\* Nothing is missed and nothing is sent twice: once a viewport has received what is on its way,
\* it is exactly as far as its forwarder says it has been sent (ChatLog::attach, ChatFeed).
LevelOnceDrained ==
    LET ahead == wire \o todo
        after[i \in 0..Len(ahead)] == IF i = 0 THEN View ELSE Apply(after[i - 1], ahead[i])
    IN  fwd = "on" => after[Len(ahead)].cursor = sent

\* Whatever breaks and whenever the viewport comes back, a viewport that stays is brought level
\* with the transcript: it shows the current run, up to its last event.
EventuallyLevel ==
    <>[]showing => <>[](cursor = [log |-> Run, seq |-> Length])

F == INSTANCE FollowedLog

\* The viewport reads the transcript as promised: no gap, nothing twice, never back in time.
ImplementsFollowedLog == F!FSpec

\* A viewport that is level with a log that has events shows some of them.  It does not hold (README).
NeverLeftEmpty ==
    fwd = "on" /\ wire \o todo = <<>> /\ cursor # None => cursor.seq = 0 \/ held # <<>>

\* "The events are a contiguous run of the daemon's log that ends at cursor.seq: earlier pages are
\* added at the front, new events at the end."  It does not hold (README).
HeldIsContiguous == F!Contiguous
=============================================================================
