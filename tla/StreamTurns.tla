---------------------------- MODULE StreamTurns ----------------------------
(***************************************************************************)
(* A chat session that keeps its agent running (sessions/stream_json.rs),  *)
(* with its queue.  Messages, interrupts and answers go to the agent's     *)
(* stdin, each in one piece under a lock; a reader task follows its stdout *)
(* to the end.  Every call stores the status it thinks right after it has  *)
(* written, whatever the reader has stored meanwhile.                      *)
(*                                                                         *)
(* The agent is taken at what the code and its tests say of it: a message  *)
(* starts a turn, or is folded into the one that runs, or is run as the    *)
(* next one; every turn ends with one result; an interrupt ends the turn;  *)
(* a request is answered by its id.  It may die at any time.               *)
(***************************************************************************)
EXTENDS TurnQueue

CONSTANTS MaxAsks,      \* bound: requests the agent makes
          MaxOutput     \* bound: frames waiting on its stdout

ASSUME StreamTurnsAssumption == MaxAsks \in Nat /\ MaxOutput \in Nat

Asks == 1..MaxAsks

VARIABLES
    agent,      \* "idle", "working" or "gone"
    backlog,    \* messages it runs as turns of their own, later
    asked,      \* requests made so far: a request is its number
    awaited,    \* requests it waits to have answered
    input,      \* what it has yet to read
    output,     \* what the reader has yet to read
    reader,     \* the reader: "reading", "allow", "announce" or "ended"
    parsed,     \* the request it is at
    pending,    \* requests shown to the person and not answered
    reply,      \* how far each answer of the person has come
    answers     \* how often each request has been answered

agentVars == <<agent, backlog, asked, awaited>>
pipes == <<input, output>>
replies == <<pending, reply, answers>>
sessionVars == <<agentVars, pipes, reader, parsed, replies>>
streamVars == <<qvars, sessionVars>>

Item(kind, id) == [kind |-> kind, id |-> id]
Inputs == [kind : {"turn", "interrupt", "answer"}, id : 0..MaxAsks]
Outputs == [kind : {"work", "ask", "result"}, id : 0..MaxAsks]

StreamTypeOK ==
    /\ TurnQueueTypeOK
    /\ call \in [Messages -> {"none", "begin", "written", "done"}]
    /\ stop \in [Presses -> {"none", "begin", "written", "done"}]
    /\ agent \in {"idle", "working", "gone"} /\ backlog \in Nat
    /\ asked \in 0..MaxAsks /\ awaited \subseteq Asks
    /\ input \in Seq(Inputs) /\ output \in Seq(Outputs)
    /\ reader \in {"reading", "allow", "announce", "ended"}
    /\ parsed \in 0..MaxAsks
    /\ pending \subseteq Asks
    /\ reply \in [Asks -> {"none", "taken", "written"}]
    /\ answers \in [Asks -> Nat]

StreamInit ==
    /\ TurnQueueInit
    /\ agent = "idle" /\ backlog = 0 /\ asked = 0 /\ awaited = {}
    /\ input = <<>> /\ output = <<>>
    /\ reader = "reading" /\ parsed = 0
    /\ pending = {}
    /\ reply = [id \in Asks |-> "none"]
    /\ answers = [id \in Asks |-> 0]

\* A line is written under the lock.  What an agent that is gone is written is lost, unnoticed.
Write(kind, id) ==
    /\ input' = IF agent = "gone" THEN input ELSE Append(input, Item(kind, id))
    /\ UNCHANGED output

-----------------------------------------------------------------------------
\* send_turn: the message is written, and then the session is at work.
SendTurn(m) ==
    /\ call[m] = "begin"
    /\ Write("turn", 0)
    /\ call' = [call EXCEPT ![m] = "written"]
    /\ UNCHANGED <<queue, status, unseen, watcher, stop, agentVars, reader, parsed, replies>>

Working(m) ==
    /\ call[m] = "written"
    /\ Signal("thinking")
    /\ call' = [call EXCEPT ![m] = "done"]
    /\ UNCHANGED <<queue, watcher, stop, sessionVars>>

\* interrupt: the request to stop is written, and the session settles.
StreamInterrupt(p) ==
    /\ stop[p] = "begin"
    /\ Write("interrupt", 0)
    /\ stop' = [stop EXCEPT ![p] = "written"]
    /\ UNCHANGED <<queue, status, unseen, watcher, call, agentVars, reader, parsed, replies>>

StreamSettle(p) ==
    /\ stop[p] = "written"
    /\ Signal("idle")
    /\ stop' = [stop EXCEPT ![p] = "done"]
    /\ UNCHANGED <<queue, watcher, call, sessionVars>>

\* A slip: a request that is being answered can be answered again.
StillPending(id) == pending

\* What is left to answer once someone answers a request: a later answer finds nothing.
NotPending(id) == pending \ {id}

\* respond_approval, of whichever viewport comes first.
Respond(id) ==
    /\ id \in pending
    /\ reply[id] = "none"
    /\ pending' = NotPending(id)
    /\ reply' = [reply EXCEPT ![id] = "taken"]
    /\ UNCHANGED <<qvars, agentVars, pipes, reader, parsed, answers>>

Answer(id) ==
    /\ reply[id] = "taken"
    /\ Write("answer", id)
    /\ answers' = [answers EXCEPT ![id] = @ + 1]
    /\ reply' = [reply EXCEPT ![id] = "written"]
    /\ UNCHANGED <<qvars, agentVars, reader, parsed, pending>>

Resume(id) ==
    /\ reply[id] = "written"
    /\ Signal("thinking")
    /\ reply' = [reply EXCEPT ![id] = "none"]
    /\ UNCHANGED <<queue, watcher, call, stop, agentVars, pipes, reader, parsed, pending,
                   answers>>

-----------------------------------------------------------------------------
\* The reader (spawn_reader).

\* It takes the next frame.
Read(kind) ==
    /\ reader = "reading"
    /\ output # <<>>
    /\ Head(output).kind = kind
    /\ output' = Tail(output)
    /\ UNCHANGED <<queue, watcher, call, stop, agentVars, input, reply, answers>>

\* Work is going on: a session that was settled meanwhile is at work again.
ReadWork ==
    /\ Read("work")
    /\ IF status = "idle" THEN Signal("thinking") ELSE UNCHANGED <<status, unseen>>
    /\ UNCHANGED <<reader, parsed, pending>>

\* A slip: it is reported as a status that chats do not have.
Done == Signal("done")

\* A turn is over.
TurnOver == Signal("idle")

ReadResult ==
    /\ Read("result")
    /\ TurnOver
    /\ UNCHANGED <<reader, parsed, pending>>

\* A slip: a request is announced and not kept for its answer.
NotKept(id) == pending

\* A request joins those to be answered.
Parked(id) == pending \cup {id}

\* A request: allowed at once in the modes that do, or else for the person.
ReadAsk ==
    /\ Read("ask")
    /\ parsed' = Head(output).id
    /\ \/ /\ reader' = "allow"
          /\ UNCHANGED pending
       \/ /\ reader' = "announce"
          /\ pending' = Parked(parsed')
    /\ UNCHANGED <<status, unseen>>

Allow ==
    /\ reader = "allow"
    /\ Write("answer", parsed)
    /\ answers' = [answers EXCEPT ![parsed] = @ + 1]
    /\ reader' = "reading"
    /\ UNCHANGED <<qvars, agentVars, parsed, pending, reply>>

Announce ==
    /\ reader = "announce"
    /\ Signal("waiting")
    /\ reader' = "reading"
    /\ UNCHANGED <<queue, watcher, call, stop, agentVars, pipes, parsed, replies>>

\* The agent's output is over.
ReadEnd ==
    /\ reader = "reading"
    /\ agent = "gone"
    /\ output = <<>>
    /\ Signal("idle")
    /\ reader' = "ended"
    /\ UNCHANGED <<queue, watcher, call, stop, agentVars, pipes, parsed, replies>>

-----------------------------------------------------------------------------
\* The agent.
Says(kind, id) ==
    /\ Len(output) < MaxOutput
    /\ output' = Append(output, Item(kind, id))

\* It goes on with the next message it put off, or rests.
NextTurn ==
    \/ /\ backlog > 0
       /\ backlog' = backlog - 1
       /\ UNCHANGED agent
    \/ /\ backlog = 0
       /\ agent' = "idle"
       /\ UNCHANGED backlog

TakeInput(kind) ==
    /\ agent # "gone"
    /\ input # <<>>
    /\ Head(input).kind = kind
    /\ input' = Tail(input)
    /\ UNCHANGED <<qvars, asked, reader, parsed, replies>>

TakeTurn ==
    /\ TakeInput("turn")
    /\ agent' = "working"
    /\ backlog' \in IF agent = "working" THEN {backlog, backlog + 1} ELSE {backlog}
    /\ UNCHANGED <<awaited, output>>

TakeInterrupt ==
    /\ TakeInput("interrupt")
    /\ awaited' = {}
    /\ IF agent = "working"
       THEN Says("result", 0) /\ NextTurn
       ELSE UNCHANGED <<agent, backlog, output>>

TakeAnswer ==
    /\ TakeInput("answer")
    /\ awaited' = awaited \ {Head(input).id}
    /\ UNCHANGED <<agent, backlog, output>>

Work ==
    /\ agent = "working"
    /\ Says("work", 0)
    /\ UNCHANGED <<qvars, agentVars, input, reader, parsed, replies>>

Ask ==
    /\ agent = "working"
    /\ asked < MaxAsks
    /\ asked' = asked + 1
    /\ awaited' = awaited \cup {asked'}
    /\ Says("ask", asked')
    /\ UNCHANGED <<qvars, agent, backlog, input, reader, parsed, replies>>

Finish ==
    /\ agent = "working"
    /\ awaited = {}
    /\ Says("result", 0)
    /\ NextTurn
    /\ UNCHANGED <<qvars, asked, awaited, input, reader, parsed, replies>>

Die ==
    /\ agent # "gone"
    /\ agent' = "gone"
    /\ backlog' = 0 /\ awaited' = {} /\ input' = <<>>
    /\ UNCHANGED <<qvars, asked, output, reader, parsed, replies>>

-----------------------------------------------------------------------------
QueueNext == (PersonNext \/ WatcherNext) /\ UNCHANGED sessionVars

\* What the tasks of the session go on to do.
StreamSends(m) == SendTurn(m) \/ Working(m)
Stops(p) == StreamInterrupt(p) \/ StreamSettle(p)
Replies(id) == Answer(id) \/ Resume(id)
Reads == ReadWork \/ ReadResult \/ ReadAsk \/ Allow \/ Announce \/ ReadEnd

Obeys == TakeTurn \/ TakeInterrupt \/ TakeAnswer

StreamNext ==
    \/ QueueNext
    \/ \E m \in Messages : StreamSends(m)
    \/ \E p \in Presses : Stops(p)
    \/ \E id \in Asks : Respond(id) \/ Replies(id)
    \/ Reads
    \/ Obeys \/ Work \/ Ask \/ Finish \/ Die

StreamSpec == StreamInit /\ [][StreamNext]_streamVars

\* The daemon has something in hand: a call, a frame, a change its watcher has not seen.
Busy ==
    \/ \E m \in Messages : call[m] \in {"begin", "written"}
    \/ \E p \in Presses : stop[p] \in {"begin", "written"}
    \/ \E id \in Asks : reply[id] # "none"
    \/ reader \in {"allow", "announce"} \/ output # <<>>
    \/ agent = "gone" /\ reader # "ended"
    \/ unseen \/ checked

-----------------------------------------------------------------------------
\* Nothing the agent waits for is lost: a request is on its way to the reader or in its hands, or
\* it is shown to whoever attaches, or its answer is on its way (spawn_reader, respond_approval).
AskIsAnswerable ==
    \A id \in awaited :
        \/ \E i \in DOMAIN output : output[i] = Item("ask", id)
        \/ reader = "allow" /\ parsed = id
        \/ id \in pending
        \/ reply[id] = "taken"
        \/ \E i \in DOMAIN input : input[i] = Item("answer", id)

\* However many viewports answer, the agent is given one answer to a request, and the person is
\* not asked again (respond_approval).
AnsweredOnce ==
    \A id \in Asks : answers[id] <= 1 /\ (answers[id] = 1 => id \notin pending)

\* A message waits with the agent at rest and no stop holding the queue, and nothing is left that
\* would send it: no timer, no look of the watcher to come, no message about to start a turn.
Left ==
    /\ status = "idle" /\ turns # <<>> /\ ~paused
    /\ ~settling /\ ~unseen /\ ~checked
    /\ \A m \in Messages : call[m] \notin {"begin", "written"}

\* Only a turn that came and went between two looks of the watcher leaves the queue behind:
\* whatever stops, answers and messages cross, every other end of a turn leaves something that
\* sends the next message (watch_chat, queue_turn, next).
QueueIsWatched ==
    [][Left' /\ ~Left => unseen /\ last = "idle" /\ ~unseen' /\ last' = "idle"]_streamVars

\* The queue is never left behind.  It does not hold (README).
NeverLeft == ~Left

\* "It can never get stuck on 'working'": with nothing under way and nothing on either pipe the
\* session says that it works only if its agent does.  It does not hold (README).
NeverStuckWorking ==
    ~Busy /\ input = <<>> /\ status = "thinking" => agent = "working"
=============================================================================
