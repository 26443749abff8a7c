# Soromi in TLA+

Soromi keeps coding agents running on a computer and lets its owner watch and drive them from a
window on that computer, from a phone, or from a browser. A daemon (`crates/daemon`, Rust) owns the
agents' terminals and chats. Viewports (`apps/`, `packages/gui`, `packages/core`) attach to it over a
socket of their own: on the computer itself, straight to it over the network, or through a relay
(`packages/relay`) that carries frames it cannot read. This directory holds TLA+ models of the parts
in which order, interleaving and loss decide whether the program is right, TLC runs that check them
on small instances, and TLAPS proofs of what holds for instances of every size.

Paths below are relative to the repository; `daemon/` stands for `crates/daemon/src/`.

## The system

### Parts, their state and how they interact

| Part | State it keeps | What happens to it | Hard about it |
|---|---|---|---|
| Hub (`daemon/workspaces/service.rs`) | viewers, controller, control_owed, presence; workspaces, sessions, queues | called directly by every connection's task, in parallel | calls let go of one lock before taking the next; presence is computed under locks and stored after them |
| Connection of a viewport (`daemon/transport/server.rs`, `connection.rs`) | the sessions it is attached to, one forwarder task each; whether its client has proved itself, is present, is ready | one serve loop per socket, one writer task, tasks for control, routes, relay and resets | every task queues into one bounded queue; attach replaces a running forwarder |
| Transcript log (`daemon/sessions/chat_log.rs`) | events, the id of the log's current run, a broadcast channel | push, restart, attach, earlier | a receiver that falls behind loses frames; a run may end while a viewport is being caught up |
| Viewport's store (`packages/core/src/store`) | chat events, cursor, whether there is more before | `applyServerMessage` for each message | pages arrive between live events |
| Encrypted session (`daemon/transport/codec.rs`, `packages/core/src/transport/relay-crypto.ts`, `secure-transport.ts`) | keys and counters of either direction | asked for by the device, answered by the host, over a carrier that may lose, delay and repeat | the answer waits in the outbound queue behind what was meant for the last client |
| Message queue of a chat (`daemon/sessions/queue.rs`, `watch_chat` in `service.rs`) | messages not sent yet, whether a stop holds them | push, take, next, pause, resume; a watcher per session sends the oldest once the agent has been idle | the watcher and the person's own requests race for the same messages and status |
| Chat, one process per turn (`daemon/sessions/exec_chat.rs`) | status, the current process, the conversation id | send_turn, interrupt | several send_turn calls may overlap; each replaces `child` |
| Chat, long-lived agent (`daemon/sessions/stream_json.rs`) | stdin, status, pending approvals, streaming text | send_turn, interrupt, respond_approval, the reader task | status is stored on both sides of awaits |
| Relay room (`packages/relay/src/rooms/room.ts`) | which socket holds each side's seat | join, replace, forward, leave, fail | the late close of a replaced socket; a newcomer must be greeted as one |
| Relay link (`daemon/transport/relay.rs`) | backoff | dial, be replaced | two daemons with one pairing |
| Direct links (`daemon/transport/direct.rs`) | sockets not proved yet | accept, prove, time out | places taken by sockets that never prove themselves |
| Pairing (`daemon/pairing`) | paired devices and their keys | pair, revoke, switch off | a link that outlives its device |
| Route choice (`packages/core/src/transport/routed-transport.ts`, `web-socket-transport.ts`, `apps/mobile/src/services/link.ts`) | the route in use, the relay link, the probes, six timers, what the app is told | a socket opens, answers, drops or falls silent; a timer; a recheck | a late winner; a silent socket; a state in which nothing is under way |
| Computers of a phone (`apps/mobile/src/services/computers.ts`, `keychain.ts`) | the list and the one in use, in the keychain and in a store; the link and the stores it fills | boot, use, add, forget, change relay, learn a name | every operation is a chain of awaits; the app may be killed between two writes |
| Files on a phone (`apps/mobile/src/features/files`, `states/workspace`) | listings, open folders, a file, a draft, its save | show, open, trash, edit, save; the link comes and goes | what the daemon remembers ends with the connection, what the phone remembers does not |
| Notifications, keep-awake, instance lock (`daemon/notifications`, `keep_awake`, `instance.rs`) | pending notices with a generation; a power assertion; the lock and the published address | debounce, fire, cancel; hold, release; claim, publish | a timer that fires after its session moved on; two daemons starting at once |
| Files, git, providers, accounts, command line, updates, GUI rendering | mostly none that is shared | read, parse, draw | conversions and I/O, better served by unit tests |

A message goes this way: the person types in a viewport; `packages/core` seals it in the session and
hands it to a route; the daemon's connection opens it and calls the hub; the hub asks whether this
viewport drives (`drives`) and calls the session; the session's agent prints events; the log appends
and broadcasts them; each connection's forwarder turns them into messages and queues them; the writer
task seals and sends them; the store of each viewport applies them.

### What makes each part correct

- Control: one party drives at a time, never nobody while somebody is there; it moves only for a
  reason the person can name (a claim, a departure, a return); banners go where the person is.
- Transcript: a viewport shows a contiguous piece of the log, misses nothing, shows nothing twice,
  never goes back, and is level in the end.
- Encrypted session: each end takes the other's messages in order and at most once; no nonce is used
  twice; nothing meant for one client is sealed for another.
- Queue: a message is sent once, in the order of writing; a stop holds what waits; what waits goes out.
- Route choice: the best route that works is used in the end, no socket is left behind, the app is never
  told "connecting" for good.
- Relay room: one socket a side, each told who is there, newcomers on a session of their own.
- Computers: one in use, none lost, none back that was forgotten.
- Files on a phone: the screen ends as the disk, and nothing passes for saved that was not.
- Chat session: it says "idle" once nothing runs, nothing runs once it says everything is over, and
  only a stop kills a turn.

## What is modelled

| Module | Kind | Stands for |
|---|---|---|
| `Driving` | abstract | what control promises to parties: devices, and viewports on the computer |
| `Control` | component | the hub's control calls and the connection tasks that make them |
| `ControlProofs` | proofs | type correctness, both invariants, and that Control implements Driving |
| `FollowedLog` | abstract | what a reader of a transcript is promised |
| `ChatFollow` | composition | log, forwarder, connection, shared queue, network, store and pane |
| `ChatFollowProofs` | proofs | type correctness, nothing missed, and that ChatFollow implements FollowedLog while no earlier page is asked for |
| `SecureLink` | composition | both ends of encrypted sessions, the host's queue and writer, the network |
| `SecureLinkProofs` | proofs | type correctness and the three invariants |
| `TurnQueue` | component | the queue, what the person does with it, the watcher; open towards the backend |
| `ExecTurns` | composition | TurnQueue with the backend that runs one process per turn |
| `StreamTurns` | composition | TurnQueue with the backend that keeps its agent running |
| `TurnsProofs` | proofs | the queue's lemmas; type correctness, the invariants and the action property of both backends |
| `RoutedTransport` | composition | the routed transport, its WebSocket links, the link status of the app |
| `RoutedTransportProofs` | proofs | type correctness and the four safety invariants |
| `RelayRoom` | composition | a room of the relay, and as much of both ends as opens and drops a session |
| `RelayRoomProofs` | proofs | type correctness and the three invariants |
| `Computers` | component | the phone's computers, its keychain, which one the link and the stores are of |
| `ComputersProofs` | proofs | type correctness and the four invariants |
| `PhoneFiles` | composition | a workspace's tree and a file on the phone, the link, the daemon and the disk |
| `PhoneFilesProofs` | proofs | type correctness and both invariants |
| `MC...` | instances | model values and bounds for TLC |

In every component module, a definition that starts with the comment "A slip" is not part of the
model: it is the mistake that the definition below it might have been, and shows that a property
notices. `PROJECT.json` maps each modelling definition to the lines it stands for.

### Control and Driving

`viewers` with `before` (the order of the list), `controller`, `owed` and `onDevice` are the fields
`viewers`, `controller`, `control_owed` and `presence.on_device` of `WorkspaceService`; `fresh[v]` is
the serve loop's `fresh_session`. A connection's task runs one call at a time, and a call is cut where
it releases its locks: `pc[v]` is the piece it is at. So `take_control` is `TakeControl` then
`Forgive`; `drives` is `Act` then `SettleOwed`; every call that changes control ends in
`ReadPresence` then `StorePresence` (`control_changed`). Registration is `Arrive` (a local socket, a
device in the relay's room) or `Prove` (the first frame that opened), which goes on to `Follow`
(`follow_device`); `Speak` is the first frame of a session on a link that is registered. Between the
pieces of one call every other task may run.

`Driving` forgets links, calls and presence. Its parties are devices and local viewports, and its
steps are what a person could observe: join, withdraw, drop (someone stands in, a device is owed its
return), give back, take, settle. `Control!D` maps a viewport to its party. The map is the point: a
phone that changes route while it drives is several steps of Control and none of Driving.

Left out: unregistering a viewport that was never registered (it only recomputes presence); the name
of a device (naming is the recomputation it triggers); what viewports are told about the change
(`send_control`), and revocation, both planned.

### ChatFollow and FollowedLog

An event is its run and its place in it. `log` holds the length of every run. `feed` and `lagged` are
the forwarder's broadcast receiver, `sent` the place `ChatFeed` keeps, `todo` the messages it is about
to queue (it waits for room), `wire` the shared outbound queue together with the network behind it,
`held`, `cursor` and `more` the store's `chat`, `chatCursor` and `chatEarlier`, `asks` what the
viewport asked and the connection has not read. `Level` is `ChatLog::attach` with `ChatFeed::start`:
resume where the viewport is, or reset it and send a page, and a receiver for what comes after, all
under the log's lock. `Forward`, `Lagged` and `Begin` are `ChatFeed::forward` and the start of
`forward_chat`. `Relaunch` starts the agent over with a log of its own while forwarders still follow
the old one (`left`), until `SessionRestarted` attaches them again. `Break` ends the connection and
loses both directions; a pane that is open attaches again with the store's cursor.

Left out: `chat-resumed`, status, approval and delta messages, which share the queue but reset other
slices of the store; the broadcast of resets overrunning (one session cannot make it). The abort of a
replaced forwarder is taken to be prompt; a module in which the old one still runs is planned.

### SecureLink

A session is named by the pair of contributions to its keys; a frame opens under its own session
only, and that is the whole assumption on the cipher. The carrier is the sets `opens`, `accepts`,
`up` and `down`: a frame once in them may be taken at any time, again, or never. `queue` is the
outbound queue with the answers in it (`Frame::Session`); `Begin` and `Write` are the writer task;
`receive` and `send` are the two halves of the codec, which switch at different moments: reading
when a request is answered, sending when the answer leaves the queue. `FindReady` and `Tell` are the
tasks that look at `is_ready` and queue a notice later, with nothing held in between. `Left` is the
relay's word that the device went. `down` records, for the properties only, the session each message
was queued for. A queue that is full ends the connection, which is the guard on `Enqueue`.

### TurnQueue and ExecTurns

`turns` and `paused` are a session's `Queue`; `status` with `unseen` is the watch channel, which wakes
the watcher even when the value sent is the same; `last`, `settling`, `checked` and `sending` are the
watcher's `last_status`, its armed timer, the point between reading the status and locking the queue,
and the call it awaits. `ChatTurn`, `ChatQueue`, `ChatUnqueue` and `ChatInterrupt` are the handlers in
`connection.rs` with the hub's methods they call, each under one lock. Sending happens in a task of
its own, or inside the watcher: `call[m]` says how far the sending of message `m` is. TurnQueue puts
it at `"begin"`; the backend's module takes it to `"done"`.

ExecTurns is `send_turn` of `exec_chat.rs` cut at its awaits and its lock: `Begin` (thinking),
`Launch` (the process starts, or does not), `Keep` (`child` is replaced, and dropping what was there
kills it: `kill_on_drop`), `Follow` (frames that set the status), `Ended` (the output ends), `Clear`.
`ExecInterrupt` and `ExecSettle` are the two halves of `interrupt`. `Exit` is the agent's own process, which
may end at any time, its turn complete or not.

Time is left out: the settle timer may fire at any moment after it is armed, which covers every
delay. Also left out: the gate of `drives` in front of each handler (module Control), `forget` when a
session closes or becomes a terminal, events of the log (ChatFollow), and the watcher's notices.

### StreamTurns

The same queue over `stream_json.rs`. `input` and `output` are the agent's stdin and stdout; `reader`
is where the reader task stands, with the request it is at (`parsed`); `pending` is the map of that
name; `call[m]`, `stop[p]` and `reply[id]` say how far each `send_turn`, `interrupt` and
`respond_approval` has come. All three are cut at the same place: after the write to stdin is
awaited, before the status is stored (`SendTurn`/`Working`, `StreamInterrupt`/`StreamSettle`, `Respond`/`Answer`/
`Resume`). The reader's frame with a request is cut before its write (`Allow`) or its status
(`Announce`). `answers` is for the properties only.

The agent is not in the repository. It is taken at what the code relies on, in its comments and its
tests: a message starts a turn, is folded into the one that runs, or runs as the next; a turn ends
with one result; an interrupt ends the turn and what it waited for; a request waits for its answer;
it may die at any time. That a permission mode allows a request at once is a free choice.

Left out: the streaming text and its reset, the agents beside it (`Subagents`), the interrupted
marker and the log, the slash commands that `set_model` writes, and the snapshot for a viewport that
attaches. The handshake at the start is not a message the agent answers with a turn.

There is no timing in `StreamSpec`: the daemon may be slower than the agent, the watcher a task like
any other on a channel that keeps the last status alone. So a turn that ends, and one that follows,
may be one look for the watcher, or none: if it finds "idle" where it found "idle" before, it arms no
timer. `QueueIsWatched` says that this is the only way in which a queue is ever left with a message
and nothing to send it: whatever else crosses (a "thinking" stored after the turn is over, a stop, an
answer, a death), something sends it on. That this one way exists is `NeverLeft`, below.

### RoutedTransport

JavaScript runs one handler at a time, and none of these handlers awaits: an action is a whole
handler with every call it makes. The phone's state is one record, `rt`; an operator from record to
record stands for a method and has its name (`Race`, `Proven`, `Lost`), and an action composes them
in the order the code calls them. `phase[l]` is how far the WebSocketTransport of link `l` has come;
`mute` are sockets that look open and from which nothing comes any more; `attached` are the links
whose present connection the app has asked for its streams. A timer that is set may fire at any
moment. `Settle` is the moment after which nobody interferes: the set `good` of routes works, some
sockets are silent for good, and what follows is up to the timers alone. Before it anything goes.
Nothing ends a silent socket for the transport: that its end is never noticed is what the comment of
`routed-transport.ts:71-73` says, and the link in use and each probe have a timer for it. A relay link that is open or being dialed and not in use has none
(`Unwatched`): `RelayReached` leaves out the states in which that one is silent, and says that there
is no way into them any more once the network is calm.

Left out: the queue of messages (only that it is flushed on `Seat`), the names and addresses of
routes beyond their being different, how long each timer waits (a check that waits is not replaced
by a less patient one), and round trips.

### RelayRoom

`room` is the state the runtime keeps for a room: each socket's attachment (`seat`), which sockets
are open (`open`), and the frames on their way to each. The handlers of a Durable Object contain no
await, so each is one action. `peer`, `asked`, `pending` and `session` are the two ends: a phone asks
for a session when it is told that the daemon is there and drops it when told otherwise; the daemon
answers each request and drops its session when the phone has left. A socket is used once; frames on
one socket arrive in order; a socket goes with a close or without a word, in which case the runtime
notices at some time (`Errored`). SecureLink has what a session protects; here it is who shares one.

### Computers

An operation of the service is a chain of requests to the keychain, and `tasks` holds what is left of
each: the request it waits for and what it will do. The keychain module takes requests one at a time,
in the order they were made (the queue of an Expo module). A step is the code between two awaits.
`Restart` kills the app anywhere; `Fail` is a write that throws, which ends its operation, or a read
that throws, which reads as nothing. Operations start whatever others are under way, from what the
store says then, and go on with the list they made: nothing in the code makes one wait for another.
`MaxTasks` bounds how many are under way in the run alone. `failed`, `kept`, `gone` and `crossed` are
histories for the properties: whether a request failed, which computers the phone has promised to
keep, which were asked to be forgotten (until an operation is started from a list that still has
them), and which kinds of operations have crossed: two that dial different computers, or a name said
while another operation has yet to show its list. A computer that is added is promised once it is
shown, if nothing that was started without it is still to write.

Left out: the move of a pairing from the time there was one, this install's id, preferences, and what
the routes of a computer are (reading them is the step `fetch`, dropping them `dropRoutes`).

### PhoneFiles

`tree` is the screen's folders and listings, `file` one file with its draft and its save, both as the
stores keep them across a break of the link; `listed` is what the daemon remembers of this
connection, `changed` what its watcher has still to tell. Messages are in order each way; those sent
while there is no link wait for one (RoutedTransport's queue), those on their way when it breaks are
lost. What a folder holds is a counter, the file's content a number. Others on the computer, agents
among them, change folders (`Changes`) and the file (`Edited`) at any time; the watcher tells of a
folder, and nothing tells of a file, so `past.left` keeps what the file was when it was last read or
written for the phone. The tree's effect runs after every change of what it reads (`TreeIs`).
Handling a message is one step of the daemon: its listing and the answer's place in the queue are not
crossed by the watcher's task, which debounces for 300 ms. The editor's timer may give a save up at
any moment (`FailSave`), with the write still waiting for a link or its answer on the way: `past.late`
notes that an answer could still come, which ends with the link, and `past.dropped` that a write was
then refused or lost. Both end when the file is read with no save left to be answered.

Left out: git, browsing, images, a folder being trashed, a second workspace on the same folders.

## Runs

| Run | Question | Instance | Result |
|---|---|---|---|
| `control` | Is control exclusive, never lost, owed only to who is away, and does it move as promised to parties? | one local window, two phones, one with a relay and a direct link: every way of sharing a device and not | holds, 2.6 million states |
| `chat_follow` | Is a viewport exactly where its forwarder says, and level in the end? | page and receiver of 1, queue of 2, 3 events, 2 runs, one break or departure, one earlier page | holds |
| `chat_follow_log` | Is what it shows always a contiguous piece that never goes back? | page of 2, two breaks, no earlier page | holds |
| `secure_link` | Order, at most once, no nonce twice, clients kept apart? | two requests, three answers, three messages each way, queue of 3 | holds, 1.3 million states |
| `exec_turns` | Is the queue sound, does a stop hold it, does the session settle with nothing left running? | three messages, one stop | holds, 1.5 million states |
| `exec_queue` | Does a queued message leave the queue? | three messages, no stop, the promptest watcher | violated |
| `stream_turns` | Is every request answerable, once, and does what is queued always have something to send it? | three messages, one stop, one request, one frame on stdout, any timing | holds, 967 thousand states |
| `routed` | Is no socket left behind, something always under way, the app told the truth, the best route reached? | two direct routes and the relay, no other bound | holds, 294 thousand states |
| `routed_attached` | Has the app asked for its streams on the connection in use? | the same | violated |
| `relay_room` | One socket a side, each told right, newcomers greeted as such? | two sockets a side, two requests each, with symmetry | holds, 405 thousand states |
| `computers` | One in use, keychain as shown, none lost, none back, whatever crosses? | two computers, two relays, with symmetry; two operations under way, either write may fail | holds, 2.0 million states |
| `phone_files` | Does the screen end as the disk, does nothing pass for saved? | a root with one folder, one file, a draft, one change by others, of a folder or of the file, one break, two messages under way when a person acts | holds, 4.0 million states |

### Bounds, and why they are enough

- Control has no bound: its state is finite. Three parties are needed for a driver, a stand-in and a
  third who is owed; two links of one device for a change of route.
- ChatFollow: with one slot in the receiver and one event per page, the second event already
  overruns, and the third needs a page that does not reach the start. Two runs give a restart or a
  relaunch, and cursors of a run that is gone; a third would repeat the second. `MaxChurn` bounds
  breaks and departures together, `MaxEarlier` the pages asked for.
- SecureLink: three answers to two requests is the least in which a request is answered twice and
  another is on its way; three messages fill the queue around an answer.
- TurnQueue: three messages let one run, one be in the watcher's hands and one wait, and a message be
  taken from the middle; with two the queue never holds back more than one.
- StreamTurns: one request is enough for its life to cross a stop, an answer and the agent's death; a
  second is a copy of the first, and the theorems are for any number. `MaxOutput` makes the agent
  wait for its reader, as a full pipe does.

- RoutedTransport is finite. Two direct routes make "another got there first", "the others failed" and
  "one works, one does not"; the set of routes changes between all subsets.
- RelayRoom: two sockets a side are one that is replaced and the one that replaces it; a second
  request on a socket is one whose first answer no longer counts.
- Computers: with two, forgetting one leaves one to go on with, and forgetting both leaves none. Two
  operations are the least that cross. Three, with one relay, were checked as well (3.3 million states),
  and the theorems are for any number.
- PhoneFiles: the root and a folder are one folder that is always open and one that is opened and
  closed; one break is enough for everything under way to be lost in any state. `MaxChanges` counts all
  changes, of folders and of the file, by others and by what the person trashes. What others write
  (`Edits`) differs from every draft. A draft and what the file held before are two contents for two
  saves that follow one another; two drafts were checked as well (17.7 million states).

`CHECK_DEADLOCK FALSE` is set where the bounds let the system run out of things to do (everything
said, everything delivered, the agent gone, everything read and the link never broken again);
Control and Computers are checked for deadlock.

### Fairness

A task of the daemon that is not waiting for its socket goes on running: tokio polls every ready task
(`WF` on Control's `Continue`, ChatFollow's forwarder, connection and reset tasks, and in ExecTurns
the watcher, the sending tasks and the stops). A message on a connection that stays is delivered and
applied (`WF` on `Receive`). An agent's process ends sooner or later (`WF` on `Exit`). Nothing a
person does, no break, no relaunch and no growth of a log is fair. StreamTurns has no fairness: what is
checked of it are invariants and an action property.
`PromptSpec`, for `exec_queue` alone, further assumes what the watcher can be hoped for at best, that
it looks at a change before anything else happens unless it is in a call of its own: the failure that
`exec_queue` shows is therefore not a matter of scheduling.

In RoutedTransport a timer that is set fires (`WF` on each), the interval that looks for a quiet link
and the one that tries the direct routes again included; a socket that works opens, is answered and
welcomed (`WF` for each link). No close of a silent socket is fair: only the transport's own timers
may notice it, which is the point of `RelayReached`. Nothing the app or the network does before
`Settle`, and no report of routes, is fair.

## Proofs

All theorems are about the component modules with their constants unconstrained but for the named
assumptions: for any sets of viewports and devices, any number of sessions, messages and stops. They
are proved by an inductive invariant `IInv` with the usual three facts, and one lemma or step per
action. Where a queue has to be gone through message by message the argument is by the first message
that goes wrong (`Smallest` in ChatFollowProofs, from the library's `WFMin`), since the library's
induction theorems take a predicate as a parameter, which the provers cannot instantiate.

- **ControlProofs** (`ControlAssumption`: kinds of links are disjoint, every link has a device,
  `None` is neither). `ControllerAttached` and `OwedIsAway` are not inductive alone: a task in the
  middle of `take_control` or `drives` would have to be an attached viewport's (`CallersAttached`),
  and a link that is not attached must owe its device a first word (`StrangersFresh`).
  `ControlImplementsDriving` then maps each action to a step of Driving or a stutter; the change of
  route is the case that needs the siblings' rule.
- **ChatFollowProofs** (`ChatFollowAssumption`: sizes are numbers, `None` is no place). `NothingMissed`
  speaks of what the viewport will be once everything under way has been taken, so the invariant `IInv`
  says what may be under way. `Aimed`: the messages on the wire and in the forwarder's hands lead from
  the cursor to the forwarder's place and never back; each chat message joins on to the cursor or to a
  place an earlier one takes it to; each is what the log says; and the last one ends at `sent`.
  `Feeding`: the frames in the receiver go on from `sent` one by one to the end of the log, or up to a
  restart, unless the receiver has lagged. `Asked` and `Following`: a cursor that is on its way to the
  connection is no further than the viewport is now, and a forwarder whose agent was started over is
  at an earlier run. Every operation has a lemma on what it does to a queue: `QueuedTail` and
  `StillReaches` take a message, `QueuedMore` adds one, `QueuedPrefix` cuts off the end (a detach),
  `QueuedInsert` puts an earlier page in between the wire and what the forwarder still holds.
  `LevelIsDrained` then folds the queue: `TakenToTip` follows the cursor through it.
  `ReadsAsPromised` maps each message that is taken to a step of FollowedLog: a reset to `StartOver`, the
  page after it to `Fill`, a chat to `Extend` by exactly what lies between (`OthersAre`). Its hypothesis
  is that no earlier page is asked for, whatever `MaxEarlier` is; then every page on its way comes right
  after the reset it belongs to, and finds the chat empty (`Pages`). `ContiguousUnlessAsked` concludes
  that only a page asked for can make a chat overlap, which it does (below).
- **SecureLinkProofs** (`SecureLinkAssumption`: bounds are numbers, `None` is neither a session nor a
  half). The invariant has five parts: what the device sealed (`UpInv`), that every session in use is
  one that was asked for and answered (`NumberInv`), that the queue's order alone decides in which
  session a message will be sealed (`QueueInv`, with `SealedIn`: the last answer before it, or the
  session on now), what the host sealed (`DownInv`), and what either side has taken (`GotInv`).
  `ScopedToSession` follows from the queue part: that is the argument in the comments of `codec.rs`,
  made precise. No assumption on the carrier is used.
- **TurnsProofs** (`TurnQueueAssumption`, `StreamTurnsAssumption`: bounds are numbers). It extends both
  backends, whose names are their own for that reason, and begins with what they share: `QueueInv` (the
  queue is in order of writing, nothing in it is being sent, what is not written is nowhere) is kept by
  the person's steps, the watcher's, and any backend's that only moves calls past "none".
  In ExecTurns `SettledWhenQuiet` needs to know who will settle a session at work: `AtWork`, some call
  is between `Begin` and `Ended`. The turns that run into each other are covered because each of them
  settles the session by itself.
  In StreamTurns neither `AnsweredOnce` nor `AskIsAnswerable` is inductive: what they need is that a
  request is in one place at a time (`AskInv`). On stdout it is not in anyone's hands, and untouched; in
  the reader's or the person's hands it has not been answered; and the two steps that take it from
  there, `Respond` and `Allow`, do so before they write. `QueueStaysWatched` goes through the steps that
  take away something that would send the queue on: a call that ends signals the watcher, a timer that
  fires is followed by its check, and only `Observe` may leave nothing.
- **RoutedTransportProofs** (`LinksAssumption`: the relay is no direct route, `None` is neither). The
  invariants are proved together: `NoOrphan` and `DirectIsAlone` need to know which timers belong to
  which links, and `NeverIdle` that a lost link leaves either a relay link or a head start. Each method
  has a lemma on the record it returns, so an action's step is the methods it composes.
- **RelayRoomProofs** (`RoomAssumption`). `OnePerSide` rests on `Evict` taking the seat before `Seat`
  gives it; a socket in a seat is open at the room, and one that is new is in none. `ToldRight` and
  `GreetedAsOne` say what holds once everything has been read, so the invariant (`Sound`, `Fresh`,
  `Upward`) says what is on its way at any other moment. A seated phone that will have read all it was
  told is engaged exactly if a daemon is seated (`Aware`). Unless it has yet to read that it is alone,
  the session the daemon will end on, after what the room holds for it and what the phone has sent, is
  the phone's, and the answer the phone waits for is in one of the four queues or will be given
  (`Paired`). A daemon left alone ends on none (`LoneHost`). `HeardMore` and `HeardFirst` say what adding
  to a queue and taking from it do to all of these, and `InTurn` what passing a frame on does.
- **ComputersProofs** (`ComputersAssumption`: `None` is neither a computer nor a pairing). The properties
  speak of what operations leave behind, so the invariants say what each one under way will do. Requests
  are answered in turn, so which operation writes last can be told from how far each has come
  (`Before`: further first, and of two as far the one in front). `Formed`: no list has two entries for
  one computer, which every step on a list has to keep, and before the start's reads are answered
  nothing is shown and nothing else is under way. `Linked`: the pairing in use is dialed last, or
  already. `Alone`: unless two that dial different computers crossed, all that are to dial are for one
  computer. `Stored`: the last to write leaves what will be shown. `Retained`: a computer that is kept is
  in the keychain, in the store, and in every list that is still to be written. `Forgotten`: wherever one
  asked to be forgotten is still listed, an operation without it writes later. Nothing is assumed of
  `MaxTasks`. `NoneLost` assumes that the keychain can be read; the others allow any request to fail.
- **PhoneFilesProofs** (`FilesAssumption`: finitely many folders, the root none of them). Both invariants
  speak of moments at which nothing is under way, so the inductive one says what is under way at any
  other. `TreeInv`: an open folder without a listing is asked for, or its listing is on its way; one
  that was open when the link came up is watched, or asked for; and of one that is watched, the change
  is still to be told, or the last listing on its way shows the disk, or what is held does. `FileInv`:
  the last message to tell of the file tells what it was when it was read or written for the phone
  (`FileTold`); as long as no save was given up too early, at most one is under way, of the content the
  phone takes it for (`OneSave`); and what is shown, or will be once an answer is taken for that of the
  save under way, the file has held or a write of it is still on its way (`AllAreSafe`). Nothing is
  assumed of when a save is given up.

Every safety property that a run checks is a theorem, `HeldStaysHeld` and `QueueIsWatched` (which
speak of steps) and the two refinements included. Checked by TLC only: `EventuallyLevel`,
`RelayReached` and `MovesUp` (liveness under fairness is out of the prover's reach), and that the violated
properties are violated. The theorem about `ImplementsFollowedLog` has the hypothesis of its run, that no
earlier page is asked for.

## What the code does not keep

Two runs end in a violation, of something the repository says of the program, quoted in
`PROJECT.json` with the code line.

1. `exec_queue`, `service.rs:2327`. The watcher awaits `send_turn`, which in these sessions lasts the
   whole turn, and finds the status as it left it: the next queued message stays.
2. `routed_attached`, `web-socket-transport.ts:117`. `connect` does not clear the timer that dials
   again. The relay drops; the app comes to the foreground and `recheck` dials at once; the link is
   welcomed and in use; the old timer fires and replaces its socket. The daemon greets a new client,
   starts it from nothing, and the app, for which the link never closed, asks for nothing.

What else TLC finds, with no run kept for it. The property is in the module; adding it to the cfg of
the module's run, or changing the constant named, shows the behaviour.

- `OwedUntilSomeoneActs` (Control), `service.rs:505`. Phone A drops off while driving and is owed
  control. Phone B, standing in, drops off too, and what is owed is overwritten: A does not get control
  back, although nobody else drove.
- `BannersFollowThePerson` (Control), `service.rs:572`. Two calls compute `on_device` and store it in
  the other order. The stale value stays until control changes again.
- `HeldIsContiguous` (ChatFollow), `chat_log.rs:111`. The page is counted from the log's end when the
  request is handled, by how much the viewport held when it asked: with events in between it overlaps.
- `NeverLeftEmpty` (ChatFollow), `client-store.ts:291`. A reset empties the chat and moves its cursor to
  the log's end; the page that fills it is a message of its own. If the link breaks or the pane closes in
  between, the viewport comes back with a cursor at the end and is sent nothing: the chat stays empty
  until something new is said, and then shows that alone.
- `OnlyStopKills` (ExecTurns), `exec_chat.rs:151`. A message sent during a turn replaces `child`, and
  dropping the first process kills it.
- `NeverStuckWorking` (StreamTurns), `stream_json.rs:238`. The agent has died and the reader has ended.
  A message is written to nobody, unnoticed, and the session says "thinking" with nothing left to
  settle it. The same line overwrites an "idle" that the reader stored during the write.
- `NeverLeft` (StreamTurns), `service.rs:2256`. A message is queued while a turn runs that starts and
  ends between two looks of the watcher, as when it is in a call or slower than the agent. It finds the
  session as idle as it left it, arms no timer, and the message stays until something else happens.
  `daemon/README.md` and the comment of `queue_turn` promise that it goes once the turn ends.
- `AlwaysReached` (RoutedTransport), `routed-transport.ts:71`. A relay link that is open, waiting for the
  daemon, or being dialed, falls silent while it is not in use. No timer looks at it and `dialRelay` is
  not done again while it is there, so the relay is not reached until the app rechecks or connects.
- `RefusalStands` (RoutedTransport), `routed-transport.ts:457`. The daemon answers that one side must
  update; the stall timer still runs and shows the computer as not reachable.
- `NeverMixed` (Computers), `computers.ts:130`. Two operations that dial different computers cross (one
  computer is picked while another is being added): the link is dialed for one while the store is on the
  other, and what it says is shown as the other's. `computers.ts:45` says that one is in use at a time.
  The link comes right in the end, which is the rest of `OneInUse`; what the stores took meanwhile from
  the other computer is not cleared when it does.
- `KeptAsShown` (Computers), `computers.ts:72`. A name said while another operation is under way is
  written with the list the store had: after the other's, and the app shows one list and keeps another.
  If the other was forgetting the computer, it is back at the next start: the operation started since
  that `StaysForgotten` excuses.
- What `NothingLost` does not promise (Computers): a computer being added, while an operation that was
  started before is under way. Naming, changing the relay or moving to another computer each write the
  list they began with, and if that is written last the new computer is gone from the keychain.
- `ShowsWhatIsOnDisk` (PhoneFiles), `use-file.ts:11`. "What shows is what is on disk": an agent changes
  the file and nothing tells the phone, which shows the old content until the screen is opened again or
  the link comes back. A save then overwrites what the agent wrote.
- `NeverPassesForSaved` (PhoneFiles), `workspace.state.ts:98`. "Silence means the link dropped"
  (`use-editor.ts:46`), but the timer runs for a write that waits for a link as well, and for an answer
  that is late. A save is given up and tried again with another draft; the first one's answer then marks
  the second saved, since `file-saved` says which file and not which save. If the second is refused or
  lost, the phone shows as the file's content what the file never held, until it is read again. And an
  answer that comes when no save is under way is passed over: the file is changed and the screen is not.
- PhoneFiles, `use-tree.ts:34`: a folder that is closed, or a tree that is not on screen, while the link
  comes back is never listed again when it is opened, since its listing is still held; the daemon no
  longer tells of it. `ScreensAreCurrent` therefore speaks of folders open when the link came up or
  listed since. `use-tree.ts:16-17` says that every open folder is listed afresh when it does.
- `NothingLost` (Computers) with `"readList"` among the `Fallible`, `keychain.ts:43`. A keychain that
  cannot be read at the start reads as no computers, and the next one added is written over the list.
- Not in a model: `confirmSend`
  (`link.helpers.ts:63`) takes the answer to an earlier check for the answer to its own.

## Plan

Order of what is left, the most important first.

1. StreamTurns' interrupted marker with the transcript of a turn, and what a viewport that attaches
   during a request is shown.
2. What a chat shows once earlier pages are asked for: a weaker promise than FollowedLog's that it
   keeps (each page is a piece of one run, the newest ones on top of each other), as a theorem.
3. The daemon's backoff and pause on the relay (`relay.rs`).
4. Revocation and pairing: `control_owed` and links of a device that is gone, with Control.
5. `send_control` and the other notices as state of the viewports in Control; overlapping forwarders
   in ChatFollow.
6. Small modules: notifications' generations, keep-awake, the instance lock; saving of spaces.

## Not modelled, and why

Parsing of providers' output, the screen emulator and the terminal decoder: byte-level functions of
unbounded input without shared state. Readers of files, git and directories: their answers are those
of the file system. Rendering in `packages/gui`, `packages/ui` and `apps`; formatting in `cli`;
updates, power and sound; generated protocol types. `PROJECT.json` lists each with its reason.
