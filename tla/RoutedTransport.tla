-------------------------- MODULE RoutedTransport --------------------------
(* A phone's link to one computer: the routed transport, which chooses      *)
(* between the direct routes and the relay, the WebSocket links it makes    *)
(* and what the app is told.  JavaScript runs one handler at a time, so     *)
(* every event (a frame, a closed socket, a timer, a call of the app) is    *)
(* one action that takes the whole cascade of synchronous calls.            *)
(*                                                                          *)
(* The phone's side is one record, and an operator on that record stands    *)
(* for a method; an action composes them in the order the code calls them.  *)
(* Time is abstracted: a timer that is set may fire at any moment, except   *)
(* that once the network is calm a link that works answers in time.         *)
EXTENDS FiniteSets

CONSTANTS
    Routes,     \* every direct address the daemon may ever report
    Relay,      \* the relay link
    None        \* no link in use

ASSUME LinksAssumption == Relay \notin Routes /\ None \notin Routes \cup {Relay}

Links == Routes \cup {Relay}

\* Why a socket closed, as far as the phone tells the codes apart.
Codes == {"dropped", "noHost", "replaced"}

\* A link's phases: no such link; socket opening; socket open with nobody
\* behind the relay; asking for a session; hello sent; answered by the daemon;
\* turned away by it as incompatible; socket closed.
Phases == {"none", "dialing", "open", "asking", "hello", "welcomed", "refused", "down"}
Live == Phases \ {"none", "down"}

VARIABLES
    rt,         \* the phone's side, a record (see Phone)
    calm,       \* the network and the user have stopped interfering
    good,       \* the links a socket dialed now would work on
    turned      \* history: the relay said replaced, or the daemon refused, since connect

world == <<calm, good>>
vars == <<rt, calm, good, turned>>

\* headStart: the relay is about to be dialed; verify: the link in use was asked
\* to answer; stall: the app is about to be told that no route answers; retry:
\* the relay link is about to dial again.
Timers == {"headStart", "verify", "stall", "retry"}

Statuses == {"connecting", "online", "offline", "replaced", "update"}

Fields == {"routes", "active", "relay", "probes", "timers", "life", "phase",
           "mute", "attached", "status"}

Phone(s) ==
    /\ DOMAIN s = Fields
    /\ s.routes \subseteq Routes            \* the direct routes last reported
    /\ s.active \in Links \cup {None}       \* the link in use
    /\ s.relay \in {Relay, None}            \* the relay link, in use or not
    /\ s.probes \subseteq Routes            \* attempts at direct routes under way
    /\ s.timers \subseteq Timers            \* the timers that are set
    /\ s.life \in {"open", "closed"}
    /\ s.phase \in [Links -> Phases]        \* each link's socket
    /\ s.mute \subseteq Links               \* sockets nothing comes out of any more
    /\ s.attached \subseteq Links           \* daemon connections the app has asked for its streams
    /\ s.status \in Statuses                \* where the app says the link stands

TypeOK ==
    /\ Phone(rt)
    /\ calm \in BOOLEAN
    /\ good \subseteq Links
    /\ turned \in BOOLEAN

-----------------------------------------------------------------------------
(* The links: WebSocketTransport with the relay's and the direct routes'    *)
(* sockets.                                                                 *)

SetPhase(s, ls, p) == [s EXCEPT !.phase = [l \in Links |-> IF l \in ls THEN p ELSE @[l]]]

\* WebSocketTransport.connect: an earlier socket is dropped without a word, and
\* the timer to dial again, if one is set, stays.
Dial(s, ls) ==
    SetPhase([s EXCEPT !.mute = (@ \ ls) \cup (ls \ good)], ls, "dialing")

\* WebSocketTransport.close.
CloseLinks(s, ls) ==
    SetPhase([s EXCEPT !.timers = IF Relay \in ls THEN @ \ {"retry"} ELSE @,
                       !.mute = @ \ ls,
                       !.attached = @ \ ls], ls, "none")

-----------------------------------------------------------------------------
(* RoutedTransport's methods, and what LinkService shows of them.           *)

\* getStatusAfterClose.
StatusAfterClose(status, code) ==
    CASE code = "noHost" -> "offline"
      [] code = "replaced" -> "replaced"
      [] OTHER -> IF status = "offline" THEN "offline" ELSE "connecting"

EmitClose(s, code) == [s EXCEPT !.status = StatusAfterClose(@, code)]

EmitAbsent(s) == [s EXCEPT !.status = "offline"]

ArmStall(s) ==
    IF s.active = None /\ s.life = "open" THEN [s EXCEPT !.timers = @ \cup {"stall"}] ELSE s

DialRelay(s) ==
    IF s.relay = Relay \/ s.life = "closed" THEN s
    ELSE Dial([s EXCEPT !.relay = Relay], {Relay})

ProbeDirect(s, afresh) ==
    LET under == IF afresh THEN {} ELSE s.probes
        left  == IF afresh THEN CloseLinks(s, s.probes) ELSE s
    IN  IF s.life = "closed" THEN s
        ELSE Dial([left EXCEPT !.probes = under \cup s.routes], s.routes \ under)

\* Every direct route has failed: no reason to keep the relay waiting.
Failed(s, r) ==
    LET left == CloseLinks([s EXCEPT !.probes = @ \ {r}], {r})
    IN  IF r \notin s.probes THEN s
        ELSE IF left.probes = {} /\ "headStart" \in left.timers
             THEN DialRelay([left EXCEPT !.timers = @ \ {"headStart"}])
             ELSE left

\* A slip: keeps which kind of route is in use and not the link.
SeatKind(s, l) ==
    [s EXCEPT !.timers = @ \ {"verify", "stall"}, !.active = "direct",
              !.status = "online", !.attached = @ \cup {l}]

\* The app's open listener asks the daemon again for what it shows.
Seat(s, l) ==
    [s EXCEPT !.timers = @ \ {"verify", "stall"}, !.active = l,
              !.status = "online", !.attached = @ \cup {l}]

\* A slip: does not start the wait for a route.
UnseatUntimed(s) == [s EXCEPT !.timers = @ \ {"verify"}, !.active = None]

Unseat(s) == ArmStall([s EXCEPT !.timers = @ \ {"verify"}, !.active = None])

\* A slip: forgets the relay link without closing it.
ProvenLeaky(s, l) ==
    IF l = Relay THEN IF s.active = None THEN Seat(s, l) ELSE s
    ELSE CloseLinks(
             Seat([s EXCEPT !.probes = {}, !.relay = None, !.timers = @ \ {"headStart"}], l),
             s.probes \ {l})

\* A slip: leaves the head start running.
ProvenHeadStart(s, l) ==
    IF l = Relay THEN IF s.active = None THEN Seat(s, l) ELSE s
    ELSE CloseLinks(Seat([s EXCEPT !.probes = {}, !.relay = None], l),
                    (s.probes \ {l}) \cup {Relay})

\* The daemon answered hello on a link that is not in use.
Proven(s, l) ==
    IF l = Relay
    THEN IF s.active = None THEN Seat(s, l) ELSE s
    ELSE IF l \notin s.probes THEN s
    ELSE IF s.active \in Routes
    THEN CloseLinks([s EXCEPT !.probes = @ \ {l}], {l})
    ELSE CloseLinks(
             Seat([s EXCEPT !.probes = {}, !.relay = None, !.timers = @ \ {"headStart"}], l),
             (s.probes \ {l}) \cup {Relay})

Race(s) ==
    LET tried == ProbeDirect(s, FALSE)
    IN  IF s.routes = {} THEN DialRelay(s)
        ELSE IF "headStart" \in tried.timers \/ tried.relay = Relay THEN tried
        ELSE [tried EXCEPT !.timers = @ \cup {"headStart"}]

\* A slip: only probes, whichever link was lost.
LostNoRace(s, code) ==
    LET told == EmitClose(Unseat(s), code)
    IN  ProbeDirect(CloseLinks(told, {s.active} \cap Routes), FALSE)

\* The link in use dropped: a direct link is one attempt, a relay link dials
\* again on its own.
Lost(s, code) ==
    LET told == EmitClose(Unseat(s), code)
    IN  IF s.active \in Routes
        THEN Race(CloseLinks(told, {s.active}))
        ELSE ProbeDirect(told, FALSE)

Alive(s) == [s EXCEPT !.timers = @ \ {"verify"}]

\* A list of routes that differs from the one held starts the attempts over.
Learn(s, learned) ==
    LET kept == [s EXCEPT !.routes = learned]
    IN  IF learned = s.routes THEN s
        ELSE IF s.active \in Routes THEN kept
        ELSE ProbeDirect(kept, TRUE)

Teardown(s) ==
    [CloseLinks(s, Links) EXCEPT
        !.timers = {}, !.probes = {}, !.active = None, !.relay = None]

-----------------------------------------------------------------------------
(* What the app calls.                                                      *)

Nothing == [
    routes |-> {}, active |-> None, relay |-> None, probes |-> {}, timers |-> {},
    life |-> "closed", phase |-> [l \in Links |-> "none"], mute |-> {},
    attached |-> {}, status |-> "connecting" ]

Init ==
    /\ rt = Nothing
    /\ calm = FALSE
    /\ good = Links
    /\ turned = FALSE

\* LinkService.connect: a new transport, with the routes kept from last time.
Connect(kept) ==
    /\ ~calm
    /\ rt.life = "closed"
    /\ rt' = ArmStall(Race([Teardown(rt) EXCEPT
                !.life = "open", !.routes = kept, !.status = "connecting"]))
    /\ turned' = FALSE
    /\ UNCHANGED world

\* LinkService.disconnect.
Close ==
    /\ ~calm
    /\ rt.life = "open"
    /\ rt' = [Teardown(rt) EXCEPT !.life = "closed"]
    /\ UNCHANGED <<world, turned>>

\* LinkService.recheck: back in the foreground, the network changed, or "retry".
Recheck ==
    LET said   == IF rt.active = None /\ rt.status \in {"offline", "replaced"}
                  THEN [rt EXCEPT !.status = "connecting"] ELSE rt
        asked  == IF rt.active # None THEN [said EXCEPT !.timers = @ \cup {"verify"}]
                  ELSE ArmStall(IF rt.relay = Relay THEN Dial(said, {Relay}) ELSE DialRelay(said))
    IN  /\ ~calm
        /\ rt.life = "open"
        /\ rt' = IF rt.active \in Routes THEN asked ELSE ProbeDirect(asked, TRUE)
        /\ UNCHANGED <<world, turned>>

-----------------------------------------------------------------------------
(* What comes out of a socket.                                              *)

Hears(l) == rt.phase[l] \in Live /\ l \notin rt.mute

\* A direct link may talk to the daemon at once; behind the relay it waits to
\* hear that the daemon is there.
Opened(l) ==
    /\ Hears(l)
    /\ rt.phase[l] = "dialing"
    /\ rt' = SetPhase(rt, {l}, IF l = Relay THEN "open" ELSE "asking")
    /\ UNCHANGED <<world, turned>>

\* The relay reports the daemon in the room, or gone from it.
DaemonPresent ==
    /\ Hears(Relay)
    /\ rt.phase[Relay] = "open"
    /\ rt' = SetPhase(rt, {Relay}, "asking")
    /\ UNCHANGED <<world, turned>>

DaemonAbsent ==
    LET unreached == SetPhase(rt, {Relay}, "open")
        unseated  == IF rt.active = Relay THEN Unseat(unreached) ELSE unreached
    IN  /\ ~calm
        /\ Hears(Relay)
        /\ rt.phase[Relay] # "dialing"
        /\ rt' = IF rt.active \in Routes THEN unreached
                 ELSE ProbeDirect(EmitAbsent(unseated), FALSE)
        /\ UNCHANGED <<world, turned>>

\* The daemon accepted the session: hello goes out, and the daemon starts this
\* client from nothing.
Accepted(l) ==
    /\ Hears(l)
    /\ rt.phase[l] = "asking"
    /\ rt' = [SetPhase(rt, {l}, "hello") EXCEPT !.attached = @ \ {l}]
    /\ UNCHANGED <<world, turned>>

Welcome(l) ==
    LET answered == SetPhase(rt, {l}, "welcomed")
    IN  /\ Hears(l)
        /\ rt.phase[l] = "hello"
        /\ rt' = IF rt.active = l THEN Alive(answered) ELSE Proven(answered, l)
        /\ UNCHANGED <<world, turned>>

\* One of the two sides is too old for the other.
Incompatible(l) ==
    LET answered == SetPhase(rt, {l}, "refused")
        heard    == IF rt.active = l THEN Alive(answered) ELSE answered
    IN  /\ ~calm
        /\ Hears(l)
        /\ rt.phase[l] = "hello"
        /\ rt' = [heard EXCEPT !.status = "update"]
        /\ turned' = TRUE
        /\ UNCHANGED world

\* Anything else the daemon says on the link in use.
Heard(l) ==
    /\ Hears(l)
    /\ rt.phase[l] = "welcomed"
    /\ rt.active = l
    /\ rt' = Alive(rt)
    /\ UNCHANGED <<world, turned>>

ReportsRoutes(l, learned) ==
    /\ ~calm
    /\ Hears(l)
    /\ rt.phase[l] = "welcomed"
    /\ rt.active = l
    /\ rt' = Learn(Alive(rt), learned)
    /\ UNCHANGED <<world, turned>>

MayDrop(l) == rt.phase[l] \in Live /\ (calm => l \in rt.mute)

DirectClosed(r) ==
    /\ MayDrop(r)
    /\ rt' = IF rt.active = r THEN Lost(rt, "dropped") ELSE Failed(rt, r)
    /\ UNCHANGED <<world, turned>>

\* The app is told first; then the link sets its timer to dial again, unless
\* another socket took its place in the room.
RelayClosed(code) ==
    LET down == SetPhase(rt, {Relay}, "down")
        told == IF rt.active = Relay THEN Lost(down, code)
                ELSE IF rt.active = None THEN EmitClose(down, code)
                ELSE down
    IN  /\ MayDrop(Relay)
        /\ calm => code # "replaced"
        /\ rt' = IF code = "replaced" THEN told
                 ELSE [told EXCEPT !.timers = @ \cup {"retry"}]
        /\ turned' = (turned \/ code = "replaced")
        /\ UNCHANGED world

-----------------------------------------------------------------------------
(* Timers.                                                                  *)

RetryFires ==
    /\ "retry" \in rt.timers
    /\ rt' = Dial([rt EXCEPT !.timers = @ \ {"retry"}], {Relay})
    /\ UNCHANGED <<world, turned>>

HeadStartFires ==
    /\ "headStart" \in rt.timers
    /\ rt' = DialRelay([rt EXCEPT !.timers = @ \ {"headStart"}])
    /\ UNCHANGED <<world, turned>>

ProbeTimesOut(r) ==
    /\ r \in rt.probes
    /\ calm => r \in rt.mute \/ rt.phase[r] = "refused"
    /\ rt' = Failed(rt, r)
    /\ UNCHANGED <<world, turned>>

\* A slip: tries again only while there is no link at all.
ReprobeDown ==
    /\ rt.life = "open"
    /\ rt.active = None
    /\ rt' = ProbeDirect(rt, FALSE)
    /\ UNCHANGED <<world, turned>>

Reprobe ==
    /\ rt.life = "open"
    /\ rt.active \notin Routes
    /\ rt' = ProbeDirect(rt, FALSE)
    /\ UNCHANGED <<world, turned>>

\* A slip: trusts the relay to say when the daemon is gone.
CheckQuietDirect ==
    /\ rt.active \in Routes
    /\ "verify" \notin rt.timers
    /\ rt' = [rt EXCEPT !.timers = @ \cup {"verify"}]
    /\ UNCHANGED <<world, turned>>

\* The link in use has been quiet: seen by the look every few seconds, or when
\* the app is about to send.
CheckQuiet ==
    /\ rt.active # None
    /\ "verify" \notin rt.timers
    /\ rt' = [rt EXCEPT !.timers = @ \cup {"verify"}]
    /\ UNCHANGED <<world, turned>>

VerifyTimesOut ==
    LET given == [rt EXCEPT !.timers = @ \ {"verify"}]
    IN  /\ "verify" \in rt.timers
        /\ calm => rt.active \in rt.mute \/ rt.phase[rt.active] # "welcomed"
        /\ rt' = IF rt.active = Relay
                 THEN ProbeDirect(Dial(EmitClose(Unseat(given), "dropped"), {Relay}), FALSE)
                 ELSE Lost(given, "dropped")
        /\ UNCHANGED <<world, turned>>

StallFires ==
    /\ "stall" \in rt.timers
    /\ rt' = IF rt.active = None THEN EmitAbsent([rt EXCEPT !.timers = @ \ {"stall"}])
             ELSE [rt EXCEPT !.timers = @ \ {"stall"}]
    /\ UNCHANGED <<world, turned>>

\* From here on nobody interferes: the links in good work when dialed, the
\* sockets in the chosen set have gone silent, and nothing else is lost.
Settle ==
    LET live == {l \in Links : rt.phase[l] \in Live}
    IN  /\ ~calm
        /\ calm' = TRUE
        /\ good' \in SUBSET Links
        /\ \E silent \in SUBSET (live \cap good') :
              rt' = [rt EXCEPT !.mute = (live \ good') \cup silent]
        /\ UNCHANGED turned

-----------------------------------------------------------------------------
Event ==
    \/ \E kept \in SUBSET Routes : Connect(kept)
    \/ Close \/ Recheck
    \/ DaemonPresent \/ DaemonAbsent
    \/ \E l \in Links :
          \/ Opened(l) \/ Accepted(l) \/ Welcome(l) \/ Incompatible(l) \/ Heard(l)
          \/ \E learned \in SUBSET Routes : ReportsRoutes(l, learned)
    \/ \E r \in Routes : DirectClosed(r) \/ ProbeTimesOut(r)
    \/ \E code \in Codes : RelayClosed(code)
    \/ RetryFires \/ HeadStartFires \/ Reprobe \/ CheckQuiet
    \/ VerifyTimesOut \/ StallFires

Next == Event \/ Settle

Spec == Init /\ [][Next]_vars

\* What must happen in the end: set timers fire, and a socket that works delivers
\* what the other end says.  Nobody is trusted to close a socket with nothing at
\* the other end: that it is silent only the transport's own timers notice.
Fairness ==
    /\ WF_vars(RetryFires) /\ WF_vars(HeadStartFires) /\ WF_vars(Reprobe)
    /\ WF_vars(CheckQuiet) /\ WF_vars(VerifyTimesOut)
    /\ WF_vars(DaemonPresent)
    /\ \A l \in Links : WF_vars(Opened(l)) /\ WF_vars(Accepted(l)) /\ WF_vars(Welcome(l))
    /\ \A r \in Routes : WF_vars(ProbeTimesOut(r))

FairSpec == Spec /\ Fairness

-----------------------------------------------------------------------------
(* Safety.                                                                  *)

\* Every link there is, is accounted for: a direct one is in use or an attempt
\* under way, never forgotten with its socket open (two sockets of one phone
\* would take the room from each other); and one the daemon has answered on is
\* the one in use, so nothing the daemon says is dropped.
NoOrphan ==
    /\ \A r \in Routes : rt.phase[r] # "none" <=> r \in rt.probes \/ rt.active = r
    /\ rt.phase[Relay] # "none" <=> rt.relay = Relay
    /\ \A l \in Links : rt.phase[l] = "welcomed" => rt.active = l

\* While a direct link is in use nothing else is kept going: no relay link, no
\* other attempt, and no head start about to dial the relay.
DirectIsAlone ==
    rt.active \in Routes =>
        /\ rt.relay = None /\ rt.probes = {} /\ "headStart" \notin rt.timers
        /\ rt.phase[rt.active] = "welcomed"

\* With no link in use there is always a way forward that needs nobody: the
\* relay link lives, or will dial again, or is about to be made.  The exception
\* is a room that another socket took over.
NeverIdle ==
    rt.life = "open" /\ rt.active = None =>
        \/ "headStart" \in rt.timers
        \/ /\ rt.relay = Relay
           /\ rt.phase[Relay] \in Live \/ "retry" \in rt.timers \/ turned

\* The app is never left saying "connecting" for good: while no route is in use
\* the wait that ends in "offline" is running.  And it says online exactly while
\* a link is in use, short of having to update.
ConnectingEnds ==
    rt.life = "open" =>
        /\ rt.active = None /\ rt.status = "connecting" => "stall" \in rt.timers \/ turned
        /\ rt.status = "online" => rt.active # None
        /\ rt.active # None => rt.status \in {"online", "update"}

-----------------------------------------------------------------------------
(* Liveness.                                                                *)

Open == calm /\ rt.life = "open" /\ ~turned

\* The daemon answers on the link in use, and can be heard on it.
InTouch == rt.active # None /\ rt.active \notin rt.mute /\ rt.phase[rt.active] = "welcomed"

\* Nothing but its own socket watches over a relay link that is not in use.
Unwatched == Relay \in rt.mute /\ rt.active # Relay

\* Once the network is calm, a relay that can be used is enough for the app to
\* be in touch with its computer and stay so, whatever silent sockets the phone
\* was left with, the link in use and every attempt at a direct route among
\* them: all but those of an unwatched relay link, and no link becomes one.
RelayReached == Open /\ Relay \in good /\ ~Unwatched ~> []InTouch

\* And a direct route that can be used is moved up to, even from a relay link
\* that works.
MovesUp == Open /\ rt.routes \cap good # {} ~> [](InTouch /\ rt.active \in Routes)

-----------------------------------------------------------------------------
(* What the code says of itself, and does not keep.                         *)

\* Each time the daemon is greeted on a link the app hears that it opened, and
\* asks again for what it shows: a link in use that the daemon has answered on
\* is one the app has asked on.
AppIsAttached ==
    \A l \in Links : rt.active = l /\ rt.phase[l] = "welcomed" => l \in rt.attached

\* The same from an unwatched relay link.  It does not hold (README).
AlwaysReached == Open /\ Relay \in good ~> InTouch

\* A computer that answered that one side has to update is not shown as one
\* that cannot be reached.  It does not hold (README).
RefusalStands == rt.phase[Relay] = "refused" => rt.status # "offline"
=============================================================================
