------------------------------ MODULE Control ------------------------------
(***************************************************************************)
(* Who drives the terminals (crates/daemon/src/workspaces/service.rs).     *)
(*                                                                         *)
(* Every viewport has a connection task of its own, and the tasks run in   *)
(* parallel.  A call into the hub is cut here where it lets go of its      *)
(* locks: between two such pieces any other task may run.  pc says which   *)
(* piece of which call a task is at, and "idle" that it waits for its      *)
(* socket.                                                                 *)
(*                                                                         *)
(* A viewport is the computer's own (LocalViews), a paired device's        *)
(* standing link through the relay (RelayLinks) or a socket a device       *)
(* opened straight to the computer (DirectLinks).  A device may have       *)
(* several links at once.                                                  *)
(***************************************************************************)
EXTENDS FiniteSets

CONSTANTS LocalViews, RelayLinks, DirectLinks,
          Devices,      \* the paired devices
          DeviceOf,     \* the device a link belongs to
          None          \* no viewport, no device

DeviceLinks == RelayLinks \cup DirectLinks
Viewers == LocalViews \cup DeviceLinks

ASSUME ControlAssumption ==
    /\ LocalViews \cap DeviceLinks = {}
    /\ RelayLinks \cap DirectLinks = {}
    /\ LocalViews \cap Devices = {}
    /\ DeviceOf \in [DeviceLinks -> Devices]
    /\ None \notin Viewers \cup Devices

VARIABLES
    viewers,      \* the attached viewports
    before,       \* <<u, v>>: u joined before v (the order of the list `viewers`)
    controller,   \* the viewport in control
    owed,         \* control_owed: the device that is to have it back
    onDevice,     \* presence.on_device: banners go to the device, the computer stays quiet
    fresh,        \* fresh_session: the device has yet to speak in this link's session
    pc,           \* where each connection's task is
    then,         \* what a task does once its control_changed is done
    seen          \* the on_device a control_changed computed and has not stored yet

vars == <<viewers, before, controller, owed, onDevice, fresh, pc, then, seen>>

Steps == {"idle", "read", "store", "follow", "forgive", "settle"}

\* A slip: the viewport is noted where its device should be.
ViewerForDevice(v) == v

\* The device a viewport is a link of, None for one of the computer's own.
Device(v) == IF v \in DeviceLinks THEN DeviceOf[v] ELSE None

TypeOK ==
    /\ viewers \subseteq Viewers
    /\ before \subseteq viewers \X viewers
    /\ controller \in Viewers \cup {None}
    /\ owed \in Devices \cup {None}
    /\ onDevice \in BOOLEAN
    /\ fresh \in [Viewers -> BOOLEAN]
    /\ pc \in [Viewers -> Steps]
    /\ then \in [Viewers -> {"idle", "follow"}]
    /\ seen \in [Viewers -> BOOLEAN]

-----------------------------------------------------------------------------
Init ==
    /\ viewers = {}
    /\ before = {}
    /\ controller = None
    /\ owed = None
    /\ onDevice = FALSE
    /\ fresh = [v \in Viewers |-> TRUE]
    /\ pc = [v \in Viewers |-> "idle"]
    /\ then = [v \in Viewers |-> "idle"]
    /\ seen = [v \in Viewers |-> FALSE]

Earliest(S) == {u \in S : \A w \in S \ {u} : <<u, w>> \in before}
Latest(S) == {u \in S : \A w \in S \ {u} : <<w, u>> \in before}

\* A slip: control leaves a device that only changed route.
NoSiblings(v) == {}

\* The other attached links of v's device.
Siblings(v) == {u \in viewers \ {v} : v \in DeviceLinks /\ Device(u) = Device(v)}

Goto(v, step) == pc' = [pc EXCEPT ![v] = step]

\* add_viewer, then the first half of its control_changed.
Register(v, next) ==
    /\ pc[v] = "idle"
    /\ v \notin viewers
    /\ viewers' = viewers \cup {v}
    /\ before' = before \cup (viewers \X {v})
    /\ controller' = IF controller = None THEN v ELSE controller
    /\ Goto(v, "read")
    /\ then' = [then EXCEPT ![v] = next]
    /\ UNCHANGED <<owed, onDevice, fresh, seen>>

\* A local socket is accepted, or the relay says a device is in the link's room.
Arrive(v) == v \in LocalViews \cup RelayLinks /\ Register(v, "idle")

\* A frame opened with the device's key: proof that a link not registered yet has its device.
\* The same handler goes on to follow_device.
Prove(v) == v \in DeviceLinks /\ Register(v, "follow")

\* A slip: what a device was given back is owed to it still.
StillOwed(device) == owed

\* What is owed once `device` has been given what it was owed.
OwedAfter(device) == IF owed = device THEN None ELSE owed

\* follow_device: control moves to a device's new link, or back to a device that is owed it.
FollowDevice(v) ==
    LET mine == Device(v)
        siblingHolds == /\ controller \in viewers \ {v}
                        /\ Device(controller) = mine
        isOwed == owed = mine
        moves == (siblingHolds \/ isOwed) /\ controller # v
    IN  /\ owed' = OwedAfter(mine)
        /\ controller' = IF moves THEN v ELSE controller
        /\ Goto(v, IF moves THEN "read" ELSE "idle")
        /\ fresh' = [fresh EXCEPT ![v] = FALSE]
        /\ UNCHANGED <<viewers, before, onDevice, then, seen>>

\* The first frame of a session on a link that is registered already ...
Speak(v) == pc[v] = "idle" /\ v \in viewers \cap DeviceLinks /\ fresh[v] /\ FollowDevice(v)

\* ... and the frame that registered its link.
Follow(v) == pc[v] = "follow" /\ FollowDevice(v)

\* The device starts another session on a link it is on.
Reopen(v) ==
    /\ pc[v] = "idle"
    /\ v \in viewers \cap DeviceLinks
    /\ fresh' = [fresh EXCEPT ![v] = TRUE]
    /\ UNCHANGED <<viewers, before, controller, owed, onDevice, pc, then, seen>>

\* A slip: the stand-in is looked up before the one that goes is off the list.
StandInOfAll(rest) == Earliest(viewers)

\* Who stands in for a controller that went: whoever has been attached longest.
StandIn(rest) == Earliest(rest)

\* unregister_viewer: the device left the relay room, or the socket ended.  A link that left is
\* spoken on again only in a session started since.
Unregister(v) ==
    LET rest == viewers \ {v}
        siblings == Siblings(v)
    IN  /\ pc[v] = "idle"
        /\ v \in viewers
        /\ viewers' = rest
        /\ before' = before \cap (rest \X rest)
        /\ \/ /\ controller # v
              /\ UNCHANGED <<controller, owed>>
           \/ /\ controller = v
              /\ siblings # {}
              /\ controller' \in Latest(siblings)
              /\ UNCHANGED owed
           \/ /\ controller = v
              /\ siblings = {}
              /\ IF rest = {} THEN controller' = None ELSE controller' \in StandIn(rest)
              /\ owed' = IF v \in DeviceLinks THEN Device(v) ELSE owed
        /\ fresh' = [fresh EXCEPT ![v] = TRUE]
        /\ Goto(v, "read")
        /\ UNCHANGED <<onDevice, then, seen>>

\* A client is served once it has spoken; a local one from its first message.
Served(v) == pc[v] = "idle" /\ v \in viewers /\ (v \in DeviceLinks => ~fresh[v])

\* name_device: a device said what it is called, and whoever is shown it driving is told.
Name(v) ==
    /\ Served(v)
    /\ v \in DeviceLinks
    /\ Goto(v, "read")
    /\ UNCHANGED <<viewers, before, controller, owed, onDevice, fresh, then, seen>>

\* take_control, up to the end of its first lock ...
TakeControl(v) ==
    /\ Served(v)
    /\ controller' = v
    /\ Goto(v, "forgive")
    /\ UNCHANGED <<viewers, before, owed, onDevice, fresh, then, seen>>

\* ... and its second.
Forgive(v) ==
    /\ pc[v] = "forgive"
    /\ owed' = None
    /\ Goto(v, "read")
    /\ UNCHANGED <<viewers, before, controller, onDevice, fresh, then, seen>>

\* drives, asked by a viewport as it types, sends a message or answers: the check ...
Act(v) ==
    /\ Served(v)
    /\ controller = v
    /\ Goto(v, "settle")
    /\ UNCHANGED <<viewers, before, controller, owed, onDevice, fresh, then, seen>>

\* ... and what acting settles.
SettleOwed(v) ==
    /\ pc[v] = "settle"
    /\ owed' = None
    /\ Goto(v, IF owed # None THEN "read" ELSE "idle")
    /\ UNCHANGED <<viewers, before, controller, onDevice, fresh, then, seen>>

\* Where the person is, as who drives and who is owed says.
PersonOnDevice ==
    \/ \E u \in viewers : u = controller /\ u \in DeviceLinks
    \/ owed # None

\* control_changed reads it under the locks ...
ReadPresence(v) ==
    /\ pc[v] = "read"
    /\ seen' = [seen EXCEPT ![v] = PersonOnDevice]
    /\ Goto(v, "store")
    /\ UNCHANGED <<viewers, before, controller, owed, onDevice, fresh, then>>

\* ... and stores it after letting go of them.
StorePresence(v) ==
    /\ pc[v] = "store"
    /\ onDevice' = seen[v]
    /\ Goto(v, then[v])
    /\ then' = [then EXCEPT ![v] = "idle"]
    /\ seen' = [seen EXCEPT ![v] = FALSE]
    /\ UNCHANGED <<viewers, before, controller, owed, fresh>>

\* What a task goes on to do by itself, once its client has asked for something.
Continue(v) ==
    Follow(v) \/ Forgive(v) \/ SettleOwed(v) \/ ReadPresence(v) \/ StorePresence(v)

Next ==
    \E v \in Viewers :
        \/ Arrive(v) \/ Prove(v) \/ Speak(v) \/ Reopen(v) \/ Unregister(v)
        \/ Name(v) \/ TakeControl(v) \/ Act(v)
        \/ Continue(v)

Spec == Init /\ [][Next]_vars

\* The runtime goes on running a task that is not waiting for its socket.
FairSpec == Spec /\ \A v \in Viewers : WF_vars(Continue(v))

-----------------------------------------------------------------------------
\* Control is exclusive, and never lost while anyone is there to have it: the controller is an
\* attached viewport, whatever order viewports come, go and claim in, and there is one as long as
\* any viewport is attached (add_viewer, unregister_viewer, take_control).
ControllerAttached ==
    /\ controller = None <=> viewers = {}
    /\ controller # None => controller \in viewers

\* A device is owed control only while it is away: none of its links has spoken since it dropped
\* off.  A device that is back and talking has been given what it was owed (follow_device).
OwedIsAway ==
    \A v \in viewers \cap DeviceLinks : Device(v) = owed => fresh[v]

\* The parties the viewports belong to, and the promise made to them.
Party(v) == IF v \in DeviceLinks THEN DeviceOf[v] ELSE v

D == INSTANCE Driving WITH
        present <- {Party(v) : v \in viewers},
        driver <- IF controller = None THEN None ELSE Party(controller)

\* Links keep the promise made to parties: a change of route never moves control from one party to
\* another, and nothing but a claim, a departure or a return of the device that is owed does.
ImplementsDriving == D!DSpec

\* What is owed to a device is still owed to it after a viewport that only stood in has gone:
\* "A viewport that was only on screen in between has not claimed anything."  It does not hold (README).
OwedUntilSomeoneActs ==
    [][owed # None => owed' \in {owed, None}]_vars

\* Once no call is under way, banners follow the person: the computer is quiet exactly when a
\* device drives or is owed control back (control_changed).  It does not hold (README).
BannersFollowThePerson ==
    (\A v \in Viewers : pc[v] = "idle") => onDevice = PersonOnDevice
=============================================================================
