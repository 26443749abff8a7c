------------------------------ MODULE Computers ------------------------------
(* The computers a phone is paired with, and moving between them.  An       *)
(* operation of the service is a chain of requests to the keychain, which   *)
(* answers them one at a time in the order they were made; what the         *)
(* operation does with an answer, up to its next request, is one step.      *)
(* Operations start whatever others are under way, and each goes on with    *)
(* what it read at its start.  The app may be killed between any two steps. *)
EXTENDS Naturals, SequencesExt

CONSTANTS
    Devices,    \* the computers
    Relays,     \* the relays they can be reached through
    None,
    Fallible,   \* which requests to the keychain may fail
    MaxTasks    \* bound: operations under way at once

ASSUME ComputersAssumption ==
    /\ None \notin Devices
    /\ None \notin [device : Devices, relay : Relays]
    /\ Fallible \subseteq {"readList", "readActive", "saveList", "saveActive"}
    /\ MaxTasks \in Nat \ {0}

VARIABLES
    keychain,   \* what outlives the app: the computers kept, and the one in use
    store,      \* what the app shows of them: the link store
    link,       \* the pairing the link was made with
    shown,      \* whose workspaces the stores hold
    tasks,      \* requests to the keychain, each the rest of an operation
    failed,     \* history: a write failed since the app started
    kept,       \* history: computers found kept, or added, and not asked to be forgotten
    gone,       \* history: computers asked to be forgotten, that nothing was started with since
    crossed     \* history: how operations have crossed since the app started

history == <<failed, kept, gone, crossed>>
vars == <<keychain, store, link, shown, tasks, history>>

Pairing == [device : Devices, relay : Relays]
Computer == [device : Devices, relay : Relays, named : BOOLEAN]
Task == [do : {"readList", "readActive", "dropRoutes", "saveList", "saveActive", "fetch"},
         list : Seq(Computer), active : Devices \cup {None},
         then : {"connectTo", "setPairing", "nothing"}]

Listed(list) == {list[i].device : i \in DOMAIN list}

\* Where a computer is in a list: no list has two entries for one.
Place(list, device) == CHOOSE i \in DOMAIN list : list[i].device = device

Entry(list, device) == list[Place(list, device)]

\* A slip: the computer, for its pairing.
EntryOf(list, device) == Entry(list, device)

PairingOf(list, device) == [device |-> device, relay |-> Entry(list, device).relay]

Current == IF store.current = None THEN None ELSE store.current.device

Unread == [current |-> None, list |-> <<>>, loaded |-> FALSE]

TypeOK ==
    /\ keychain.list \in Seq(Computer)
    /\ keychain.active \in Devices \cup {None}
    /\ store.current \in Pairing \cup {None}
    /\ store.list \in Seq(Computer)
    /\ store.loaded \in BOOLEAN
    /\ link \in Pairing \cup {None}
    /\ shown \subseteq Devices
    /\ tasks \in Seq(Task)
    /\ failed \in BOOLEAN
    /\ kept \subseteq Devices /\ gone \subseteq Devices
    /\ crossed \subseteq {"dials", "name"}

Init ==
    /\ keychain = [list |-> <<>>, active |-> None]
    /\ store = Unread
    /\ link = None
    /\ shown = {}
    /\ tasks = <<[do |-> "readList", list |-> <<>>, active |-> None, then |-> "nothing"]>>
    /\ failed = FALSE /\ kept = {} /\ gone = {} /\ crossed = {}

-----------------------------------------------------------------------------
(* The pure parts. *)

\* The list with one computer's entry brought up to date.
Put(list, computer) ==
    [i \in DOMAIN list |-> IF list[i].device = computer.device THEN computer ELSE list[i]]

Moved(list, device, relay) == Put(list, [Entry(list, device) EXCEPT !.relay = relay])

\* A slip: a code takes the place of every computer but its own.
WithComputerAlone(list, pairing) ==
    <<[device |-> pairing.device, relay |-> pairing.relay, named |-> FALSE]>>

WithComputer(list, pairing) ==
    IF pairing.device \in Listed(list)
    THEN Moved(list, pairing.device, pairing.relay)
    ELSE Append(list, [device |-> pairing.device, relay |-> pairing.relay, named |-> FALSE])

\* A slip: only what is kept apart from the list is forgotten.
WithRoutesOnly(list, device) == list

Without(list, device) ==
    IF device \in Listed(list) THEN RemoveAt(list, Place(list, device)) ELSE list

First(list) == IF list = <<>> THEN None ELSE list[1].device

\* A slip: only the computer named will do.
GetNamedComputer(list, active) == IF active \in Listed(list) THEN active ELSE None

GetActiveComputer(list, active) ==
    IF active \in Listed(list) THEN active ELSE First(list)

-----------------------------------------------------------------------------
(* The service's operations, up to their first request.  The link carries   *)
(* what the computer in use says.                                           *)

Request(do, list, active, then) ==
    [do |-> do, list |-> list, active |-> active, then |-> then]

\* What is left of an operation that has yet to write what it is to write.
Writes(t) == t.do \in {"dropRoutes", "saveList", "saveActive"}

Dials(t) == t.then # "nothing"

\* How an operation that starts crosses one under way: both dial, and not the same computer, or
\* a name is said while the other has yet to show its list.
Crosses(t, u) ==
    {kind \in {"dials", "name"} :
        IF kind = "dials" THEN Dials(t) /\ Dials(u) /\ t.active # u.active
        ELSE Dials(t) /\ ~Dials(u)}

Start(task) ==
    /\ store.loaded
    /\ Len(tasks) < MaxTasks
    /\ tasks' = Append(tasks, task)
    /\ crossed' = crossed \cup
          UNION {Crosses(tasks[i], task) : i \in {j \in DOMAIN tasks : Writes(tasks[j])}}
    /\ UNCHANGED <<keychain, link, failed>>

Knows(list) == gone' = gone \ Listed(list)

Use(device) ==
    /\ device \in Listed(store.list) \ {Current}
    /\ Start(Request("saveList", store.list, device, "connectTo"))
    /\ Knows(store.list)
    /\ UNCHANGED <<store, shown, kept>>

Add(pairing) ==
    LET added == WithComputer(store.list, pairing)
    IN  /\ Start(Request("saveList", added, pairing.device, "connectTo"))
        /\ Knows(added)
        /\ UNCHANGED <<store, shown, kept>>

ForgetCurrent ==
    LET remaining == Without(store.list, Current)
    IN  /\ store.current # None
        /\ Start(Request("dropRoutes", remaining, First(remaining), "connectTo"))
        /\ kept' = kept \ {Current}
        /\ gone' = (gone \ Listed(remaining)) \cup {Current}
        /\ UNCHANGED <<store, shown>>

\* Asked by a person, or by the computer in use saying how it is reached.
SetRelay(relay) ==
    /\ Current \in Listed(store.list)
    /\ PairingOf(store.list, Current).relay # relay
    /\ Start(Request("saveList", Moved(store.list, Current, relay), Current, "setPairing"))
    /\ Knows(store.list)
    /\ UNCHANGED <<store, shown, kept>>

\* followNames: the computer in use says its name, which nothing waits for.
Named ==
    LET named == Put(store.list, [Entry(store.list, Current) EXCEPT !.named = TRUE])
    IN  /\ link # None
        /\ Current \in Listed(store.list)
        /\ ~Entry(store.list, Current).named
        /\ Start(Request("saveList", named, Current, "nothing"))
        /\ Knows(named)
        /\ store' = [store EXCEPT !.list = named]
        /\ shown' = shown \cup {link.device}
        /\ UNCHANGED kept

Streamed ==
    /\ link # None
    /\ shown' = shown \cup {link.device}
    /\ UNCHANGED <<keychain, store, link, tasks, history>>

-----------------------------------------------------------------------------
(* The answers. *)

Answered == tasks' = Tail(tasks)
Then(do, t) == tasks' = Append(Tail(tasks), [t EXCEPT !.do = do])

\* boot, once the list is read, and the one in use if there are any.
Load(list, active) ==
    LET current == GetActiveComputer(list, active)
    IN  /\ store' = [current |-> IF current = None THEN None ELSE PairingOf(list, current),
                     list |-> list, loaded |-> TRUE]
        /\ IF current = None THEN Answered
           ELSE Then("fetch", Request("fetch", list, current, "nothing"))
        /\ UNCHANGED <<keychain, link, shown>>

ReadList(t) ==
    IF keychain.list = <<>> THEN Load(<<>>, None)
    ELSE /\ Then("readActive", [t EXCEPT !.list = keychain.list])
         /\ UNCHANGED <<keychain, store, link, shown>>

ReadActive(t) == Load(t.list, keychain.active)

DropRoutes(t) ==
    /\ Then("saveList", t)
    /\ UNCHANGED <<keychain, store, link, shown>>

SaveList(t) ==
    /\ keychain' = [keychain EXCEPT !.list = t.list]
    /\ Then("saveActive", t)
    /\ UNCHANGED <<store, link, shown>>

\* A slip: the stores keep what they held.
ConnectToKept(t) ==
    /\ link' = None
    /\ shown' = shown
    /\ store' = [current |-> IF t.active = None THEN None ELSE PairingOf(t.list, t.active),
                 list |-> t.list, loaded |-> TRUE]
    /\ IF t.active = None THEN Answered ELSE Then("fetch", t)

\* The old link goes and the stores start over, on the computer now in use or on none.
ConnectTo(t) ==
    /\ link' = None
    /\ shown' = {}
    /\ store' = [current |-> IF t.active = None THEN None ELSE PairingOf(t.list, t.active),
                 list |-> t.list, loaded |-> TRUE]
    /\ IF t.active = None THEN Answered ELSE Then("fetch", t)

SetPairing(t) ==
    /\ store' = [store EXCEPT !.list = t.list, !.current = PairingOf(t.list, t.active)]
    /\ Then("fetch", t)
    /\ UNCHANGED <<link, shown>>

SaveActive(t) ==
    /\ keychain' = [keychain EXCEPT !.active = t.active]
    /\ \/ t.then = "connectTo" /\ ConnectTo(t)
       \/ t.then = "setPairing" /\ SetPairing(t)
       \/ t.then = "nothing" /\ Answered /\ UNCHANGED <<store, link, shown>>

\* LinkService.connect, with the routes kept for the computer: any link there was goes.
Fetch(t) ==
    /\ link' = PairingOf(t.list, t.active)
    /\ Answered
    /\ UNCHANGED <<keychain, store, shown>>

\* An added computer is promised to be kept once the app shows it, unless an operation that
\* was started without it has yet to be over.
Promised(t) ==
    IF /\ t.do = "saveActive" /\ t.then = "connectTo" /\ t.active # None
       /\ \A i \in DOMAIN tasks : Writes(tasks[i]) => t.active \in Listed(tasks[i].list)
    THEN kept \cup {t.active} ELSE kept

Serve ==
    /\ tasks # <<>>
    /\ LET t == Head(tasks)
       IN  /\ \/ t.do = "readList" /\ ReadList(t)
              \/ t.do = "readActive" /\ ReadActive(t)
              \/ t.do = "dropRoutes" /\ DropRoutes(t)
              \/ t.do = "saveList" /\ SaveList(t)
              \/ t.do = "saveActive" /\ SaveActive(t)
              \/ t.do = "fetch" /\ Fetch(t)
           /\ kept' = Promised(t)
           /\ UNCHANGED <<failed, gone, crossed>>

\* A write that fails ends its operation; a read that does reads as nothing.
Fail ==
    /\ tasks # <<>>
    /\ Head(tasks).do \in Fallible
    /\ failed' = TRUE
    /\ IF Head(tasks).do \in {"readList", "readActive"}
       THEN Load(<<>>, None)
       ELSE /\ Answered
            /\ UNCHANGED <<keychain, store, link, shown>>
    /\ UNCHANGED <<kept, gone, crossed>>

\* The app is killed; it starts again from what was kept.
Restart ==
    /\ store' = Unread
    /\ link' = None
    /\ shown' = {}
    /\ tasks' = <<Request("readList", <<>>, None, "nothing")>>
    /\ failed' = FALSE /\ crossed' = {}
    /\ kept' = kept \cup Listed(keychain.list)
    /\ gone' = gone \ Listed(keychain.list)
    /\ UNCHANGED keychain

Next ==
    \/ \E device \in Devices : Use(device)
    \/ \E pairing \in Pairing : Add(pairing)
    \/ ForgetCurrent
    \/ \E relay \in Relays : SetRelay(relay)
    \/ Named \/ Streamed
    \/ Serve \/ Fail \/ Restart

Spec == Init /\ [][Next]_vars

-----------------------------------------------------------------------------
Dialing(pairing) ==
    \E i \in DOMAIN tasks :
        tasks[i].do = "fetch" /\ PairingOf(tasks[i].list, tasks[i].active) = pairing

\* Whatever operations cross, the phone comes to the link of the pairing in use: where the
\* link is another one, or none, that one is about to be dialed.  And unless two that dial
\* different computers cross, the link is to no other computer at any moment, and what the
\* stores show was said by the one in use (connectTo, setRelay, boot).
OneInUse ==
    /\ store.current \notin {None, link} => Dialing(store.current)
    /\ "dials" \notin crossed => /\ link # None => link.device = Current
                                /\ shown \subseteq {Current}

\* Once nothing is under way a phone paired with any computer is on one of them, and the
\* keychain holds what the app shows, whatever operations crossed, unless a write failed or a
\* name was said while another operation had yet to show its list (keychain.ts, followNames).
Settled ==
    tasks = <<>> /\ store.loaded =>
        /\ store.list # <<>> <=> store.current # None
        /\ ~failed /\ "name" \notin crossed =>
              /\ keychain.list = store.list
              /\ GetActiveComputer(keychain.list, keychain.active) = Current

\* No computer is lost from the keychain until the person asks for it to be forgotten,
\* whichever operations cross from then on, whichever writes fail and wherever the app is
\* killed.  One is promised this once it is shown as added and no operation that was started
\* without it is under way (saveComputers, withComputer).
NothingLost == kept \subseteq Listed(keychain.list)

\* A computer the person asked to be forgotten is neither kept nor in use once nothing is under
\* way, whatever operations were under way when it was asked, unless a write failed, or another
\* operation was started since from a list that it was still in (forgetCurrent).
StaysForgotten ==
    tasks = <<>> /\ ~failed => gone \cap (Listed(keychain.list) \cup {Current}) = {}

-----------------------------------------------------------------------------
\* What would hold if operations waited for one another.  Neither does (README): the link and
\* the stores are of one computer at every moment, and the keychain ends as what is shown.
NeverMixed == (link # None => link.device = Current) /\ shown \subseteq {Current}

KeptAsShown == tasks = <<>> /\ store.loaded /\ ~failed => keychain.list = store.list
=============================================================================
