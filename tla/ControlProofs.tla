--------------------------- MODULE ControlProofs ---------------------------
(***************************************************************************)
(* What holds of module Control for any viewports, links and devices.      *)
(*                                                                         *)
(* The inductive invariant says what the pieces of a call rely on across   *)
(* the gaps between them: whoever is in the middle of a call that moves    *)
(* control is attached, and a link nobody attached has yet to speak.       *)
(***************************************************************************)
EXTENDS Control, TLAPS

\* A task that is about to move control, or to settle it, is an attached viewport's, and only a
\* device's link follows its device.
CallersAttached ==
    \A v \in Viewers :
        /\ pc[v] \in {"forgive", "settle"} => v \in viewers
        /\ pc[v] = "follow" => v \in viewers \cap DeviceLinks
        /\ then[v] = "follow" => pc[v] \in {"read", "store"} /\ v \in viewers \cap DeviceLinks

\* A link that is not attached has yet to speak in the session it will be attached with.
StrangersFresh == \A v \in Viewers \ viewers : fresh[v]

IInv ==
    /\ TypeOK
    /\ CallersAttached
    /\ StrangersFresh
    /\ ControllerAttached
    /\ OwedIsAway

-----------------------------------------------------------------------------
\* What the constants say of one viewport.
LEMMA DeviceType ==
    ASSUME NEW v \in Viewers
    PROVE  /\ v \in DeviceLinks => Device(v) \in Devices /\ Device(v) = DeviceOf[v]
           /\ v \notin DeviceLinks => Device(v) = None /\ v \in LocalViews
           /\ v # None
           /\ Device(v) # None => v \in DeviceLinks
BY ControlAssumption DEF Device, Viewers, DeviceLinks

\* Initially nobody is attached and no call is under way.
LEMMA InitInv == Init => IInv
BY ControlAssumption DEF Init, IInv, TypeOK, CallersAttached, StrangersFresh, ControllerAttached,
   OwedIsAway, Steps

\* Attaching a viewport.
LEMMA RegisterInv ==
    ASSUME IInv, NEW v \in Viewers, NEW next \in {"idle", "follow"}, Register(v, next),
           next = "follow" => v \in DeviceLinks
    PROVE  IInv'
<1> USE DEF Register, Goto, IInv
<1>1. TypeOK'
  BY DEF TypeOK, Steps
<1>2. CallersAttached'
  BY DEF CallersAttached, TypeOK, Steps
<1>3. StrangersFresh'
  BY DEF StrangersFresh
<1>4. ControllerAttached'
  BY DeviceType DEF ControllerAttached
<1>5. OwedIsAway'
  BY DEF OwedIsAway, StrangersFresh
<1> QED BY <1>1, <1>2, <1>3, <1>4, <1>5

\* Moving control to the link a device talks through.
LEMMA FollowDeviceInv ==
    ASSUME IInv, NEW v \in viewers \cap DeviceLinks, FollowDevice(v),
           pc[v] \in {"idle", "follow"}
    PROVE  IInv'
<1> USE DEF FollowDevice, Goto, IInv
<1>0. v \in Viewers
  BY DEF TypeOK
<1>1. TypeOK'
  BY <1>0 DEF TypeOK, Steps, OwedAfter
<1>2. CallersAttached'
  BY <1>0 DEF CallersAttached, TypeOK, Steps
<1>3. StrangersFresh'
  BY <1>0 DEF StrangersFresh, TypeOK
<1>4. ControllerAttached'
  BY <1>0, DeviceType DEF ControllerAttached
<1>5. OwedIsAway'
  <2> SUFFICES ASSUME NEW u \in viewers \cap DeviceLinks, Device(u) = owed'
               PROVE  fresh'[u]
    BY DEF OwedIsAway
  <2>0. u \in Viewers /\ Device(u) # None
    BY DeviceType, ControlAssumption DEF TypeOK
  <2>1. owed # Device(v) /\ owed' = owed
    BY <2>0 DEF OwedAfter
  <2>2. u # v
    BY <2>1
  <2> QED BY <2>1, <2>2, <1>0 DEF OwedIsAway, TypeOK
<1> QED BY <1>1, <1>2, <1>3, <1>4, <1>5

\* Detaching a viewport.
LEMMA UnregisterInv ==
    ASSUME IInv, NEW v \in Viewers, Unregister(v)
    PROVE  IInv'
<1> USE DEF Unregister, Goto, IInv
<1>0. /\ \A S : Latest(S) \subseteq S
      /\ \A S : StandIn(S) \subseteq S
      /\ Siblings(v) \subseteq viewers \ {v}
  BY DEF Latest, StandIn, Earliest, Siblings
<1>1. controller' \in viewers' \cup {None} /\ owed' \in {owed, Device(v)}
  BY <1>0 DEF ControllerAttached
<1>2. TypeOK'
  <2>1. owed' \in Devices \cup {None}
    BY <1>1, DeviceType DEF TypeOK
  <2> QED BY <1>1, <2>1 DEF TypeOK, Steps
<1>3. CallersAttached'
  BY DEF CallersAttached, TypeOK, Steps
<1>4. StrangersFresh'
  BY DEF StrangersFresh, TypeOK
<1>5. ControllerAttached'
  <2>1. CASE controller # v
    BY <2>1, DeviceType DEF ControllerAttached
  <2>2. CASE controller = v /\ Siblings(v) # {}
    BY <2>2, <1>0, DeviceType DEF ControllerAttached, TypeOK
  <2>3. CASE controller = v /\ Siblings(v) = {}
    BY <2>3, <1>0, DeviceType DEF ControllerAttached, TypeOK
  <2> QED BY <2>1, <2>2, <2>3
<1>6. OwedIsAway'
  <2> SUFFICES ASSUME NEW u \in viewers' \cap DeviceLinks, Device(u) = owed'
               PROVE  fresh'[u]
    BY DEF OwedIsAway
  <2>1. u \in viewers \ {v}
    OBVIOUS
  <2>2. CASE owed' = owed
    BY <2>1, <2>2 DEF OwedIsAway, TypeOK
  <2>3. CASE Siblings(v) = {} /\ v \in DeviceLinks /\ owed' = Device(v)
    BY <2>1, <2>3 DEF Siblings
  <2> QED BY <2>2, <2>3
<1> QED BY <1>2, <1>3, <1>4, <1>5, <1>6

\* Every step keeps the invariant.
LEMMA NextInv == IInv /\ [Next]_vars => IInv'
<1> SUFFICES ASSUME IInv, [Next]_vars
             PROVE  IInv'
  OBVIOUS
<1>1. CASE UNCHANGED vars
  BY <1>1 DEF vars, IInv, TypeOK, CallersAttached, StrangersFresh, ControllerAttached, OwedIsAway
<1>2. ASSUME NEW v \in Viewers, Arrive(v)
      PROVE  IInv'
  BY <1>2, RegisterInv DEF Arrive
<1>3. ASSUME NEW v \in Viewers, Prove(v)
      PROVE  IInv'
  BY <1>3, RegisterInv DEF Prove
<1>4. ASSUME NEW v \in Viewers, Speak(v) \/ Follow(v)
      PROVE  IInv'
  BY <1>4, FollowDeviceInv DEF Speak, Follow, IInv, CallersAttached
<1>5. ASSUME NEW v \in Viewers, Reopen(v)
      PROVE  IInv'
  BY <1>5 DEF Reopen, IInv, TypeOK, CallersAttached, StrangersFresh, ControllerAttached, OwedIsAway
<1>6. ASSUME NEW v \in Viewers, Unregister(v)
      PROVE  IInv'
  BY <1>6, UnregisterInv
<1>7. ASSUME NEW v \in Viewers, Name(v)
      PROVE  IInv'
  BY <1>7 DEF Name, Served, Goto, IInv, TypeOK, Steps, CallersAttached, StrangersFresh,
     ControllerAttached, OwedIsAway
<1>8. ASSUME NEW v \in Viewers, TakeControl(v)
      PROVE  IInv'
  BY <1>8, DeviceType DEF TakeControl, Served, Goto, IInv, TypeOK, Steps, CallersAttached,
     StrangersFresh, ControllerAttached, OwedIsAway
<1>9. ASSUME NEW v \in Viewers, Forgive(v) \/ SettleOwed(v)
      PROVE  IInv'
  <2>1. /\ owed' = None
        /\ UNCHANGED <<viewers, before, controller, onDevice, fresh, then, seen>>
        /\ pc' = [pc EXCEPT ![v] = "read"] \/ pc' = [pc EXCEPT ![v] = "idle"]
        /\ pc[v] \in {"forgive", "settle"}
    BY <1>9 DEF Forgive, SettleOwed, Goto
  <2>2. OwedIsAway'
    BY <2>1, DeviceType, ControlAssumption DEF OwedIsAway, IInv, TypeOK
  <2> QED BY <2>1, <2>2 DEF IInv, TypeOK, Steps, CallersAttached, StrangersFresh,
      ControllerAttached
<1>10. ASSUME NEW v \in Viewers, Act(v)
       PROVE  IInv'
  BY <1>10 DEF Act, Served, Goto, IInv, TypeOK, Steps, CallersAttached, StrangersFresh,
     ControllerAttached, OwedIsAway
<1>11. ASSUME NEW v \in Viewers, ReadPresence(v)
       PROVE  IInv'
  BY <1>11 DEF ReadPresence, PersonOnDevice, Goto, IInv, TypeOK, Steps, CallersAttached,
     StrangersFresh, ControllerAttached, OwedIsAway
<1>12. ASSUME NEW v \in Viewers, StorePresence(v)
       PROVE  IInv'
  BY <1>12 DEF StorePresence, Goto, IInv, TypeOK, Steps, CallersAttached, StrangersFresh,
     ControllerAttached, OwedIsAway
<1> QED
  BY <1>1, <1>2, <1>3, <1>4, <1>5, <1>6, <1>7, <1>8, <1>9, <1>10, <1>11, <1>12 DEF Next, Continue

LEMMA Invariance == Spec => []IInv
BY InitInv, NextInv, PTL DEF Spec

\* The hub's lists and marks are of their types, whatever calls interleave.
THEOREM TypeCorrect == Spec => []TypeOK
BY Invariance, PTL DEF IInv

\* Somebody attached is in control as long as anybody is attached, for any number of viewports.
THEOREM ControlNeverLost == Spec => []ControllerAttached
BY Invariance, PTL DEF IInv

\* A device that is owed control has not spoken since it dropped off, for any devices and links.
THEOREM OwedDeviceIsAway == Spec => []OwedIsAway
BY Invariance, PTL DEF IInv

-----------------------------------------------------------------------------
\* The parties that are there, and the one that drives, as the refinement maps them.
Present == {Party(v) : v \in viewers}
Driver == IF controller = None THEN None ELSE Party(controller)

LEMMA PartyType ==
    ASSUME NEW v \in Viewers
    PROVE  /\ Party(v) \in D!Parties
           /\ v \in DeviceLinks => Party(v) \in Devices /\ Party(v) = Device(v)
           /\ v \notin DeviceLinks => Party(v) = v /\ v \notin Devices /\ v \in LocalViews
           /\ Party(v) # None
BY ControlAssumption DEF Party, D!Parties, Device, Viewers, DeviceLinks

\* Two links are of one party exactly when they are of one device.
LEMMA SiblingsShareParty ==
    ASSUME NEW u \in Viewers, NEW v \in Viewers, u # v
    PROVE  Party(u) = Party(v) <=> v \in DeviceLinks /\ Device(u) = Device(v)
BY PartyType, DeviceType, ControlAssumption DEF Party, Device

LEMMA RegisterRefines ==
    ASSUME IInv, NEW v \in Viewers, NEW next, Register(v, next)
    PROVE  D!Join(Party(v)) \/ UNCHANGED D!dvars
<1> USE DEF IInv, Register, ControllerAttached
<1>1. viewers' = viewers \cup {v} /\ owed' = owed
  OBVIOUS
<1>2. Present' = Present \cup {Party(v)}
  BY <1>1 DEF Present
<1>3. Driver' = IF Driver = None THEN Party(v) ELSE Driver
  BY DeviceType, PartyType DEF Driver, TypeOK
<1>4. Driver = None => Party(v) \notin Present
  BY PartyType DEF Driver, Present, TypeOK
<1> QED
  BY <1>1, <1>2, <1>3, <1>4 DEF D!Join, D!dvars, Present, Driver

LEMMA FollowDeviceRefines ==
    ASSUME IInv, NEW v \in viewers \cap DeviceLinks, FollowDevice(v)
    PROVE  D!GiveBack(Party(v)) \/ UNCHANGED D!dvars
<1> USE DEF IInv, FollowDevice
<1>1. v \in Viewers /\ v # None /\ Party(v) = Device(v)
  BY PartyType, DeviceType DEF TypeOK
<1>2. Present' = Present /\ Party(v) \in Present
  BY DEF Present
<1>3. CASE owed = Device(v)
  <2>1. controller' = v /\ owed' = None
    BY <1>3 DEF OwedAfter
  <2>2. Driver' = Party(v)
    BY <2>1, <1>1 DEF Driver
  <2> QED
    BY <1>1, <1>2, <1>3, <2>1, <2>2 DEF D!GiveBack, Present, Driver
<1>4. CASE owed # Device(v)
  <2>1. owed' = owed
    BY <1>4 DEF OwedAfter
  <2>2. Driver' = Driver
    <3>1. CASE controller' = controller
      BY <3>1 DEF Driver
    <3>2. CASE controller' # controller
      <4>1. controller \in viewers \ {v} /\ Device(controller) = Device(v) /\ controller' = v
        BY <3>2, <1>4
      <4>2. controller # None /\ Party(controller) = Party(v)
        BY <4>1, <1>1, SiblingsShareParty, DeviceType DEF TypeOK
      <4> QED BY <4>1, <4>2, <1>1 DEF Driver
    <3> QED BY <3>1, <3>2
  <2> QED
    BY <1>2, <2>1, <2>2 DEF D!dvars, Present, Driver
<1> QED BY <1>3, <1>4

LEMMA UnregisterRefines ==
    ASSUME IInv, NEW v \in Viewers, Unregister(v)
    PROVE  D!Withdraw(Party(v)) \/ D!Drop(Party(v)) \/ UNCHANGED D!dvars
<1> USE DEF IInv, Unregister
<1>1. /\ v \in viewers /\ viewers' = viewers \ {v} /\ viewers \subseteq Viewers
      /\ Party(v) \in Present
  BY DEF TypeOK, Present
<1>2. Present' = Present \ {Party(v)} \/ Present' = Present
  BY <1>1 DEF Present
<1>3. Siblings(v) = {} <=> Present' = Present \ {Party(v)}
  <2>1. Siblings(v) = {} <=> \A u \in viewers \ {v} : Party(u) # Party(v)
    BY <1>1, SiblingsShareParty DEF Siblings
  <2> QED BY <1>1, <2>1 DEF Present
<1>4. CASE controller # v
  <2>1. controller' = controller /\ owed' = owed /\ Driver' = Driver
    BY <1>4 DEF Driver
  <2>2. CASE Present' = Present
    BY <2>1, <2>2 DEF D!dvars, Present, Driver
  <2>3. CASE Present' = Present \ {Party(v)} /\ Present' # Present
    <3>1. Driver # Party(v)
      <4>1. controller \in viewers \ {v} /\ controller # None
        BY <1>1, <1>4, DeviceType DEF ControllerAttached
      <4>2. Party(controller) # Party(v)
        BY <4>1, <1>1, <1>3, <2>3, SiblingsShareParty DEF Siblings
      <4> QED BY <4>1, <4>2 DEF Driver
    <3> QED BY <1>1, <2>1, <2>3, <3>1 DEF D!Withdraw, Present, Driver
  <2> QED BY <1>2, <2>2, <2>3
<1>5. CASE controller = v /\ Siblings(v) # {}
  <2>1. controller' \in Siblings(v) /\ owed' = owed
    BY <1>5 DEF Latest
  <2>2. /\ controller' \in Viewers /\ controller' # v /\ v \in DeviceLinks
        /\ Device(controller') = Device(v)
    BY <2>1, <1>1 DEF Siblings
  <2>3. Party(controller') = Party(v) /\ controller' # None /\ controller # None
    BY <2>2, <1>5, SiblingsShareParty, DeviceType
  <2>4. Driver' = Driver
    BY <2>3, <1>5 DEF Driver, Party
  <2> QED BY <1>2, <1>3, <1>5, <2>1, <2>4 DEF D!dvars, Present, Driver
<1>6. CASE controller = v /\ Siblings(v) = {}
  <2>1. Present' = Present \ {Party(v)}
    BY <1>3, <1>6
  <2>2. Driver = Party(v)
    BY <1>6, DeviceType DEF Driver
  <2>3. IF Present' = {} THEN Driver' = None ELSE Driver' \in Present'
    <3>1. Present' = {} <=> viewers' = {}
      BY DEF Present
    <3>2. CASE viewers' = {}
      BY <3>1, <3>2, <1>6 DEF Driver
    <3>3. CASE viewers' # {}
      <4>1. controller' \in viewers'
        BY <3>3, <1>6 DEF StandIn, Earliest
      <4>2. controller' \in Viewers /\ controller' # None
        BY <4>1, <1>1, DeviceType
      <4> QED BY <3>1, <3>3, <4>1, <4>2 DEF Driver, Present, Party
    <3> QED BY <3>2, <3>3
  <2>4. owed' = IF Party(v) \in Devices THEN Party(v) ELSE owed
    BY <1>6, PartyType
  <2> QED BY <1>1, <2>1, <2>2, <2>3, <2>4 DEF D!Drop, Present, Driver
<1> QED BY <1>4, <1>5, <1>6

LEMMA TakeControlRefines ==
    ASSUME IInv, NEW v \in Viewers, TakeControl(v)
    PROVE  D!Take(Party(v))
<1>1. Present' = Present /\ Party(v) \in Present /\ owed' = owed
  BY DEF TakeControl, Served, Present
<1>2. Driver' = Party(v)
  BY DeviceType DEF TakeControl, Driver
<1> QED BY <1>1, <1>2 DEF D!Take, Present, Driver

LEMMA SettleRefines ==
    ASSUME IInv, NEW v \in Viewers, Forgive(v) \/ SettleOwed(v)
    PROVE  D!Settle \/ UNCHANGED D!dvars
<1>1. v \in viewers /\ owed' = None /\ UNCHANGED <<viewers, controller>>
  BY DEF Forgive, SettleOwed, IInv, CallersAttached
<1>2. Present' = Present /\ Present # {} /\ Driver' = Driver
  BY <1>1 DEF Present, Driver
<1> QED BY <1>1, <1>2 DEF D!Settle, D!dvars, Present, Driver

LEMMA NextRefines == IInv /\ [Next]_vars => [D!DNext]_(D!dvars)
<1> SUFFICES ASSUME IInv, [Next]_vars
             PROVE  D!DNext \/ UNCHANGED D!dvars
  OBVIOUS
<1>0. ASSUME UNCHANGED <<viewers, controller, owed>>
      PROVE  UNCHANGED D!dvars
  BY <1>0 DEF D!dvars
<1>1. CASE UNCHANGED vars
  BY <1>0, <1>1 DEF vars
<1>2. ASSUME NEW v \in Viewers, Arrive(v) \/ Prove(v)
      PROVE  D!DNext \/ UNCHANGED D!dvars
  BY <1>2, RegisterRefines, PartyType DEF Arrive, Prove, D!DNext
<1>3. ASSUME NEW v \in Viewers, Speak(v) \/ Follow(v)
      PROVE  D!DNext \/ UNCHANGED D!dvars
  <2>1. v \in viewers \cap DeviceLinks /\ FollowDevice(v)
    BY <1>3 DEF Speak, Follow, IInv, CallersAttached
  <2>2. Party(v) \in Devices
    BY <2>1, PartyType
  <2> QED BY <2>1, <2>2, FollowDeviceRefines DEF D!DNext
<1>4. ASSUME NEW v \in Viewers, Unregister(v)
      PROVE  D!DNext \/ UNCHANGED D!dvars
  BY <1>4, UnregisterRefines, PartyType DEF D!DNext
<1>5. ASSUME NEW v \in Viewers, TakeControl(v)
      PROVE  D!DNext \/ UNCHANGED D!dvars
  BY <1>5, TakeControlRefines, PartyType DEF D!DNext
<1>6. ASSUME NEW v \in Viewers, Forgive(v) \/ SettleOwed(v)
      PROVE  D!DNext \/ UNCHANGED D!dvars
  BY <1>6, SettleRefines DEF D!DNext
<1>7. ASSUME NEW v \in Viewers,
             Reopen(v) \/ Name(v) \/ Act(v) \/ ReadPresence(v) \/ StorePresence(v)
      PROVE  D!DNext \/ UNCHANGED D!dvars
  BY <1>0, <1>7 DEF Reopen, Name, Act, ReadPresence, StorePresence
<1> QED
  BY <1>1, <1>2, <1>3, <1>4, <1>5, <1>6, <1>7 DEF Next, Continue

\* Links, sessions and calls cut in pieces keep the promise made to parties: for any devices and
\* any links, who drives changes only when a party claims, goes, or comes back for what it is owed.
THEOREM ControlImplementsDriving == Spec => ImplementsDriving
<1>1. Init => D!DInit
  BY DEF Init, D!DInit
<1> QED
  BY <1>1, NextRefines, Invariance, PTL DEF Spec, ImplementsDriving, D!DSpec
=============================================================================
